# Exam-prep agent: specifications

TLA+ specifications of the parts of exam-prep-agent that keep state across
threads, requests and restarts, and of the algorithms that make its questions
and flashcards; the TLC configurations that check them on small instances; and
TLAPS proofs of the main results for every value of the constants. Paths below
are relative to the repository; `B/` stands for `backend/src/exam_prep/`.

    tlc -config PackageBuild.cfg MCPackageBuild.tla     # one model-checking run
    tlapm PackageBuildProofs.tla                        # the proofs of one module

1. [The system](#1-the-system)
2. [Modules and plan](#2-modules-and-plan)
3. [PackageBuild and PackageReleases](#3-packagebuild-and-packagereleases)
4. [QuizJobs](#4-quizjobs)
5. [MaterialIngestion](#5-materialingestion)
6. [PracticeProgress](#6-practiceprogress)
7. [MockExams](#7-mockexams)
8. [QuizQuestions, QuizQuality, QuizFallback](#8-quizquestions-quizquality-quizfallback)
9. [StudyCards, CardForms, CardFamilies](#9-studycards-cardforms-cardfamilies)
10. [Runs](#10-runs)
11. [Disagreements](#11-disagreements)
12. [Proofs](#12-proofs)
13. [What is only model-checked, and what is not modelled](#13-what-is-only-model-checked-and-what-is-not-modelled)

## 1. The system

A FastAPI backend and a Next.js frontend that polls it. A student uploads course
material, which is parsed into sections; from the sections the backend generates
quizzes, mock exams and offline study packages, and grades what the student
answers. State is in one SQLite database and in JSON files and artifact
directories beside it.

There is one server process. Its routes are synchronous functions that FastAPI
runs in a pool of threads, so any two requests may interleave. Three runners
(material, package, quiz) each own a `ThreadPoolExecutor` of one worker. Every
call of a SQLite store opens its own connection and transaction; nothing spans
two calls. The `study-package` command line is a second process over the same
database and directories. When the server starts, `B/main.py:147-148` resumes
package and quiz jobs, and no material jobs.

| component | state | operations | hard behaviour | what makes it correct |
|---|---|---|---|---|
| package build: `packages/{jobs,service,cli}.py`, `repositories/sqlite/package_store.py` | rows of packages, versions, files, reports, jobs, steps; artifact directories; futures | create, submit, build, cancel, validate, export, resume | four actors on the same rows with stale copies; kill between any two saves; failure inside the failure handler | complete means downloadable; no version is skipped; a cancelled job stays so; a job ends |
| package assembly: `packages/{assembler,validation}.py` | version directory | write to a temporary directory, rename into place | two builders of one version; what a killed build left | a version is made once and whole |
| quiz generation jobs: `services/quiz_job_runner.py`, `repositories/sqlite/quiz_job_store.py`, `api/routes/quiz.py` | rows of jobs and results, session files, futures, a lock | submit (deduplicated), run question by question, cancel, poll, resume | callback under a lock; duplicates; re-run over old rows; cancellation racing the worker | delivered means gradable; progress can be fetched; an early cancellation is final; no job is lost; requests are answered |
| material ingestion: `ingestion/pipeline.py`, `services/material_{service,job_runner}.py`, `repositories/**/material_*.py` | record files and catalog rows, parsed and study documents, the course's index, futures | upload (deduplicated), process, reprocess, retry, regenerate, delete, search | stale copies of the record; no resumption at start; deletion racing a job; an enqueue that is dropped; a callback under a lock | one content is listed once per module; what is not settled is in somebody's hand; ready means studied; gone stays gone; requests are answered |
| quiz service, grading: `services/quiz_service.py`, `repositories/local/quiz_store.py`, activity and analytics stores | session, result, mastery and retry-history files; attempt and event rows; analytics tables | grade, remediate, delete a quiz, refresh | read-modify-write of one mastery file over minutes of model calls; kill between files and rows; rows of two kinds, with and without a course | the snapshot never claims more than the attempts on record; the tables are of one moment and of the course |
| quiz service, questions: `services/quiz_service.py`, `services/question_pipeline.py` | the quiz in work: hits, questions made, what they are compared with | plan, try a question up to four times, with or without a language model, judge it, save | retries by a stride; a rejected candidate must leave no trace; rotation of options; a missing score | a stored quiz is whole and does not repeat itself; the key marks the answer; the gate holds |
| exam service and completed exam import: `services/exam_service.py`, `services/mock_exam_generation_service.py`, `packages/{completed_exam,import_service}.py` | exam session files, a source bank, attempt rows | upload a source exam, generate (two ways), grade, import | files written in place; signatures read once before minutes of model calls; an import racing a grading | stored exams are complete, do not repeat what they were compared with and stay graded |
| study flashcards: `services/section_study_service.py:1669-11100` | the deck of a section, built in passes | generators, deduplication, balance, repair of outcomes and concepts, top-ups | more than fifty generators run up to four times over overlapping texts; limits applied before later additions | nothing is asked twice, no concept forgotten, limits hold, thin outcomes are marked |
| study documents: the rest of `section_study_service.py` | a cached document per section | group sections, extract concepts and formulas | text heuristics | |
| retrieval and vector index: `services/retrieval_service.py`, `retrieval/*` | an index file per course | refresh, query | refresh racing ingestion and deletion | the index is rebuilt from what is parsed |
| agent layer | one conversation turn | plan, run tools, answer | the loop's bound | it ends |
| LLM clients and registry | a dictionary of clients | create, call with retry, close | unsynchronised dictionary | a client is not used after it is closed |
| courses, configuration, workflow, notifications, dashboard | single rows, an append-only log | read and write | none to speak of | |
| document parsers, numeric models, package content | none | pure text and numbers | | |

How they interact: a route creates a job row and calls the runner's `enqueue` or
`submit`; the worker calls services, which write through the stores; clients poll
the stores. A material's processing writes the parsed document and refreshes the
index; retrieval reads both, and a quiz or exam is made from what it returns. A
quiz job runs the same question maker as the synchronous route and writes the
session file that grading reads; grading writes the attempts the analytics are
computed from. A package build reads the course's sources, its exam included,
and an exam answered offline comes back through the completed exam import, which
grades the same session file as the site does.

`PROJECT.json` lists every component with its files, and under "hazards" the
places of this code that are hard to test, with the properties that cover them.

## 2. Modules and plan

| modules | content | checked by |
|---|---|---|
| `PackageBuild`, `PackageReleases`, `PackageBuildProofs` | the package build, its abstract release history, the refinement | TLC, TLAPS |
| `QuizJobs`, `QuizJobsProofs` | quiz generation jobs | TLC, TLAPS |
| `MaterialIngestion`, `MaterialIngestionProofs` | the materials of a course: directory, catalog row, index, job runner | TLC, TLAPS |
| `PracticeProgress`, `PracticeProgressProofs` | grading, remediation, mastery and analytics | TLC, TLAPS |
| `MockExams`, `MockExamsProofs` | source banks, both exam generations, grading, import | TLC, TLAPS |
| `QuizFallback` < `QuizQuality` < `QuizQuestions`, `QuizQuestionsProofs` | how a question is written without a model, how it is judged, how a quiz is put together (each extends the one before) | TLC, TLAPS |
| `Selections`, `SelectionsProofs` | what a list comprehension with a test selects, and lemmas about sequences; used by the quiz and card modules | TLC, TLAPS |
| `CardFamilies`, `CardForms` < `StudyCards`, `StudyCardsProofs` | fixed cards, cards from sentences, the deck | TLC, TLAPS |

Each `MC...` module extends its specification with the small constants of a run.
The modules compose components where they meet in one store: `MockExams` has the
exam service and the import over one session file, `MaterialIngestion` the
service, the runner and the index, `PracticeProgress` the quiz, activity and
analytics stores, `QuizQuestions` retrieval, hydration and deletion of materials.

What the plan has left, in order:

1. an abstract life cycle of one material that `MaterialIngestion` implements;
2. the orchestrator's bounded loop of the agent layer;
3. the composition of `QuizJobs` with the deletion and grading of its session.

## 3. PackageBuild and PackageReleases

`PackageBuild` models the life of one package: `PackageService`
(`B/packages/service.py`), `PackageJobRunner` (`B/packages/jobs.py`),
`SQLitePackageStore`, the directory protocol of the assembler, and the export
command. The packages of a database share nothing but the runner's queue, so
one package is enough for what is said of packages; jobs are many.

State:

| variable | code |
|---|---|
| `package`, `versions`, `files`, `report` | rows of `study_packages`, `package_versions`, `export_files`, `validation_results` |
| `artifact` | directory `_packages/<id>/v<N>`, named by the process that renamed it into place |
| `jobs`, `steps` | rows of `generation_jobs`, `generation_job_steps` |
| `futures`, `queue` | `PackageJobRunner.futures`, the executor's work queue |
| `proc` | for each thread or process: its position in the code and what it has read (`active`, `version`, `status`, the job) |

Actors are request threads (`Clients`), the one worker thread, and command-line
exports. A step is one store call or one file operation. `save_version` is
two, because Python's sqlite3 begins a transaction at the first write:
`CheckVersion` reads the row and refuses a completed one, and the step that
follows writes whatever the row has become by then. `prepare_build` runs in
`submit` and again in `build`: `ReadPackage`, `ReadActive`, `ReadVersion`,
`SaveNewVersion`, `ActivateVersion`. `build` goes on with `MarkPackageBuilding`,
`MarkVersionBuilding`, `Assemble`, `MoveArtifact`, `ReplaceFiles`, `SaveReport`,
`CompleteVersion`, `CompletePackage`. The worker's `_run` wraps it in
`MarkJobRunning`, `MarkStepRunning`, `CompleteStep`, `CompleteJob`; an exception
in its try block leads to `mark_failed` and the step and job rows
(`FailReadPackage` to `FailJob`), one in the except branch ends the
future and leaves the rows as they are (`Raise`).

What reading the course's sources gives is an input: unavailable, rejected by
validation, or valid. `Fault` lets any call that reaches the database or the
disk raise; `CrashRestart` kills the server at any step and starts it again with
`resume_incomplete_jobs`; `KillExport` kills an export. The calls of
`resume_incomplete_jobs` are one step with the restart, because no request is
served before `create_app` returns and it only reads rows.

`PackageReleases` is what a downloader is promised: versions are released in
order, each by one builder, and never withdrawn or replaced. A version counts as
released when its directory is in place and the file rows are those of the build
that made it (`Built`); `PackageBuild` implements it under
`release[v] = IF Built(v) THEN files[v] ELSE NoOne`.

## 4. QuizJobs

`QuizJobs` models the request threads that submit and cancel quiz jobs
(`B/api/routes/quiz.py`), `QuizJobRunner`, `SQLiteQuizJobStore` and the start of
the server.

State:

| variable | code |
|---|---|
| `jobs`, `results` | rows of `quiz_generation_jobs` (status, dedupe key, cancel flag, progress) and `quiz_generation_results` |
| `session`, `events` | the session file a quiz is graded from; the jobs with a QUIZ_GENERATED event |
| `futures`, `queue`, `lock` | `QuizJobRunner._futures`, the executor's queue, the owner of `_lock` |
| `proc`, `todo` | the position of each request thread and of the main thread; the jobs it has still to resume |
| `work` | the worker: its position in `_run_job`, the job, the question number, the outcome so far and the questions made |

Submission is `FindActive`, `CreateJob`, `Enqueue`, `AddCallback`; cancellation
`ReadStatus`, `SaveCancel`; the worker's steps follow `_run_job` from
`CheckCancel` to `MarkCompleted` or `MarkFailed`, then `EndJob` and the callback
`ClearFuture`. The code's lock is not reentrant: a thread that asks for it while
it owns it has no further step. `add_done_callback` calls the callback at once
when the future has already ended, which is the branch of `AddCallback` that
keeps the lock. `TakeJob` and `EndJob` change `futures` only when the entry is
still this run's: a callback of an earlier run may have removed it, or a
duplicate may have stored a younger one.

A question is a pair of its ordinal and the try that delivered it, since the
code's question ids differ between tries; a session is the set of questions made
in this run, while `results` keeps the rows of earlier runs too. `Failures` says
what may fail for good (retrieval, a question), `Mishaps` whether a call may
raise or the server be killed. `CallbackFirst` is an assumption on scheduling:
that a job never ends before the thread that enqueued it has registered the
callback. It is off in `quiz_jobs`, whose properties do not need it, and in
`quiz_lock`, which shows what happens without it; the liveness run needs it.

## 5. MaterialIngestion

`MaterialService`, `IngestionPipeline`, `MaterialJobRunner` and the stores of
materials of one course. A step is one call on a store.

| variable | code |
|---|---|
| `rec`, `files` | the record last saved and the files of a material's directory |
| `listed`, `catalog` | the material's row and where its section rows come from (`parsed` or `study`) |
| `index` | materials in the course's vector index file |
| `futures`, `queue`, `lock` | `MaterialJobRunner._futures`, the executor's queue, who owns `_lock` |
| `proc` | for each thread its position, its material, the copy of the record it read, the documents it listed |
| `fate` | ghost: what has happened to a material besides being processed (failed, dropped, killed, deleted) |

Uploads run on the event loop one at a time. `Upload` answers with a stored record
of the same content when `enable_parse_cache` is set (`ParseCache`) and the search
finds one: in the module the file is uploaded for, or in the whole course when it is
uploaded for none (`Stored`). Otherwise it registers a material, processes a small
file there and queues a large one. `upload_material` is `async` and does all of this
without awaiting, so no request is started meanwhile (`Ask` needs the loop idle).
`Enqueue` takes the runner's lock, `AddCallback` registers the future's callback and
releases it, `TakeJob`, `EndJob` and `ClearFuture` are the worker's side;
`process_registered_material` is `ReadMaterial` to `SaveIndex`, whoever runs it.
A job that ends before its callback is registered leaves the enqueuing thread
waiting for the lock it owns itself, as in `QuizJobs`; the scheduling assumption
`CallbackFirst` excludes that; `materials`, whose properties hold through such a hang,
does not make it, and `material_liveness` does.
Requests are `Retry`, `Reprocess`, `Regenerate`, `Delete` and `Search`, which
rebuilds a missing index. Everyone saves changed copies of the record read at
the start of the request, and `save_record` makes the directory and the row
again, whoever removed them: this is what the properties are about. A kill
loses threads, queue and futures, and nothing takes materials up at the start.

`ContentListedOnce` is about the search: a content is listed twice only for a module
of its own, or when a deleted material came back. With the cache off the code
promises nothing, and the property says nothing. `GoneStaysGone` says when a
deletion is final: as soon as nobody is past its first read of the record.
`MaterialsSettle` and `RequestsAnswered` are liveness under weak fairness of each
thread: uploads and requests are finitely many, so whoever waits for the lock meets
it free for good. They need `CallbackFirst`: with it set to FALSE in
`MaterialLiveness.cfg`, TLC finds a retry whose job fails to parse and ends before
`AddCallback`, a request that is never answered and a lock that is never given
back. For an upload the thread that hangs is the event loop's. The code is that of
the quiz runner, whose run `quiz_lock` shows the same hang.

## 6. PracticeProgress

`QuizService.grade_quiz`, `generate_remediation` and the deletion of a quiz, with
`SQLiteActivityStore` and the analytics refresh. Files are read, changed in
memory and written back, rows are inserted one transaction at a time, and each of
these is a step: `Grade` reads session and snapshot once, `CountAttempts`,
`InsertAttempt` and `RecordAnswer` follow for each answer, then `SaveSnapshot`,
`SaveResults` and `CompleteQuiz`. Whether an answer is right is a choice. The
running average of `update_mastery` is kept as the two counts it is made of; that
the code rounds it to four digits at each answer is left out. There is one user,
as every query of rows selects one.

`Quizzes` are the quizzes generated before, whose questions carry the course. Those
of a remediation do not, and neither do the attempts recorded on them (`Row`).
`Refresh` loads the attempts and `StoreTable` replaces the tables by what those of
the course add up to (`OfCourse`, `Aggregate`), with the advice that follows (`Weak`,
cut to eight by the code: `ConceptsAssumption` leaves no more). An answer given in a
remediation counts in the mastery snapshot and never in the tables.

A remediation names any number of concepts, the same one twice if it likes.
`Remediate` reads the retry history once, before the loop over them; for each concept
`SkipConcept` makes nothing, or `BuildQuestions` makes questions that differ from each
other and from that history, `ListHistory` and `WriteHistory` extend the file, which
is read anew, and `SaveSession` saves the quiz. A question's signature has its concept
in it, so only a concept named twice can repeat a question within one request, and its
quiz, which is named after request and concept, is then saved twice:
`SerialPracticeIsExact` says that no two *quizzes* share a question.

`serial` is a ghost: no two requests ever overlapped and none was killed.
`SerialPracticeIsExact` is what holds then; `MasteryIsAttempted`,
`ResultsAreAttempted` and `TableIsOfOneMoment` hold under every overlap and kill.
That gradings which overlap lose part of the mastery is the code's behaviour, and
no document promises otherwise. So is a retry history that loses an entry, whose
questions may then be asked again, and the results of a quiz saved after a
concurrent deletion has removed them: both need the overlap that `serial` excludes.

## 7. MockExams

The exams of one course: `ExamService`, `MockExamGenerationService`,
`MockExamSourceService` and the import of completed offline exams. A session file
is opened (it is empty from then on) and written: `OpenSession`, `WriteSession`;
two threads that have it open at once may leave a mixture, `Garbled`. A generation
from a source exam reads the signatures of all stored exams once
(`ReadSignatures`) and then accepts or rejects candidates (`AcceptCandidate`,
`RejectCandidate`, `GiveUp`); a blueprint's exam compares nothing. Prompts are
model values with a relation `Alike` for the duplicate check. `Import`,
`CheckCanonical`, `GradeImport`, `OpenSession`, `WriteSession` and
`SaveExamAttempt` are one import; `Grade` is a grading on the site.

Ghosts: `known` (the exams a generation was compared with), `shared` (files two
threads had open), `graded`. `AsksNothingTwice` is relative to `known`, since an
exam generated meanwhile is not seen; `SessionsAreReadable` is relative to kills
and to `shared`.

## 8. QuizQuestions, QuizQuality, QuizFallback

`QuizService.generate_quiz` for one request at a time: `Plan` takes what retrieval
returns (`Retrieved`: sources or scope, the bounded number, testable chunks before
weak ones) and selects a hit for each question (`SelectHits`); `Take`, `Retry`,
`TakeLast` and `GiveUp` are the four outcomes of a try, `SaveSession` the end.
`Index` is the sequence number of a try, moved by the length of the quiz. Hits are
told apart by the section they come from (`KeyOf`: file name, title and outcome), and
answers of fewer than three words (`ShortAnswers`) are not remembered.
Meanwhile `DeleteMaterial` may remove the parsed documents that hydration reads.

`Fallback` (module `QuizFallback`) is `generateExamStyleQuestion`: the workbook's
style where the chunk prints a quiz, questions written out in the code for known
topics, facts of key concepts, else the knowledge of any text. Texts are records
of what the templates look at; a written sentence is its template with what fills
it, so that equality of two options is equality of what a student reads. An
answer of a workbook fact is a sentence of the text when the code takes it from there
(`FactAnswer`), and is offered as a wrong option where another fact is asked; a roman
question on facts that are near duplicates is not made. Rotation
and insertion of options follow the code's arithmetic on the index.
A list comprehension with a test is `Selected` (module `Selections`): place `k` of it is
the element whose place in the list has `k - 1` passing places before it.

`QuizQuality` has `validateQuestion` (`Mark`, `Notes`, `Accepted`) with its
points for the question, its options and its answer, and
`_annotate_question_quality` (`Annotated`): scores are in hundredths,
and the combined score, a mean, is kept doubled. What the wording alone brings
up is an input (`Wordings`), as are the model's answers (`Payloads`) and the
scores, which may come from the PyTorch model, the heuristic or not at all.

## 9. StudyCards, CardForms, CardFamilies

`_flashcards_from_original_book`: `CardsForConcept` for each concept,
`ConceptsDone`, `CoverOutcome` for each learning outcome (balance, cover each
concept, fill up, mark), `AddFormulas`, `TopUpSection`. A section, a set of
concepts with the phrases their texts have, is chosen at the start, and so is
the order in which a set of terms is listed, which in CPython depends on the
process's hash seed.

What a concept, a section and a hash order are is assumed of the constants
(`SectionsAssumption`, `HashOrdersAssumption`): records with lists in the places
where the code has lists, concept ids distinct because they are numbered by the
place in the book, formula ids never missing. A concept whose text `spoils` (it
holds, say, the marker of a cropped image) makes every text it is joined to fail
the quality test, so `Aggregate` may give nothing although each concept alone is
valid. A question holds the id of its formula, as the semantic key does, and only
a formula's own card has one.

Which cards the checks on wording refuse (`_flashcard_quality_flags`: a "what is" on
a plural, words repeated, no source page, an answer of one word or equal to the
excerpt, a front without an anchor) depends on what the text says, and is an input:
`unfit`, for a concept the cards by rule and question, for a section the same by the
concepts whose texts are joined, for a formula the kinds of its cards. `IsValid` refuses what is unfit,
and a formula whose own card is refused is not askable: `EveryFormulaAsked` is about
those that are (`Askable`), whatever happens to the cards about their variables and to
the formulas of the same name.

`CardFamilies` names the fixed cards of the generators: each is a gate and rules
from phrases to card names, in the code's order. `SameQuestion` lists the cards
of different names that ask one question, `Refused` those the quality filter
refuses whatever the text; both were found by comparing the literals.
`CardForms` has the sentence forms of the three generators that read sentences,
with the first form deciding, or every form adding.

## 10. Runs

Every run sets CHECK_DEADLOCK FALSE: a behaviour may stop when nobody asks for
anything more or the bounds are used up; a thread blocked for ever is what the
liveness properties are about. Every bound is a constant of the cfg.

| run | instance | states | shows |
|---|---|---|---|
| `package_build` | 1 client, 1 export, submit and cancel, 2 jobs, 4 versions, 1 kill or raised call | 1.44 M | `TypeOK`, `CompleteVersionsBuilt`, `EarlierVersionsBuilt`, `CompletePackageBuilt`, `CompleteJobsBuilt`, `CancelledIsFinal`, and that the build implements `PackageReleases` (`ReleasesInOrder`) |
| `package_liveness` | fair; 1 client, all requests and sources, 2 jobs, 1 kill | 77 k | `JobsFinish` |
| `package_stuck_job` | fair; 2 clients, 4 jobs, 6 versions, no mishap | | `JobsFinish` is violated |
| `quiz_jobs` | 2 clients, 1 job of 2 questions, 2 tries, all failures, 1 kill or raised call | 395 k | `CompletedIsDelivered`, `ProgressIsFetchable`, `CancelPreventsDelivery` |
| `quiz_liveness` | fair, `CallbackFirst`; 2 clients, 1 job, 2 kills | 22 k | `NoJobForgotten`, `JobsFinish`, `RequestsAnswered` |
| `quiz_lock` | fair, not `CallbackFirst`; 1 client | | `RequestsAnswered` is violated |
| `materials` | 1 client with 2 requests of all kinds, uploads for a module and for none, the worker, 1 content, 2 materials, both failures, 1 kill | 3.96 M | `ContentListedOnce`, `UnsettledIsInHand`, `ReadyIsStudied`, `GoneStaysGone` |
| `material_liveness` | fair, `CallbackFirst`; the same with uploads for no module | 448 k | `MaterialsSettle`, `RequestsAnswered` |
| `practice` | 2 clients (symmetric), 4 requests, one quiz of one question, 2 prompts, remediations that name its concept once or twice, 1 kill | 5.88 M | `MasteryIsAttempted`, `ResultsAreAttempted`, `TableIsOfOneMoment`, `SerialPracticeIsExact` |
| `exams` | fair; 2 clients and the event loop, 4 requests, 2 exams of 2 questions, 4 prompts of which two are alike, 1 attempt, 2 tries, 1 kill | 609 k | `AsksNothingTwice`, `StoredExamsAreComplete`, `SessionsAreReadable`, `RecordedIsGraded`, `GradedStaysGraded`, `RequestsEnd` |
| `study` | 54 sections: ten built for one rule or limit each and one for each generator with all its phrases, every order of 4 terms | 8.2 k | `NothingAskedTwice`, `ConceptCapped`, `NoConceptForgotten`, `ThinIsMarkedOrShared`, `EveryFormulaAsked` |
| `quiz_questions` | 10 chunks of 2 materials in every workbook style, 10 requests, 2 rankings, 5 payloads, 4 scores, PyTorch required | 77 k | `SessionsAreWhole`, `NothingRepeated`, `SeenIsAsked`, `KeyIsTheAnswer`, `OnlyTheModelDelivers` |

Why the bounds are enough for these questions.

- *Packages.* Four versions let the worker, an export and a resumed job each open
  one after the first; two jobs let the second be prepared, queued or cancelled
  while the first is built. One mishap suffices for each single failure; two in a
  row are covered by the proofs, which do not depend on the number.
- *Quiz jobs.* One job is enqueued repeatedly by two clients and by restarts, so
  that two runs of it overlap in the queue; two questions separate the first
  from the last, two tries make a second run's rows differ from the first's.
  Larger instances of `quiz_liveness` (two jobs, one client, two kills: 62 k
  states; two jobs, two clients, no kills: 340 k) pass too.
- *Materials.* A second material is what a re-upload of deleted content needs
  while the first copy is still in somebody's hand, and what an upload for another
  module makes; one module and no module are the two ways to search. Two client requests beside
  the upload and the worker give every pair of stale copies of one record.
- *Practice.* Four requests are what it takes to have a remediation graded before
  the tables are refreshed: a wrong answer, the remediation, its grading, the
  refresh. Two prompts give a remediation two questions, so that a kill falls
  between answers, and a concept that is named twice is asked with new ones or with
  the same. Larger instances pass too, for three requests: two concepts, two quizzes
  that share one of them (3.59 M states), and one quiz of two concepts with
  remediations that name both (2.85 M).
- *Exams.* Two exams are needed for one to be compared with the other, two tries
  for the last to differ from the first, four requests for a generation, an import
  and two gradings to overlap. Two prompts that are alike but not equal tell the
  relation from equality.
- *Quiz questions.* Three questions make the stride of the retries different from
  one, and a chunk too poor for four different questions makes every try repeat.
  The chunks cover each branch of the fallback, and each is asked at the indexes
  of four tries. One request is enough: nothing but the stored sessions survives it.
- *Flashcards.* A deck is a function of its section and the order of the terms;
  the sections were chosen so that each limit is passed in one of them (too many
  cards, too few, shared links, equal texts, equal formula names, no valid
  concept), and every rule of every family applies at least once.

Fairness is that of the operating system's threads: whoever has something to do
goes on (weak fairness of the worker and of every request that has begun), and
nobody is obliged to begin a request. The quiz runner has a lock, which other
threads may take and give back for ever, so whoever waits for it needs strong
fairness: `ClearFuture` in the worker and `Enqueue(c)` in a request; CPython's lock
wakes one waiter each time it is released. The main thread that resumes quiz jobs
has weak fairness, as no request runs before it is done. The material runner's lock
needs weak fairness only: uploads and requests are finitely many, so from some time on
nobody takes it any more. Kills are never fair, and there are finitely many.

## 11. Disagreements

Two are shown by a run of their own.

- **A failed build can leave its job RUNNING** (`package_stuck_job`). With two
  submitters, a stale `prepare_build` makes an older version active again; a
  build of a completed version raises in `save_version`, and so does
  `mark_failed` in the except branch, before the step and the job are written.
  With one requester `JobsFinish` holds (`package_liveness`).
- **Submitting a quiz can block the runner for ever** (`quiz_lock`): a job that
  ends before `add_done_callback` was called runs the callback in the submitting
  thread, which holds the lock. The material runner has the same code
  (`B/services/material_job_runner.py:17-31`).

Others were met while modelling. Those with a name in brackets are stated as a
property in the module, where TLC finds a counterexample with the constants given;
they have no cfg here.

- A finished build can be drafted again (`CompletedVersionsImmutable`, one client,
  three jobs): the store checks and writes in two transactions. The artifact stays
  whole.
- A kill after the rename makes a version unbuildable
  (`JobsCompleteAfterRestart`, one job, one kill): the resumed job and every later
  build of that version find the directory and fail.
- Validating a published version can withdraw its download
  (`PublishedStaysDownloadable`, one client): the new report, from sources that
  changed since, replaces the one it was published with.
- Equal quiz requests at once create two jobs (`OneActiveJob`, two clients).
- A quiz resumed after a kill can show more questions than asked for
  (`ShowsAskedQuestions`, one kill), because rows of the first run stay. Its
  session file, from which it is graded, has one question for each ordinal.
- A deleted material comes back, a large file, one deletion: the upload is
  queued and answered, the worker's job reads the record, the material is deleted, and
  the job's next save makes its directory and its listed row again, although
  `backend/tests/integration/test_materials_api.py:98` wants it not found.
  `GoneStaysGone` says from when on this cannot happen.
- The flashcards of a section are not the same in every process although their
  identity is meant to be stable
  (`docs/superpowers/specs/2026-08-12-offline-flashcard-study-navigation-design.md:42`):
  `B/services/section_study_service.py:2128` lists a set of strings.
- A sentence that has a "not" of its own, or spells the title otherwise, is offered
  verbatim as a wrong option (`B/services/question_pipeline.py:2541`), and a question
  on a workbook fact offers the answers of other facts, even of the same subject
  (`:1354`), although `B/services/quiz_service.py:891` says "Exactly one option must be
  correct.". `KeyIsTheAnswer` therefore says only that the wrong options are not the
  answer, and not that they are wrong.
- A scope of materials whose documents are gone is a scope of nothing, and the
  quiz is then drawn from the whole course (`B/services/quiz_service.py:320-336`).
- The correct answer a model's payload names besides the key is not compared with
  the option the key marks.

## 12. Proofs

The seven proof modules of components follow one plan: an inductive invariant, a lemma that each
group of actions preserves it, and each result as a consequence. Every inductive
invariant was model-checked on the instance of its run before it was proved. Frame
lemmas say once what holds when an action leaves the tables, the jobs or the
other threads alone. The only assumptions are the named ones on constants
(actors are distinct, bounds are naturals, input sets are subsets of what the
code knows, "none" is no content, module or thread, a module has at most eight
concepts, the numbers of quizzes and exams are natural, sections are made of concepts
with distinct ids); TLC evaluates them in every run. The eighth module, `SelectionsProofs`,
has what they need of sequences.

**PackageBuildProofs**, for any number of clients, exports, versions, jobs,
kills and raised errors.

`Good` adds to `TypeOK` what each process may rely on at its position, because
the properties speak of rows and the rows are written from what processes carry:

- `NothingBeforePackage`: nothing exists before the package's row does;
- `Carried`: what a process carries (the version it will write, the job it runs)
  is what its position in the code says it is;
- `Owned`: between `move_artifact` and the end of a build the directory names the
  builder, and after `replace_files` so do the file rows. No one can take it
  away, because a rename onto an existing directory raises. This is why
  `CompleteVersion` may be sure that its version is built although another
  process works on the same version;
- `Ordered`: the active version and every version carried to a save have all
  earlier versions built. This is what makes stale copies harmless for
  `EarlierVersionsBuilt`: an old copy is of an older version, and built stays
  built;
- `Promised`: the version promised to a job is built when the worker reports the
  job complete. The worker decides anew which version it builds, but every
  version below the promised one is built already, so a rename that succeeds is
  of the promised version or a later one.

`Cancellations` is a second invariant, for what a step may never do. That a cancelled
job has status `cancelled` does not say why nobody writes its row again: the reason
is elsewhere, in the futures. `Futures` says that a cancelled job's future will not
run, `InHand` that a row is saved as cancelled only by a thread that has cancelled
that future, that a job is scheduled only by the thread that saved it, and that the
worker's job is the one whose future runs; `WorkItems` that the executor's queue has
a job once. A restart drops all futures and schedules what is queued or building in
the rows, so a cancelled job gets none.

| theorem | states |
|---|---|
| `Invariance` | `Spec => []Good` |
| `TypeCorrect` | `TypeOK` |
| `CompleteVersionsAreBuilt`, `CompletePackageIsBuilt` | a version, or the package, is marked complete only with its download whole |
| `NoVersionIsSkipped` | `EarlierVersionsBuilt` |
| `CompleteJobsAreBuilt` | a job reported complete has delivered its version |
| `BuildReleasesInOrder` | `Spec => Releases!Spec`: every step is a release or a stutter of the release history |
| `CancelledJobsAreFinal` | `CancelledIsFinal`: no step changes the row of a cancelled job or makes the worker run it |

**QuizJobsProofs**, for any number of clients, keys, jobs, questions, tries,
kills and raised calls.

`Good` is `TypeOK`, `Carried` (what threads hold), `Working` (position by
position what the worker has done: how many questions are made, that they are
among the results, that the session is what was made, that the event is
recorded) and two of the properties themselves. `ThreadsKept` covers every step
of a request thread, the main thread and a restart, as none of them touches what
the worker relies on; each worker action has a lemma of its own.

| theorem | states |
|---|---|
| `TypeCorrect` | `TypeOK` |
| `CompletedJobsAreDelivered` | a completed or partial job can be graded, also when it was run twice |
| `ProgressIsAlwaysFetchable` | progress never runs ahead of the rows |
| `EarlyCancellationIsFinal` | `CancelPreventsDelivery`, from an invariant of the job once it is doomed: the flag is set, it is not delivered, and the worker has it only at the steps before it would be delivered |
| `NoJobIsForgotten` | `NoJobForgotten`, when no call raises: a pending future means a queued job, a running row is the worker's, and at its return the row is final. With raised calls it is false: see the next section |

**QuizQuestionsProofs**, for any course, requests, rankings, answers of the model,
scores, wordings and any number of quizzes.

The properties of stored quizzes are not inductive: a quiz is stored long after its
questions were compared. `Good` says of the quiz in work what will be said of it:
question `i` is about hit `i` and has the id `i + try * n` with a try from 0 to 3
(`Placed`), the remembered signatures are those of the questions made
(`SeenIsAsked`), and the quiz already satisfies `NothingRepeated`,
`OnlyTheModelDelivers` and `KeyIsTheAnswer`. `Take` and `TakeLast` are one lemma (`DeliverKept`), `GiveUp`
and `SaveSession` share the end of the request (`EndKept`). Two facts carry the
weight: ids of different places never meet, because tries are moved by the length
of the quiz (`IdsDiffer`), and a candidate that is accepted for its combined score
cannot be below the gate (`NotRejected`, which needs that `Mark` is a natural
number: `MarkType`).

For `KeyIsTheAnswer` every way in which a question comes about is followed to its
key, because later steps (shortening, padding, the choice of distractors) rewrite
the options the key points into. A question taken over from its source keeps four
options and a key among them (`SourceOfFour`); one whose correct answer is put
among distractors has it at the place of the key (`InsertedFour`), and the
distractors are not it (`FactDistractorsWrong`, `DistractorsOffered`); the
assembled and the fallback question are the two cases of these (`AssembledKeyed`,
`FallbackKeyed`). `Selections` finds a selected element by its rank among the
places that pass, so that what is selected and in which order follows from
counting (`AtPlaces`, `AtDistinct`) and needs no induction over the list.

| theorem | states |
|---|---|
| `QuizzesAreWhole` | `SessionsAreWhole` |
| `OnlyDeliveredIsRemembered` | `SeenIsAsked` |
| `RepeatsAreLastTries` | `NothingRepeated` |
| `TheGateHolds` | `OnlyTheModelDelivers` |
| `KeysMarkTheAnswers` | `KeyIsTheAnswer` |

**MaterialIngestionProofs**, for any number of clients, contents, materials,
requests and kills.

Threads save copies of the record they read earlier, so hardly anything holds of a
record in itself. `Good` states debts instead (`InOrder`): a material nothing has
happened to is settled, parsed and studied, or somebody owes it that: a job of it
is queued, or a thread stands before the step that pays the debt. A thread
passes that step only by paying; whoever takes something away (a reprocess that
clears the files, a retry that saves PROCESSING) stands before the step himself; and a
job that is skipped because one is running leaves the debt with the running one, or
marks the material as dropped. A thread that has handed its material over and only
waits for the runner's lock owes nothing (`Serves`), so the debts are paid through a
hang too. `Registered`, `InTurn` and `Apart` carry the uniqueness of contents: materials
are registered in the order of their numbers, and a later one with the content of an
earlier one either is for another module, so that the search did not look at the
earlier, or one of them was deleted. That must be said of materials that are not
listed as well, because whoever holds a record may save it again; `Holds` says that
what a thread saves has the file, content and module, of the record it overwrites. For `GoneStaysGone` the step is taken apart: whoever could
save a record of a deleted material is already past its first read, and the
definition of `Gone` has nobody there.

| theorem | states |
|---|---|
| `TypeCorrect` | `TypeOK` |
| `ContentsAreListedOnce` | `ContentListedOnce`: with the cache on, once for a module, deletions aside |
| `UnsettledMaterialsAreInHand` | `UnsettledIsInHand` |
| `ReadyMaterialsAreStudied` | `ReadyIsStudied` |
| `DeletedMaterialsStayGone` | `GoneStaysGone`, the action property |

**PracticeProgressProofs**, for any number of threads, quizzes, requests, concepts named
and kills, and up to eight concepts, in two invariants.

`Safe` holds however requests overlap. A grading's copy of the mastery snapshot may
be stale, but the attempts only grow: what a thread has in memory is covered by the
attempts it read and those it inserted itself (`Covered`, `Inserted`), so whichever copy
is saved last counts no answer too many. `Loaded` says the same of a refresh: what it
loaded is a prefix of the attempts, and stays one. An attempt carries the course if and
only if its quiz was generated before (`Attempt`), so what the refresh selects by the
course is what `TableIsOfOneMoment` counts by the quiz.

`Exact` holds while the model's `serial` is true, that is as long as no request began
while another was at work and none was killed. `Solo` says that one thread is busy, and
`ExactWith` what this thread still owes: the snapshot is the aggregate of the attempts
without those it has inserted since it read the snapshot, the events are those of the
attempts but perhaps the last one, and so on position by position. With everybody idle
nothing is owed. `Remembered` is about a remediation between two of its concepts: what
it read of the history before the loop still holds every entry but those of its own
earlier concepts, whose questions are about their concepts and so in nobody else's
quiz; `Memories` that every quiz has its entry, and no two share a question. The
lemmas on counting (`TallyAppend` and those around it) say what
one more attempt adds to the aggregate and to the numbers.

| theorem | states |
|---|---|
| `TypeCorrect` | `TypeOK` |
| `SnapshotCountsAttempts` | `MasteryIsAttempted` |
| `ResultsHaveRows` | `ResultsAreAttempted` |
| `TablesAreOfOneMoment` | `TableIsOfOneMoment`: of one moment, and of no answer given in a remediation |
| `SerialPracticeLosesNothing` | `SerialPracticeIsExact`: every loss needs an overlap or a kill |

**MockExamsProofs**, for any number of threads, prompts, exams, completed attempts,
requests and kills.

A stored exam disappears while it is graded: its file is empty from the opening to
the writing, and the exam is in the hands of the thread that grades it. What is said
of stored exams only is therefore not inductive. `Comparisons` speaks of `Held(e)`,
the prompts of exam `e` in its file or in anybody's hands: they are one text
(`OneText`), the exams a generation was shown existed when it read their signatures
(`KnownThere`), a generation at work has all their prompts among those used
(`UsedUp`), and no prompt of one is taken for a prompt of another (`Apart`). Every step
but those of a generation can only make `Held` smaller. `Owned` says that an exam being
generated is nobody else's, `Writings` who has which file open, and `Gradings`
that only the thread that generated an exam has it without a grade.

| theorem | states |
|---|---|
| `TypeCorrect` | `TypeOK` |
| `OnlyCompleteExamsAreStored` | `StoredExamsAreComplete` |
| `NothingIsAskedTwice` | `AsksNothingTwice` |
| `SavedSessionsAreReadable` | `SessionsAreReadable` |
| `GradesAreNotLost` | `GradedStaysGraded` |
| `RecordsAreOfGradedExams` | `RecordedIsGraded` |

**StudyCardsProofs**, for any set of sections and any order of hashes.

Nothing is said of what the generators make of a text but what the limits rest on:
a generator applied to a concept makes a list of cards of this concept that ask for
no formula (`MadeFor`). It is shown of each generator, from the tables of
`CardFamilies` and `CardForms` up, and through the joined text of several concepts
(`AggregateMade`). Three lemmas carry the rest:

- `UniqueCards`: `_valid_unique_flashcards` keeps valid cards only, one per question,
  none invented, and drops no question while its limit is no smaller than the list.
  The best card of a question exists because scores are bounded (`BestOf`);
- `ConceptsCovered`: after `_ensure_key_concept_flashcard_coverage` at most 24
  questions are those of a concept's cards. A card found through a shared link is
  copied to every concept it belongs to, and the last deduplication chooses among the
  copies: what a concept ends with comes from its own list, which has at most 24,
  because the cards given to others carry the others' ids;
- `OutcomeDelivered`: an outcome ends with ten cards or with marks on all of them.

`IInv` puts them together. `OutcomesInTurn` says that no card of an outcome is
repaired before its turn, so an outcome's questions are those of one turn
(`OutcomesMarked`), and so are a concept's (`ConceptsLimited`). `Complete` says of the
deck, from the formulas on, that it asks nothing twice and asks all that was repaired.
`ThinIsMarkedOrShared` needs both: an outcome with ten repaired questions and less than
ten cards in the deck lacks a question, the deck asks it, so another outcome does.
The invariant speaks of questions, not of cards: which of the cards that ask one
question is kept changes with every step.

| theorem | states |
|---|---|
| `DecksGrowRight` | `IInv`, the invariant |
| `DecksAskNothingTwice` | `NothingAskedTwice` |
| `DecksAskEveryFormula` | `EveryFormulaAsked`, of the formulas whose card the checks on wording let pass |
| `DecksCapConcepts` | `ConceptCapped` |
| `DecksMarkThinOutcomes` | `ThinIsMarkedOrShared` |

Looking for these proofs showed two limits of the code, and the properties say so
since: the section's own top-up, which runs when a deck has less than ten cards, has
no limit per concept and decides nothing about marks, so `ConceptCapped` and
`ThinIsMarkedOrShared` are about the cards that come from the outcomes.

What a library's fold computes is an induction over the list, and the library's
induction theorems cannot be used. `SelectionsProofs` gets round it where it is
needed, for the concatenation of a list of lists (`ListFlatten`): the fold is
described by its partial results, and a least place at which they go wrong (`Least`)
is refuted.

## 13. What is only model-checked, and what is not modelled

Only model-checked:

- the liveness properties (`JobsFinish` of both runners, `RequestsAnswered`,
  `MaterialsSettle`, `RequestsEnd`), as the prover has no rules for fairness;
- `NoConceptForgotten` of `StudyCards`. It is not true of every section: an outcome's
  cards are cut to 24, one of each concept in turn, so of 25 concepts in one outcome
  the last may lose its only card, and the top-ups need not find anything in its
  text (TLC shows this with 25 concepts, and that it holds with the same last
  concept among 24). It holds on the sections of the run, with up to three concepts
  an outcome, where it tells the code's round robin from a list of blocks;
- that the violated properties are violated.

Where liveness stops: a call that raises after the loop of `_run_job` (saving the
session, the event or the final status), or in its except branch, leaves the job
running with nobody working on it until the server starts again. No test or
document promises more, so `quiz_liveness` has kills but no raised calls, and
`NoJobIsForgotten` assumes the same. In the package build a raised call in
the except branch does the same, and `package_liveness` has kills only. A
material whose processing was killed or raised stays PROCESSING:
`UnsettledIsInHand` and `MaterialsSettle` except it by its `fate`.

Hazards with no property: a kill between the save of a package and of its first
version (every later build of it fails); a cancelled package job whose row is not
saved; a temporary directory left by a killed assembly; a torn quiz session file,
which breaks the listing of a course's quizzes; a quiz event recorded twice after
a kill; the registry of language model clients closed at shutdown while jobs
still use it. Each is one missing step, visible in the code, and no document of
the repository says what should hold.

Not in PackageBuild: the content of pages, manifests and ZIPs, the validation
rules, temporary directories, generated supplements, the listing and download
routes (they only read) and several packages at once. Faults are raised before
a call has any effect, since each call is one transaction or one rename.

Not in QuizJobs: the deletion of a quiz (`B/api/routes/quiz.py:480-492`), attempt
rows and the error counter, which nothing modelled reads, what a question
says, and a session file torn by a kill in the middle of its write.

Not in MaterialIngestion: what a parser returns, the catalog's tables of sections,
chunks and assets beyond their being written, and files of other courses.

Not in PracticeProgress: how an answer is graded, study sessions, notifications.
Not in MockExams: how candidates are written and scored. In both, files of one
course only.

Not in QuizQuestions: ranking over embeddings, cleaning of text, scopes of
modules, and the wording of templates beyond what tells two texts apart; the index
is taken to hold chunks of stored documents, which `MaterialIngestion` is about.

Not in StudyCards: how concepts, phrases, sentences and formulas are found in the
text, and the wording of answers: which cards the checks on wording refuse is an input
(`unfit`), exercised by sections that have some.

An orderly shutdown is in no module: the package runner waits for its jobs; the
quiz runner does not, and what its job does while the language model clients
are being closed is to the model a call that raises, or a kill.

Not modelled at all: the document parsers and the extraction of concepts and
workbook parts (heuristics over free text with no state of their own, for which a
finite instance would say little), package content, the numeric models, the
LLM clients, courses, configuration, workflows, notifications and the dashboard
(single-row reads and writes), the agent layer (planned), the frontend and the
scripts. `PROJECT.json` has each with its files and the reason.
