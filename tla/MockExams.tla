------------------------------ MODULE MockExams ------------------------------
(***************************************************************************)
(* The mock exams of one course: ExamService, MockExamGenerationService,   *)
(* MockExamSourceService and the import of completed offline exams, over   *)
(* the session files and source banks of LocalExamStore and the table      *)
(* package_exam_attempts.                                                  *)
(*                                                                         *)
(* Generation and grading run in request threads; uploads of source exams  *)
(* and imports run on the event loop, one at a time.  A file is written in *)
(* place: it is empty from its opening to its writing, and somebody else   *)
(* may read it, or open it as well, in between.                            *)
(***************************************************************************)
EXTENDS Naturals, Sequences, FiniteSets

CONSTANTS
    Clients,    \* request threads
    Loop,       \* the event loop
    None,       \* no file, no grade, no exam
    Prompts,    \* question prompts, told apart by their signature
    Alike,      \* pairs of prompts the duplicate check takes for the same
    Answers,    \* what can be submitted for an exam; its grade is named after it
    Attempts,   \* completed offline exams, by attempt id
    Completed,  \* the exam each of them is of and its answers
    Size,       \* questions of the source exam
    MaxTries,   \* MAX_QUALITY_ATTEMPTS
    MaxExam,    \* bound: exams generated
    MaxRequest, \* bound: requests
    MaxKill     \* bound: times the server is killed

ASSUME ActorsAssumption == Loop \notin Clients

ASSUME ExamsAssumption ==
    /\ None \notin Prompts \cup Answers
    /\ Alike \subseteq Prompts \X Prompts
    /\ \A p \in Prompts : <<p, p>> \in Alike
    /\ Completed \in [Attempts -> [exam : 1..MaxExam, answers : Answers]]

ASSUME BoundsAssumption ==
    /\ {Size, MaxTries} \subseteq Nat \ {0}
    /\ {MaxExam, MaxRequest, MaxKill} \subseteq Nat

VARIABLES
    file,       \* the session file of each exam
    bank,       \* the source bank file of the course
    recorded,   \* grade of each recorded attempt
    proc,       \* what each thread is doing
    requests, kills,
    known,      \* exams whose prompts each source-generated exam was compared with, itself included
    shared,     \* exams whose file two threads had open at once
    graded      \* exams that were saved with a grade

ghosts == <<known, shared, graded>>
vars == <<file, bank, recorded, proc, requests, kills, ghosts>>

Exam == 1..MaxExam
Actors == Clients \cup {Loop}

Broken(state) == [state |-> state, prompts |-> <<>>, grade |-> None]
NoSession == Broken("none")
Empty == Broken("empty")
Garbled == Broken("garbled")
Ungraded(prompts) == [state |-> "session", prompts |-> prompts, grade |-> None]
Readable(f) == f.state = "session"

Free == [pc |-> "idle", op |-> "none", exam |-> 0, text |-> Ungraded(<<>>), tries |-> 0,
         used |-> {}, attempt |-> None, found |-> "none"]

Init ==
    /\ file = [e \in Exam |-> NoSession]
    /\ bank = "none"
    /\ recorded = [a \in Attempts |-> None]
    /\ proc = [a \in Actors |-> Free]
    /\ requests = 0
    /\ kills = 0
    /\ known = [e \in Exam |-> {}]
    /\ shared = {}
    /\ graded = {}

Start(a, p) ==
    /\ proc[a].pc = "idle"
    /\ requests < MaxRequest
    /\ requests' = requests + 1
    /\ proc' = [proc EXCEPT ![a] = p]

GoOn(a, pc) == proc' = [proc EXCEPT ![a].pc = pc]
Return(a) == proc' = [proc EXCEPT ![a] = Free]

-----------------------------------------------------------------------------
\* Source exams.

\* What comes out of the pages: nothing, an exam whose questions are numbered from 1
\* without gaps, or one with gaps.  Nothing is an error, gaps are only a warning.
SourceOutcomes == {"none", "numbered", "gapped"}

\* The bank file is opened, then written.
IngestSourceBank ==
    /\ bank = "none"
    /\ \E found \in SourceOutcomes :
           /\ found # "none"
           /\ Start(Loop, [Free EXCEPT !.pc = "bank", !.op = "upload", !.found = found])
    /\ bank' = "empty"
    /\ UNCHANGED <<file, recorded, kills, ghosts>>

WriteBank ==
    /\ proc[Loop].pc = "bank"
    /\ bank' = proc[Loop].found
    /\ Return(Loop)
    /\ UNCHANGED <<file, recorded, requests, kills, ghosts>>

-----------------------------------------------------------------------------
\* Generation.

Drawn == {proc[a].exam : a \in Actors}
Unused == {e \in Exam : file[e] = NoSession /\ e \notin Drawn}

\* The banks are listed; one that cannot be read, a missing source exam and gaps in its
\* numbering are errors.
GenerateFromSource(c) ==
    \E e \in Unused :
        /\ \A d \in Unused : e <= d
        /\ bank = "numbered"
        /\ Start(c, [Free EXCEPT !.pc = "signatures", !.op = "source", !.exam = e])
        /\ UNCHANGED <<file, bank, recorded, kills, ghosts>>

PromptsOf(e) == {file[e].prompts[i] : i \in 1..Len(file[e].prompts)}
Stored == {e \in Exam : Readable(file[e])}

\* list_generated_question_signatures loads every session: one that cannot be read
\* makes it raise.
ReadSignatures(c) ==
    /\ proc[c].pc = "signatures"
    /\ \/ /\ \A e \in Exam : file[e] \notin {Empty, Garbled}
          /\ proc' = [proc EXCEPT ![c].pc = "ask", ![c].used = UNION {PromptsOf(e) : e \in Stored}]
          /\ known' = [known EXCEPT ![proc[c].exam] = Stored \cup {proc[c].exam}]
       \/ /\ \E e \in Exam : file[e] \in {Empty, Garbled}
          /\ Return(c)
          /\ UNCHANGED known
    /\ UNCHANGED <<file, bank, recorded, requests, kills, shared, graded>>

IsNew(p, used) == \A u \in used : <<p, u>> \notin Alike /\ <<u, p>> \notin Alike

\* Mutant: after the last try the questions there are so far are saved.
RejectCandidateSaves(c) ==
    /\ proc[c].pc = "ask"
    /\ IF proc[c].tries + 1 = MaxTries
       THEN GoOn(c, "open")
       ELSE proc' = [proc EXCEPT ![c].tries = @ + 1]
    /\ UNCHANGED <<file, bank, recorded, requests, kills, ghosts>>

\* Mutant: after the last try the count starts over.
RejectCandidateAgain(c) ==
    /\ proc[c].pc = "ask"
    /\ proc' = [proc EXCEPT ![c].tries = (@ + 1) % MaxTries]
    /\ UNCHANGED <<file, bank, recorded, requests, kills, ghosts>>

\* A try that the model, the schema, the candidate check or the quality gate turns down;
\* after the last one the generation fails and nothing is saved.
RejectCandidate(c) ==
    /\ proc[c].pc = "ask"
    /\ IF proc[c].tries + 1 = MaxTries
       THEN Return(c)
       ELSE proc' = [proc EXCEPT ![c].tries = @ + 1]
    /\ UNCHANGED <<file, bank, recorded, requests, kills, ghosts>>

\* Mutant: the signature is not added to the used ones.
AcceptCandidateUnused(c) ==
    LET p == proc[c] IN
    /\ p.pc = "ask"
    /\ \E new \in Prompts :
           /\ IsNew(new, p.used)
           /\ proc' = [proc EXCEPT ![c].text.prompts = Append(@, new),
                                   ![c].tries = 0,
                                   ![c].pc = IF Len(p.text.prompts) + 1 < Size THEN "ask"
                                             ELSE "open"]
    /\ UNCHANGED <<file, bank, recorded, requests, kills, ghosts>>

AcceptCandidate(c) ==
    LET p == proc[c] IN
    /\ p.pc = "ask"
    /\ \E new \in Prompts :
           /\ IsNew(new, p.used)
           /\ proc' = [proc EXCEPT ![c].text.prompts = Append(@, new),
                                   ![c].used = @ \cup {new},
                                   ![c].tries = 0,
                                   ![c].pc = IF Len(p.text.prompts) + 1 < Size THEN "ask"
                                             ELSE "open"]
    /\ UNCHANGED <<file, bank, recorded, requests, kills, ghosts>>

\* No excerpt to ground a question in, or no quality model: the generation fails.
GiveUp(c) ==
    /\ proc[c].pc = "ask"
    /\ Return(c)
    /\ UNCHANGED <<file, bank, recorded, requests, kills, ghosts>>

\* A blueprint's questions are built from the chunks found for each topic, or replaced by
\* a fallback when they fail the quality gate; nothing compares their prompts.
BlueprintPrompts == [1..Size -> Prompts]

\* No source, no hits or an incomplete key is an error before anything is saved.
GenerateFromBlueprint(c) ==
    \E e \in Unused : \E prompts \in BlueprintPrompts :
        /\ \A d \in Unused : e <= d
        /\ Start(c, [Free EXCEPT !.pc = "open", !.op = "blueprint", !.exam = e,
                                 !.text = Ungraded(prompts)])
        /\ known' = [known EXCEPT ![e] = {}]
        /\ UNCHANGED <<file, bank, recorded, kills, shared, graded>>

-----------------------------------------------------------------------------
\* save_exam_session.

\* Mutant: the file is opened without being emptied.
OpenSessionKeep(a) ==
    LET e == proc[a].exam IN
    /\ proc[a].pc = "open"
    /\ shared' = IF \E b \in Actors \ {a} : proc[b].pc = "write" /\ proc[b].exam = e
                 THEN shared \cup {e} ELSE shared
    /\ GoOn(a, "write")
    /\ UNCHANGED <<file, bank, recorded, requests, kills, known, graded>>

OpenSession(a) ==
    LET e == proc[a].exam IN
    /\ proc[a].pc = "open"
    /\ file' = [file EXCEPT ![e] = Empty]
    /\ shared' = IF \E b \in Actors \ {a} : proc[b].pc = "write" /\ proc[b].exam = e
                 THEN shared \cup {e} ELSE shared
    /\ GoOn(a, "write")
    /\ UNCHANGED <<bank, recorded, requests, kills, known, graded>>

\* Over what somebody else has written since the file was opened, a text that is
\* shorter leaves the end of theirs.
WriteSession(a) ==
    LET e == proc[a].exam IN
    /\ proc[a].pc = "write"
    /\ \E text \in {proc[a].text} \cup (IF file[e] = Empty THEN {} ELSE {Garbled}) :
           file' = [file EXCEPT ![e] = text]
    /\ graded' = IF proc[a].text.grade = None THEN graded ELSE graded \cup {e}
    /\ IF proc[a].op = "import" THEN GoOn(a, "record") ELSE Return(a)
    /\ UNCHANGED <<bank, recorded, requests, kills, known, shared>>

-----------------------------------------------------------------------------
\* Grading: the session is read, and saved again with the grade.

\* A file that cannot be read makes the request fail, as one that is not there.
ReadForGrading(e, answers) ==
    [file[e] EXCEPT !.grade = answers]

\* Mutant: the session is saved without the grade.
GradeUngraded(c, e, answers) ==
    /\ Readable(file[e])
    /\ Start(c, [Free EXCEPT !.pc = "open", !.op = "grade", !.exam = e,
                             !.text = Ungraded(file[e].prompts)])
    /\ UNCHANGED <<file, bank, recorded, kills, ghosts>>

Grade(c, e, answers) ==
    /\ Readable(file[e])
    /\ Start(c, [Free EXCEPT !.pc = "open", !.op = "grade", !.exam = e,
                             !.text = ReadForGrading(e, answers)])
    /\ UNCHANGED <<file, bank, recorded, kills, ghosts>>

\* An attempt that is recorded is answered with its record.
Import(attempt) ==
    /\ recorded[attempt] = None
    /\ Start(Loop, [Free EXCEPT !.pc = "canonical", !.op = "import", !.attempt = attempt,
                                !.exam = Completed[attempt].exam])
    /\ UNCHANGED <<file, bank, recorded, kills, ghosts>>

\* The attempt's package, version, file and exam are compared with the canonical ones,
\* and the session is read; a difference is an error.
CheckCanonical ==
    /\ proc[Loop].pc = "canonical"
    /\ \/ Readable(file[proc[Loop].exam]) /\ GoOn(Loop, "grade")
       \/ Return(Loop)
    /\ UNCHANGED <<file, bank, recorded, requests, kills, ghosts>>

\* Mutant: the answers of an import are graded, the session is not saved.
GradeImportUnsaved ==
    LET p == proc[Loop] IN
    /\ p.pc = "grade"
    /\ IF Readable(file[p.exam])
       THEN proc' = [proc EXCEPT ![Loop].pc = "record",
                        ![Loop].text = ReadForGrading(p.exam, Completed[p.attempt].answers)]
       ELSE Return(Loop)
    /\ UNCHANGED <<file, bank, recorded, requests, kills, ghosts>>

\* grade_exam reads the session a second time.
GradeImport ==
    LET p == proc[Loop] IN
    /\ p.pc = "grade"
    /\ IF Readable(file[p.exam])
       THEN proc' = [proc EXCEPT ![Loop].pc = "open",
                        ![Loop].text = ReadForGrading(p.exam, Completed[p.attempt].answers)]
       ELSE Return(Loop)
    /\ UNCHANGED <<file, bank, recorded, requests, kills, ghosts>>

\* INSERT OR IGNORE: the attempt that is recorded first stays.
SaveExamAttempt ==
    LET p == proc[Loop] IN
    /\ p.pc = "record"
    /\ recorded' = [recorded EXCEPT ![p.attempt] = IF @ = None THEN p.text.grade ELSE @]
    /\ Return(Loop)
    /\ UNCHANGED <<file, bank, requests, kills, ghosts>>

-----------------------------------------------------------------------------
Kill ==
    /\ kills < MaxKill
    /\ \E a \in Actors : proc[a].pc # "idle"
    /\ kills' = kills + 1
    /\ proc' = [a \in Actors |-> Free]
    /\ UNCHANGED <<file, bank, recorded, requests, ghosts>>

Request(c) ==
    \/ GenerateFromSource(c) \/ GenerateFromBlueprint(c)
    \/ \E e \in Exam, answers \in Answers : Grade(c, e, answers)

Step(a) ==
    \/ ReadSignatures(a) \/ RejectCandidate(a) \/ AcceptCandidate(a) \/ GiveUp(a)
    \/ OpenSession(a) \/ WriteSession(a)

LoopStep == WriteBank \/ CheckCanonical \/ GradeImport \/ SaveExamAttempt \/ Step(Loop)

Next ==
    \/ IngestSourceBank \/ LoopStep
    \/ \E attempt \in Attempts : Import(attempt)
    \/ \E c \in Clients : Request(c) \/ Step(c)
    \/ Kill

Spec == Init /\ [][Next]_vars

\* Threads and the event loop keep running.
FairSpec == Spec /\ WF_vars(LoopStep) /\ \A c \in Clients : WF_vars(Step(c))

-----------------------------------------------------------------------------
\* A source-generated exam asks nothing twice, and nothing like what was asked by the
\* exams stored when its generation read their signatures.
AsksNothingTwice ==
    \A e \in Stored : \A f \in known[e] \cap Stored :
        \A i \in 1..Len(file[e].prompts), j \in 1..Len(file[f].prompts) :
            e # f \/ i # j => IsNew(file[e].prompts[i], {file[f].prompts[j]})

\* A generation that fails, whatever its step, leaves no exam: a stored one has as many
\* questions as its source, or its blueprint, asked for.
StoredExamsAreComplete == \A e \in Stored : Len(file[e].prompts) = Size

Quiet(e) == \A a \in Actors : proc[a].exam = e => proc[a].pc # "write"

\* A session that was saved can be read when nobody is writing it, unless the server
\* was killed or two threads had its file open at once.
SessionsAreReadable ==
    \A e \in Exam :
        file[e] \in {Empty, Garbled} /\ Quiet(e) => kills > 0 \/ e \in shared

\* An exam that was graded does not lose its grade to a thread that read it before.
GradedStaysGraded == \A e \in graded \cap Stored : file[e].grade # None

\* A recorded attempt has the grade of its own answers, and its exam shows a grade,
\* whatever gradings of the exam on the site ran beside the import.
RecordedIsGraded ==
    \A a \in Attempts :
        recorded[a] # None =>
            /\ recorded[a] = Completed[a].answers
            /\ Readable(file[Completed[a].exam]) => file[Completed[a].exam].grade # None

\* Every request is answered: tries are counted and files are read or refused.
RequestsEnd == \A a \in Actors : proc[a].pc # "idle" ~> proc[a].pc = "idle"
=============================================================================
