--------------------------- MODULE MockExamsProofs ---------------------------
(***************************************************************************)
(* Proofs about MockExams, for every number of threads, prompts, exams,    *)
(* completed attempts, requests and kills.                                 *)
(*                                                                         *)
(* The properties speak of what is stored, and a stored exam disappears    *)
(* while it is graded: its file is empty from the opening to the writing.  *)
(* The invariant therefore speaks of Held(e), the prompt sequences of exam *)
(* e that are in its file or in the hands of a thread.  Every step but     *)
(* those of a generation can only make Held smaller, which keeps whatever  *)
(* is said of all held sequences.                                          *)
(***************************************************************************)
EXTENDS MockExams, TLAPS

Pc == {"idle", "bank", "signatures", "ask", "open", "write", "canonical", "grade", "record"}
Op == {"none", "upload", "source", "blueprint", "grade", "import"}

Text == [state : {"session"}, prompts : Seq(Prompts), grade : Answers \cup {None}]
File == Text \cup {NoSession, Empty, Garbled}

Thread == [pc : Pc, op : Op, exam : Nat, text : Text, tries : Nat, used : SUBSET Prompts,
           attempt : Attempts \cup {None}, found : SourceOutcomes]

TypeOK ==
    /\ file \in [Exam -> File]
    /\ bank \in SourceOutcomes \cup {"empty"}
    /\ recorded \in [Attempts -> Answers \cup {None}]
    /\ proc \in [Actors -> Thread]
    /\ requests \in 0..MaxRequest
    /\ kills \in 0..MaxKill
    /\ known \in [Exam -> SUBSET Exam]
    /\ shared \in SUBSET Exam
    /\ graded \in SUBSET Exam

\* A thread that makes a new exam.
Generates(p) == p.op \in {"source", "blueprint"}

\* A thread that is about to save an exam.
Saves(p) == p.pc \in {"open", "write"}

\* A thread whose text counts.
Holds(p) == p.pc = "ask" \/ Saves(p)

\* What a thread carries at each position of its request: the text that is saved is
\* complete, and has a grade exactly when it is saved for one.
WellPlaced(p) ==
    /\ p.op \in {"none", "upload"} => p.pc \in {"idle", "bank"} /\ p.exam = 0
    /\ p.op \notin {"none", "upload"} => p.exam \in Exam
    /\ p.op = "source" => p.pc \in {"signatures", "ask"} \/ Saves(p)
    /\ p.op \in {"blueprint", "grade"} => Saves(p)
    /\ p.op = "import" =>
           /\ p.pc \in {"canonical", "grade", "record"} \/ Saves(p)
           /\ p.attempt \in Attempts
           /\ p.exam = Completed[p.attempt].exam
    /\ p.pc = "signatures" => p.text = Ungraded(<<>>)
    /\ p.pc = "ask" => Len(p.text.prompts) < Size
    /\ Saves(p) => Len(p.text.prompts) = Size
    /\ Generates(p) => p.text.grade = None
    /\ p.op = "grade" => p.text.grade # None
    /\ p.op = "import" /\ p.pc \notin {"canonical", "grade"} =>
           p.text.grade = Completed[p.attempt].answers

Placed == \A a \in Actors : WellPlaced(proc[a])

\* The exam of a generation is its own: it was not stored before, and nobody who could
\* write it has it.
Owned ==
    \A a \in Actors : Generates(proc[a]) =>
        /\ file[proc[a].exam] = IF proc[a].pc = "write" THEN Empty ELSE NoSession
        /\ proc[a].exam \notin graded
        /\ \A b \in Actors \ {a} :
               proc[b].exam = proc[a].exam => proc[b].pc \in {"canonical", "grade"}

\* An attempt that is recorded, or about to be, is of a graded exam.
Gradings ==
    /\ \A e \in graded : file[e] # NoSession
    /\ \A e \in graded : Readable(file[e]) => file[e].grade # None
    /\ \A t \in Attempts : recorded[t] # None =>
           recorded[t] = Completed[t].answers /\ Completed[t].exam \in graded
    /\ \A a \in Actors : proc[a].pc = "record" => proc[a].exam \in graded

WritingOn(a, e) == proc[a].pc = "write" /\ proc[a].exam = e

\* Until two threads have it open, a file that is being written is empty; an empty one
\* is being written, unless its writer was killed.
Writings ==
    /\ \A a \in Actors : \A e \in Exam \ shared :
           WritingOn(a, e) =>
               file[e] = Empty /\ \A b \in Actors \ {a} : ~WritingOn(b, e)
    /\ \A e \in Exam : file[e] = Garbled => e \in shared
    /\ \A e \in Exam : file[e] = Empty => kills > 0 \/ \E a \in Actors : WritingOn(a, e)

\* The prompts of an exam, wherever they are.
Holding(a, e) == Holds(proc[a]) /\ proc[a].exam = e
Held(e) ==
    {file[f].prompts : f \in {e} \cap Stored}
    \cup {proc[a].text.prompts : a \in {b \in Actors : Holding(b, e)}}

\* The copies of an exam agree.
OneText == \A e \in Exam : \A s \in Held(e), t \in Held(e) : s = t

\* The exams an exam was compared with are not generated a second time.
KnownThere ==
    \A e \in Exam : \A f \in known[e] \ {e} :
        /\ file[f] # NoSession
        /\ \A a \in Actors : Generates(proc[a]) => proc[a].exam # f

\* A generation looks out for every prompt of the exams it was told about.
UsedUp ==
    \A a \in Actors : proc[a].pc = "ask" =>
        \A f \in known[proc[a].exam] : \A s \in Held(f) :
            \A i \in 1..Len(s) : s[i] \in proc[a].used

Differ(s, t, same) ==
    \A i \in 1..Len(s), j \in 1..Len(t) : ~same \/ i # j => IsNew(s[i], {t[j]})

Apart ==
    \A e \in Exam : \A f \in known[e] :
        \A s \in Held(e), t \in Held(f) : Differ(s, t, e = f)

Comparisons == OneText /\ KnownThere /\ UsedUp /\ Apart

Good ==
    /\ TypeOK
    /\ Placed
    /\ Owned
    /\ StoredExamsAreComplete
    /\ Gradings
    /\ Writings
    /\ Comparisons

-----------------------------------------------------------------------------
\* Files and texts.

LEMMA FileStates ==
    /\ ~Readable(NoSession) /\ ~Readable(Empty) /\ ~Readable(Garbled)
    /\ NoSession # Empty /\ NoSession # Garbled /\ Empty # Garbled
    /\ \A f \in File : Readable(f) <=> f \in Text
BY DEF Readable, NoSession, Empty, Garbled, Broken, File, Text

LEMMA FreeType ==
    /\ Free \in Thread
    /\ Free.pc = "idle" /\ Free.op = "none" /\ Free.exam = 0
    /\ WellPlaced(Free)
<1>1. Ungraded(<<>>) \in Text
  BY DEF Ungraded, Text
<1>2. Free \in Thread /\ Free.pc = "idle" /\ Free.op = "none" /\ Free.exam = 0
  BY <1>1 DEF Free, Thread, Pc, Op, SourceOutcomes
<1> QED
  BY <1>2 DEF WellPlaced, Saves, Generates

\* What is held of an exam.
LEMMA HeldMember ==
    ASSUME NEW e \in Exam
    PROVE  \A s : s \in Held(e) <=>
               \/ Readable(file[e]) /\ s = file[e].prompts
               \/ \E a \in Actors : Holding(a, e) /\ s = proc[a].text.prompts
BY DEF Held, Stored

LEMMA HeldMemberNext ==
    ASSUME NEW e \in Exam
    PROVE  \A s : s \in Held(e)' <=>
               \/ Readable(file'[e]) /\ s = file'[e].prompts
               \/ \E a \in Actors : Holding(a, e)' /\ s = proc'[a].text.prompts
BY DEF Held, Stored

-----------------------------------------------------------------------------
\* Steps that bring up no new prompts.

\* Nothing more is held of any exam, and what a generation compares with stays.
NothingNew ==
    /\ UNCHANGED known
    /\ \A e \in Exam : Held(e)' \subseteq Held(e)
    /\ \A e \in Exam : file'[e] = NoSession => file[e] = NoSession
    /\ \A a \in Actors : proc'[a].pc = "ask" =>
           /\ proc[a].pc = "ask"
           /\ proc'[a].exam = proc[a].exam
           /\ proc'[a].used = proc[a].used
    /\ \A a \in Actors : Generates(proc'[a]) =>
           \/ Generates(proc[a]) /\ proc'[a].exam = proc[a].exam
           \/ file[proc'[a].exam] = NoSession

LEMMA NothingNewKept ==
    ASSUME Good, NothingNew, Placed' PROVE Comparisons'
<1>1. known \in [Exam -> SUBSET Exam]
  BY DEF Good, TypeOK
<1>2. OneText'
  BY DEF NothingNew, Good, Comparisons, OneText
<1>3. KnownThere'
  BY <1>1 DEF NothingNew, Good, Comparisons, KnownThere
<1>4. UsedUp'
  <2> SUFFICES ASSUME NEW a \in Actors, proc'[a].pc = "ask",
                      NEW f \in known[proc[a].exam], NEW s \in Held(f)',
                      NEW i \in 1..Len(s)
               PROVE  s[i] \in proc[a].used
    BY DEF UsedUp, NothingNew
  <2>1. proc[a].pc = "ask"
    BY DEF NothingNew
  <2>2. proc[a].exam \in Exam
    BY <2>1 DEF Good, Placed, WellPlaced
  <2>3. s \in Held(f)
    BY <1>1, <2>2 DEF NothingNew
  <2> QED
    BY <2>1, <2>3 DEF Good, Comparisons, UsedUp
<1>5. Apart'
  BY <1>1 DEF NothingNew, Good, Comparisons, Apart
<1> QED
  BY <1>2, <1>3, <1>4, <1>5 DEF Comparisons

-----------------------------------------------------------------------------
\* Steps that leave the files alone: a thread goes on with what it carries, or its
\* request is over, begins, or has nothing to save yet.

Keeps(a) ==
    /\ proc'[a].pc = proc[a].pc
    /\ proc'[a].op = proc[a].op
    /\ proc'[a].exam = proc[a].exam
    /\ proc'[a].text = proc[a].text
    /\ proc'[a].used = proc[a].used

Aside(a) ==
    /\ ~Holds(proc'[a]) /\ ~Generates(proc'[a]) /\ proc'[a].pc # "record"
    /\ proc'[a].exam # 0 => proc'[a].pc \in {"canonical", "grade"}
    /\ proc[a].pc = "write" => kills' > 0

LEMMA AsideKept ==
    ASSUME Good, TypeOK', Placed', kills' >= kills,
           UNCHANGED <<file, known, shared, graded>>,
           \A a \in Actors : Keeps(a) \/ Aside(a),
           \A t \in Attempts : recorded'[t] # None =>
               recorded'[t] = Completed[t].answers /\ Completed[t].exam \in graded
    PROVE  Good'
<1>1. \A a \in Actors, e \in Exam : Holding(a, e)' => Holding(a, e) /\ Keeps(a)
  BY DEF Aside, Keeps, Holding, Holds, Saves
<1>2. \A e \in Exam : Held(e)' \subseteq Held(e)
  BY <1>1, HeldMember, HeldMemberNext DEF Keeps
<1>3. NothingNew
  BY <1>2 DEF NothingNew, Keeps, Aside, Generates, Holds
<1>4. Owned'
  <2> SUFFICES ASSUME NEW a \in Actors, Generates(proc'[a])
               PROVE  /\ file[proc'[a].exam] = IF proc'[a].pc = "write" THEN Empty ELSE NoSession
                      /\ proc'[a].exam \notin graded
                      /\ \A b \in Actors \ {a} : proc'[b].exam = proc'[a].exam =>
                             proc'[b].pc \in {"canonical", "grade"}
    BY DEF Owned
  <2>1. Keeps(a) /\ Generates(proc[a])
    BY DEF Keeps, Aside, Generates
  <2>2. proc'[a].exam # 0
    BY <2>1 DEF Placed, WellPlaced, Generates, Exam
  <2> QED
    BY <2>1, <2>2 DEF Keeps, Aside, Good, Owned
<1>5. StoredExamsAreComplete'
  BY DEF Good, StoredExamsAreComplete, Stored
<1>6. Gradings'
  BY DEF Good, Gradings, Keeps, Aside
<1>7. Writings'
  <2>1. \A a \in Actors, e \in Exam : WritingOn(a, e)' => WritingOn(a, e)
    BY DEF Keeps, Aside, Holds, Saves, WritingOn
  <2>2. \A a \in Actors, e \in Exam : WritingOn(a, e) => WritingOn(a, e)' \/ kills' > 0
    BY DEF Keeps, Aside, WritingOn
  <2>3. kills > 0 => kills' > 0
    BY DEF TypeOK, Good
  <2> QED
    BY <2>1, <2>2, <2>3 DEF Good, Writings
<1> QED
  BY <1>3, <1>4, <1>5, <1>6, <1>7, NothingNewKept DEF Good

LEMMA RecordedStays ==
    ASSUME Good, UNCHANGED recorded
    PROVE  \A t \in Attempts : recorded'[t] # None =>
               recorded'[t] = Completed[t].answers /\ Completed[t].exam \in graded
BY DEF Good, Gradings

\* A step of one thread.
Moves(a, p) ==
    /\ proc' \in [Actors -> Thread]
    /\ p \in Thread
    /\ proc'[a] = p
    /\ \A b \in Actors \ {a} : proc'[b] = proc[b]

LEMMA MovesPlaced ==
    ASSUME Good, NEW a \in Actors, NEW p, Moves(a, p), WellPlaced(p) PROVE Placed'
BY DEF Good, Placed, Moves

LEMMA OneAside ==
    ASSUME Good, NEW a \in Actors, NEW p, Moves(a, p), WellPlaced(p),
           ~Holds(p), ~Generates(p), p.pc # "record",
           p.exam # 0 => p.pc \in {"canonical", "grade"}, proc[a].pc # "write"
    PROVE  /\ Placed'
           /\ \A b \in Actors : Keeps(b) \/ Aside(b)
<1>1. Aside(a)
  BY DEF Moves, Aside
<1>2. \A b \in Actors \ {a} : Keeps(b)
  BY DEF Moves, Keeps
<1> QED
  BY <1>1, <1>2, MovesPlaced

LEMMA ReturnMoves ==
    ASSUME Good, NEW a \in Actors, Return(a) PROVE Moves(a, Free)
BY FreeType DEF Return, Moves, Good, TypeOK

\* A request that ends with nothing to write.
LEMMA ReturnKept ==
    ASSUME Good, NEW a \in Actors, Return(a), proc[a].pc # "write",
           UNCHANGED <<file, requests, kills, known, shared, graded>>,
           bank' \in SourceOutcomes \cup {"empty"},
           recorded' \in [Attempts -> Answers \cup {None}],
           \A t \in Attempts : recorded'[t] # None =>
               recorded'[t] = Completed[t].answers /\ Completed[t].exam \in graded
    PROVE  Good'
<1>1. Moves(a, Free)
  BY ReturnMoves
<1>2. Placed' /\ \A b \in Actors : Keeps(b) \/ Aside(b)
  BY <1>1, OneAside, FreeType DEF Holds, Saves, Generates
<1>3. TypeOK' /\ kills' >= kills
  BY <1>1 DEF Moves, Good, TypeOK
<1> QED
  BY <1>2, <1>3, AsideKept

LEMMA StartMoves ==
    ASSUME Good, NEW a \in Actors, NEW p \in Thread, Start(a, p)
    PROVE  /\ Moves(a, p)
           /\ requests' \in 0..MaxRequest
           /\ proc[a].pc = "idle"
BY BoundsAssumption DEF Start, Moves, Good, TypeOK

LEMMA GoOnMoves ==
    ASSUME Good, NEW a \in Actors, NEW pc \in Pc, GoOn(a, pc)
    PROVE  /\ Moves(a, [proc[a] EXCEPT !.pc = pc])
           /\ \A q : q = [proc[a] EXCEPT !.pc = pc] =>
                  /\ q.pc = pc /\ q.op = proc[a].op /\ q.exam = proc[a].exam
                  /\ q.text = proc[a].text /\ q.used = proc[a].used
                  /\ q.attempt = proc[a].attempt
BY DEF GoOn, Moves, Good, TypeOK, Thread

\* A step that writes nothing, over the files as they are.
LEMMA MoveKept ==
    ASSUME Good, NEW a \in Actors, NEW p, Moves(a, p), WellPlaced(p),
           UNCHANGED <<file, bank, recorded, kills, shared, graded>>,
           requests' \in 0..MaxRequest, known' \in [Exam -> SUBSET Exam],
           proc[a].pc # "write", p.pc \notin {"write", "record"},
           Generates(p) =>
               /\ file[p.exam] = NoSession
               /\ \A b \in Actors \ {a} :
                      proc[b].exam = p.exam => proc[b].pc \in {"canonical", "grade"},
           \A b \in Actors \ {a} : Generates(proc[b]) /\ proc[b].exam = p.exam =>
               p.pc \in {"canonical", "grade"},
           Comparisons'
    PROVE  Good'
<1>1. Placed'
  BY MovesPlaced
<1>2. TypeOK'
  BY DEF Moves, Good, TypeOK
<1>3. Owned'
  <2> SUFFICES ASSUME NEW b \in Actors, Generates(proc'[b])
               PROVE  /\ file[proc'[b].exam] = IF proc'[b].pc = "write" THEN Empty ELSE NoSession
                      /\ proc'[b].exam \notin graded
                      /\ \A d \in Actors \ {b} : proc'[d].exam = proc'[b].exam =>
                             proc'[d].pc \in {"canonical", "grade"}
    BY DEF Owned
  <2>1. CASE b = a
    BY <2>1 DEF Moves, Good, Gradings
  <2>2. CASE b # a
    BY <2>2 DEF Moves, Good, Owned
  <2> QED
    BY <2>1, <2>2
<1>4. StoredExamsAreComplete'
  BY DEF Good, StoredExamsAreComplete, Stored
<1>5. Gradings'
  BY DEF Moves, Good, Gradings
<1>6. Writings'
  <2>1. \A b \in Actors, e \in Exam : WritingOn(b, e)' <=> WritingOn(b, e)
    BY DEF Moves, WritingOn
  <2> QED
    BY <2>1 DEF Good, Writings
<1> QED
  BY <1>1, <1>2, <1>3, <1>4, <1>5, <1>6 DEF Good

\* What such a step leaves held.
LEMMA HeldMoves ==
    ASSUME Good, NEW a \in Actors, NEW p, Moves(a, p), UNCHANGED file, NEW e \in Exam
    PROVE  /\ \A s \in Held(e)' : s \in Held(e) \/ (Holds(p) /\ p.exam = e /\ s = p.text.prompts)
           /\ Holds(p) /\ p.exam = e => p.text.prompts \in Held(e)'
<1>1. \A b \in Actors \ {a} : Holding(b, e)' <=> Holding(b, e)
  BY DEF Moves, Holding, Holds, Saves
<1>2. Holding(a, e)' <=> Holds(p) /\ p.exam = e
  BY DEF Moves, Holding, Holds, Saves
<1>3. \A b \in Actors \ {a} : proc'[b].text = proc[b].text
  BY DEF Moves
<1>4. proc'[a].text = p.text
  BY DEF Moves
<1> QED
  BY <1>1, <1>2, <1>3, <1>4, HeldMember, HeldMemberNext

\* A step that writes nothing and has no prompts to save but those that are stored.
LEMMA HeldKept ==
    ASSUME Good, NEW a \in Actors, NEW p, Moves(a, p), WellPlaced(p),
           UNCHANGED <<file, known>>, p.pc # "ask",
           Holds(p) => p.text.prompts \in Held(p.exam),
           Generates(p) => file[p.exam] = NoSession
    PROVE  Comparisons'
<1>1. \A e \in Exam : Held(e)' \subseteq Held(e)
  BY HeldMoves
<1>2. NothingNew
  BY <1>1 DEF NothingNew, Moves
<1> QED
  BY <1>2, MovesPlaced, NothingNewKept

-----------------------------------------------------------------------------
\* Source exams and the steps around grading.

LEMMA IngestSourceBankGood == ASSUME Good, IngestSourceBank PROVE Good'
<1>1. PICK found \in SourceOutcomes :
          Start(Loop, [Free EXCEPT !.pc = "bank", !.op = "upload", !.found = found])
  BY DEF IngestSourceBank
<1> DEFINE p == [Free EXCEPT !.pc = "bank", !.op = "upload", !.found = found]
<1>2. p \in Thread /\ p.pc = "bank" /\ p.op = "upload" /\ p.exam = 0
  BY FreeType DEF Thread, Pc, Op
<1>3. Start(Loop, p) /\ Loop \in Actors
  BY <1>1 DEF Actors
<1> HIDE DEF p
<1>4. Moves(Loop, p) /\ requests' \in 0..MaxRequest /\ proc[Loop].pc = "idle"
  BY <1>2, <1>3, StartMoves
<1>5. WellPlaced(p) /\ ~Holds(p) /\ ~Generates(p)
  BY <1>2 DEF WellPlaced, Holds, Saves, Generates
<1>6. Placed' /\ \A b \in Actors : Keeps(b) \/ Aside(b)
  BY <1>2, <1>3, <1>4, <1>5, OneAside
<1>7. TypeOK' /\ kills' >= kills
  BY <1>4 DEF IngestSourceBank, ghosts, Moves, Good, TypeOK
<1> QED
  BY <1>6, <1>7, AsideKept, RecordedStays DEF IngestSourceBank, ghosts

LEMMA WriteBankGood == ASSUME Good, WriteBank PROVE Good'
<1>1. Loop \in Actors
  BY DEF Actors
<1>2. bank' \in SourceOutcomes
  BY <1>1 DEF WriteBank, Good, TypeOK, Thread
<1> QED
  BY <1>1, <1>2, ReturnKept, RecordedStays DEF WriteBank, ghosts, Good, TypeOK

LEMMA ImportGood == ASSUME Good, NEW attempt \in Attempts, Import(attempt) PROVE Good'
<1> DEFINE p == [Free EXCEPT !.pc = "canonical", !.op = "import", !.attempt = attempt,
                             !.exam = Completed[attempt].exam]
<1>1. Completed[attempt].exam \in Exam /\ Exam \subseteq Nat
  BY ExamsAssumption DEF Exam
<1>2. /\ p \in Thread /\ p.pc = "canonical" /\ p.op = "import" /\ p.attempt = attempt
      /\ p.exam = Completed[attempt].exam
  BY <1>1, FreeType DEF Thread, Pc, Op
<1>3. Start(Loop, p) /\ Loop \in Actors
  BY DEF Import, Actors
<1> HIDE DEF p
<1>4. Moves(Loop, p) /\ requests' \in 0..MaxRequest /\ proc[Loop].pc = "idle"
  BY <1>2, <1>3, StartMoves
<1>5. WellPlaced(p) /\ ~Holds(p) /\ ~Generates(p)
  BY <1>1, <1>2 DEF WellPlaced, Holds, Saves, Generates
<1>6. Placed' /\ \A b \in Actors : Keeps(b) \/ Aside(b)
  BY <1>2, <1>3, <1>4, <1>5, OneAside
<1>7. TypeOK' /\ kills' >= kills
  BY <1>4 DEF Import, ghosts, Moves, Good, TypeOK
<1> QED
  BY <1>6, <1>7, AsideKept, RecordedStays DEF Import, ghosts

LEMMA CheckCanonicalGood == ASSUME Good, CheckCanonical PROVE Good'
<1>1. Loop \in Actors /\ "grade" \in Pc
  BY DEF Actors, Pc
<1>2. CASE Return(Loop)
  BY <1>1, <1>2, ReturnKept, RecordedStays DEF CheckCanonical, ghosts, Good, TypeOK
<1>3. CASE GoOn(Loop, "grade")
  <2> DEFINE p == [proc[Loop] EXCEPT !.pc = "grade"]
  <2>1. /\ Moves(Loop, p)
        /\ p.pc = "grade" /\ p.op = proc[Loop].op /\ p.exam = proc[Loop].exam
        /\ p.text = proc[Loop].text /\ p.attempt = proc[Loop].attempt
    BY <1>1, <1>3, GoOnMoves
  <2> HIDE DEF p
  <2>2. proc[Loop].pc = "canonical" /\ WellPlaced(proc[Loop])
    BY <1>1 DEF CheckCanonical, Good, Placed
  <2>3. WellPlaced(p) /\ ~Holds(p) /\ ~Generates(p)
    BY <2>1, <2>2 DEF WellPlaced, Holds, Saves, Generates
  <2>4. Placed' /\ \A b \in Actors : Keeps(b) \/ Aside(b)
    BY <1>1, <2>1, <2>2, <2>3, OneAside
  <2>5. TypeOK' /\ kills' >= kills
    BY <2>1 DEF CheckCanonical, ghosts, Moves, Good, TypeOK
  <2> QED
    BY <2>4, <2>5, AsideKept, RecordedStays DEF CheckCanonical, ghosts
<1> QED
  BY <1>2, <1>3 DEF CheckCanonical

\* The text that is read for a grading.
LEMMA ReadForGradingText ==
    ASSUME Good, NEW e \in Exam, Readable(file[e]), NEW answers \in Answers
    PROVE  /\ ReadForGrading(e, answers) \in Text
           /\ ReadForGrading(e, answers).prompts = file[e].prompts
           /\ ReadForGrading(e, answers).grade = answers
           /\ Len(file[e].prompts) = Size
           /\ file[e].prompts \in Held(e)
           /\ \A a \in Actors : Generates(proc[a]) => proc[a].exam # e
<1>1. file[e] \in Text
  BY FileStates DEF Good, TypeOK
<1>2. Len(file[e].prompts) = Size
  BY DEF Good, StoredExamsAreComplete, Stored
<1>3. \A a \in Actors : Generates(proc[a]) => proc[a].exam # e
  BY FileStates DEF Good, Owned
<1> QED
  BY <1>1, <1>2, <1>3, HeldMember DEF ReadForGrading, Text

LEMMA GradeGood ==
    ASSUME Good, NEW c \in Clients, NEW e \in Exam, NEW answers \in Answers, Grade(c, e, answers)
    PROVE  Good'
<1> DEFINE text == ReadForGrading(e, answers)
           p == [Free EXCEPT !.pc = "open", !.op = "grade", !.exam = e, !.text = text]
<1>1. /\ text \in Text /\ text.prompts = file[e].prompts /\ text.grade = answers
      /\ Len(file[e].prompts) = Size /\ file[e].prompts \in Held(e)
      /\ \A a \in Actors : Generates(proc[a]) => proc[a].exam # e
  BY ReadForGradingText DEF Grade
<1> HIDE DEF text
<1>2. p \in Thread /\ p.pc = "open" /\ p.op = "grade" /\ p.exam = e /\ p.text = text
  <2>1. text \in Text /\ e \in Nat
    BY <1>1 DEF Exam
  <2> QED
    BY <2>1, FreeType DEF Thread, Pc, Op
<1>3. Start(c, p) /\ c \in Actors
  BY DEF Grade, Actors, text
<1> HIDE DEF p
<1>4. Moves(c, p) /\ requests' \in 0..MaxRequest /\ proc[c].pc = "idle"
  BY <1>2, <1>3, StartMoves
<1>5. answers # None
  BY ExamsAssumption
<1>6. WellPlaced(p) /\ ~Generates(p)
  BY <1>1, <1>2, <1>5 DEF WellPlaced, Saves, Generates
<1>7. Comparisons'
  BY <1>1, <1>2, <1>3, <1>4, <1>6, HeldKept DEF Grade, ghosts
<1> QED
  BY <1>1, <1>2, <1>3, <1>4, <1>6, <1>7, MoveKept DEF Grade, ghosts, Good, TypeOK

LEMMA GradeImportGood == ASSUME Good, GradeImport PROVE Good'
<1>1. Loop \in Actors
  BY DEF Actors
<1>2. proc[Loop].pc = "grade" /\ WellPlaced(proc[Loop]) /\ proc[Loop] \in Thread
  BY <1>1 DEF GradeImport, Good, Placed, TypeOK
<1>3. CASE ~Readable(file[proc[Loop].exam])
  BY <1>1, <1>3, ReturnKept, RecordedStays DEF GradeImport, ghosts, Good, TypeOK
<1>4. CASE Readable(file[proc[Loop].exam])
  <2> DEFINE q == proc[Loop]
             text == ReadForGrading(q.exam, Completed[q.attempt].answers)
             p == [q EXCEPT !.pc = "open", !.text = text]
  <2>1. q.op = "import" /\ q.attempt \in Attempts /\ q.exam \in Exam
        /\ q.exam = Completed[q.attempt].exam
    BY <1>2 DEF WellPlaced, Saves, Thread, Op
  <2>2. Completed[q.attempt].answers \in Answers
    BY <2>1, ExamsAssumption
  <2>3. /\ text \in Text /\ text.prompts = file[q.exam].prompts
        /\ text.grade = Completed[q.attempt].answers
        /\ Len(file[q.exam].prompts) = Size /\ file[q.exam].prompts \in Held(q.exam)
        /\ \A a \in Actors : Generates(proc[a]) => proc[a].exam # q.exam
    BY <1>4, <2>1, <2>2, ReadForGradingText
  <2>4. proc' = [proc EXCEPT ![Loop].pc = "open", ![Loop].text = text]
    BY <1>4 DEF GradeImport
  <2> HIDE DEF text
  <2>5. /\ p \in Thread /\ p.pc = "open" /\ p.op = q.op /\ p.exam = q.exam
        /\ p.attempt = q.attempt /\ p.text = text
    BY <1>2, <2>3 DEF Thread, Pc
  <2>6. Moves(Loop, p)
    BY <1>1, <2>4, <2>5 DEF Moves, Good, TypeOK
  <2> HIDE DEF p
  <2>7. WellPlaced(p) /\ ~Generates(p)
    BY <2>1, <2>3, <2>5 DEF WellPlaced, Saves, Generates
  <2>8. Comparisons'
    BY <1>1, <2>3, <2>5, <2>6, <2>7, HeldKept DEF GradeImport, ghosts
  <2> QED
    BY <1>1, <1>2, <2>3, <2>5, <2>6, <2>7, <2>8, MoveKept DEF GradeImport, ghosts, Good, TypeOK
<1> QED
  BY <1>3, <1>4

LEMMA SaveExamAttemptGood == ASSUME Good, SaveExamAttempt PROVE Good'
<1>1. Loop \in Actors
  BY DEF Actors
<1> DEFINE q == proc[Loop]
<1>2. q.pc = "record" /\ WellPlaced(q) /\ q \in Thread /\ q.exam \in graded
  BY <1>1 DEF SaveExamAttempt, Good, Placed, TypeOK, Gradings
<1>3. q.op = "import" /\ q.attempt \in Attempts /\ q.exam = Completed[q.attempt].exam
      /\ q.text.grade = Completed[q.attempt].answers
  BY <1>2 DEF WellPlaced, Saves, Thread, Op
<1>4. Completed[q.attempt].answers \in Answers
  BY <1>3, ExamsAssumption
<1>5. /\ recorded' \in [Attempts -> Answers \cup {None}]
      /\ \A t \in Attempts : recorded'[t] # None =>
               recorded'[t] = Completed[t].answers /\ Completed[t].exam \in graded
  BY <1>2, <1>3, <1>4 DEF SaveExamAttempt, Good, TypeOK, Gradings
<1> QED
  BY <1>1, <1>2, <1>5, ReturnKept DEF SaveExamAttempt, ghosts, Good, TypeOK

LEMMA KillGood == ASSUME Good, Kill PROVE Good'
<1>1. TypeOK' /\ kills' > 0 /\ kills' >= kills
  BY FreeType, BoundsAssumption DEF Kill, ghosts, Good, TypeOK
<1>2. Placed'
  BY FreeType DEF Kill, Placed
<1>3. \A a \in Actors : Aside(a)
  BY <1>1, FreeType DEF Kill, Aside, Holds, Saves, Generates
<1> QED
  BY <1>1, <1>2, <1>3, AsideKept, RecordedStays DEF Kill, ghosts

-----------------------------------------------------------------------------
\* Generations.

LEMMA UnusedFacts ==
    ASSUME Good, NEW e \in Unused
    PROVE  /\ e \in Exam /\ e \in Nat /\ file[e] = NoSession
           /\ \A a \in Actors : proc[a].exam # e
BY DEF Unused, Drawn, Exam

\* A generation owns its exam, so that only its own comparisons are at stake.
LEMMA GenerationKept ==
    ASSUME Good, NEW a \in Actors, NEW p, Moves(a, p), WellPlaced(p), UNCHANGED file,
           NEW x \in Exam, p.exam = x, file[x] = NoSession,
           \A b \in Actors \ {a} : proc[b].exam = x => proc[b].pc \in {"canonical", "grade"},
           known' \in [Exam -> SUBSET Exam],
           \A e \in Exam \ {x} : known'[e] = known[e],
           \A f \in known'[x] \ {x} :
               /\ file[f] # NoSession
               /\ \A b \in Actors : Generates(proc[b]) => proc[b].exam # f,
           p.pc = "ask" =>
               /\ \A f \in known'[x] \ {x} : \A t \in Held(f) :
                      \A i \in 1..Len(t) : t[i] \in p.used
               /\ x \in known'[x] =>
                      \A i \in 1..Len(p.text.prompts) : p.text.prompts[i] \in p.used,
           \A f \in known'[x] \ {x} : \A t \in Held(f) : Differ(p.text.prompts, t, FALSE),
           x \in known'[x] => Differ(p.text.prompts, p.text.prompts, TRUE)
    PROVE  Comparisons'
<1>1. \A e \in Exam \ {x} : Held(e)' \subseteq Held(e)
  BY HeldMoves
<1>2. \A s \in Held(x)' : s = p.text.prompts
  <2>1. \A b \in Actors : Holding(b, x) => b = a
    BY DEF Holding, Holds, Saves
  <2>2. \A b \in Actors : Holding(b, x)' => b = a
    BY <2>1 DEF Holding, Holds, Saves, Moves
  <2>3. ~Readable(file'[x])
    BY FileStates
  <2> QED
    BY <2>2, <2>3, HeldMemberNext DEF Moves
<1>3. \A e \in Exam \ {x} : x \notin known[e]
  BY DEF Good, Comparisons, KnownThere
<1>4. known \in [Exam -> SUBSET Exam]
  BY DEF Good, TypeOK
<1>5. OneText'
  <2>1. ASSUME NEW e \in Exam, NEW s \in Held(e)', NEW t \in Held(e)' PROVE s = t
    BY <1>1, <1>2 DEF Good, Comparisons, OneText
  <2> QED
    BY <2>1 DEF OneText
<1>6. KnownThere'
  <2> SUFFICES ASSUME NEW e \in Exam, NEW f \in known'[e] \ {e}
               PROVE  /\ file[f] # NoSession
                      /\ \A b \in Actors : Generates(proc'[b]) => proc'[b].exam # f
    BY DEF KnownThere
  <2>1. file[f] # NoSession /\ \A b \in Actors : Generates(proc[b]) => proc[b].exam # f
    BY DEF Good, Comparisons, KnownThere
  <2> QED
    BY <2>1 DEF Moves
<1>7. UsedUp'
  <2> SUFFICES ASSUME NEW b \in Actors, proc'[b].pc = "ask",
                      NEW f \in known'[proc'[b].exam], NEW s \in Held(f)', NEW i \in 1..Len(s)
               PROVE  s[i] \in proc'[b].used
    BY DEF UsedUp
  <2>1. CASE b = a
    <3>1. proc'[b] = p
      BY <2>1 DEF Moves
    <3>2. CASE f = x
      BY <1>2, <3>1, <3>2
    <3>3. CASE f # x
      BY <1>1, <3>1, <3>3
    <3> QED
      BY <3>2, <3>3
  <2>2. CASE b # a
    <3>1. proc'[b] = proc[b] /\ proc[b].pc = "ask"
      BY <2>2 DEF Moves
    <3>2. proc[b].exam \in Exam /\ proc[b].exam # x
      BY <2>2, <3>1 DEF Good, Placed, WellPlaced
    <3>3. f \in known[proc[b].exam] /\ f \in Exam \ {x}
      BY <1>3, <1>4, <3>1, <3>2
    <3> QED
      BY <1>1, <3>1, <3>3 DEF Good, Comparisons, UsedUp
  <2> QED
    BY <2>1, <2>2
<1>8. Apart'
  <2> SUFFICES ASSUME NEW e \in Exam, NEW f \in known'[e], NEW s \in Held(e)', NEW t \in Held(f)'
               PROVE  Differ(s, t, e = f)
    BY DEF Apart, Differ, IsNew
  <2>1. CASE e = x /\ f = x
    BY <1>2, <2>1
  <2>2. CASE e = x /\ f # x
    BY <1>1, <1>2, <2>2
  <2>3. CASE e # x
    <3>1. f \in known[e] /\ f \in Exam \ {x}
      BY <1>3, <1>4, <2>3
    <3> QED
      BY <1>1, <2>3, <3>1 DEF Good, Comparisons, Apart
  <2> QED
    BY <2>1, <2>2, <2>3
<1> QED
  BY <1>5, <1>6, <1>7, <1>8 DEF Comparisons

LEMMA GenerateFromSourceGood ==
    ASSUME Good, NEW c \in Clients, GenerateFromSource(c) PROVE Good'
<1>1. PICK e \in Unused :
          Start(c, [Free EXCEPT !.pc = "signatures", !.op = "source", !.exam = e])
  BY DEF GenerateFromSource
<1>2. /\ e \in Exam /\ e \in Nat /\ file[e] = NoSession
      /\ \A a \in Actors : proc[a].exam # e
  BY UnusedFacts
<1> DEFINE p == [Free EXCEPT !.pc = "signatures", !.op = "source", !.exam = e]
<1>3. /\ p \in Thread /\ p.pc = "signatures" /\ p.op = "source" /\ p.exam = e
      /\ p.text = Ungraded(<<>>)
  BY <1>2, FreeType DEF Free, Thread, Pc, Op
<1>4. Start(c, p) /\ c \in Actors
  BY <1>1 DEF Actors
<1> HIDE DEF p
<1>5. Moves(c, p) /\ requests' \in 0..MaxRequest /\ proc[c].pc = "idle"
  BY <1>3, <1>4, StartMoves
<1>6. WellPlaced(p) /\ ~Holds(p)
  BY <1>2, <1>3 DEF WellPlaced, Holds, Saves, Generates, Ungraded
<1>7. UNCHANGED <<file, bank, recorded, kills, known, shared, graded>>
  BY DEF GenerateFromSource, ghosts
<1>8. Comparisons'
  BY <1>2, <1>3, <1>4, <1>5, <1>6, <1>7, HeldKept
<1> QED
  BY <1>2, <1>3, <1>4, <1>5, <1>6, <1>7, <1>8, MoveKept DEF Good, TypeOK

LEMMA GenerateFromBlueprintGood ==
    ASSUME Good, NEW c \in Clients, GenerateFromBlueprint(c) PROVE Good'
<1>1. PICK e \in Unused, prompts \in BlueprintPrompts :
          /\ Start(c, [Free EXCEPT !.pc = "open", !.op = "blueprint", !.exam = e,
                                   !.text = Ungraded(prompts)])
          /\ known' = [known EXCEPT ![e] = {}]
  BY DEF GenerateFromBlueprint
<1>2. /\ e \in Exam /\ e \in Nat /\ file[e] = NoSession
      /\ \A a \in Actors : proc[a].exam # e
  BY UnusedFacts
<1>3. Ungraded(prompts) \in Text /\ Len(prompts) = Size
  BY BoundsAssumption DEF BlueprintPrompts, Ungraded, Text
<1> DEFINE text == Ungraded(prompts)
           p == [Free EXCEPT !.pc = "open", !.op = "blueprint", !.exam = e, !.text = text]
<1>4. text \in Text /\ text.prompts = prompts /\ text.grade = None
  BY <1>3 DEF Ungraded
<1>5. Start(c, p) /\ c \in Actors
  BY <1>1 DEF Actors
<1> HIDE DEF text
<1>6. p \in Thread /\ p.pc = "open" /\ p.op = "blueprint" /\ p.exam = e /\ p.text = text
  BY <1>2, <1>4, FreeType DEF Thread, Pc, Op
<1> HIDE DEF p
<1>7. Moves(c, p) /\ requests' \in 0..MaxRequest /\ proc[c].pc = "idle"
  BY <1>5, <1>6, StartMoves
<1>8. WellPlaced(p)
  BY <1>2, <1>3, <1>4, <1>6 DEF WellPlaced, Saves, Generates
<1>9. /\ UNCHANGED <<file, bank, recorded, kills, shared, graded>>
      /\ known' \in [Exam -> SUBSET Exam] /\ known'[e] = {}
      /\ \A d \in Exam \ {e} : known'[d] = known[d]
  BY <1>1, <1>2 DEF GenerateFromBlueprint, Good, TypeOK
<1>10. Comparisons'
  BY <1>2, <1>5, <1>6, <1>7, <1>8, <1>9, GenerationKept
<1> QED
  BY <1>2, <1>5, <1>6, <1>7, <1>8, <1>9, <1>10, MoveKept DEF Good, TypeOK

\* Where a thread is that generates from a source and has not saved.
LEMMA GeneratorFacts ==
    ASSUME Good, NEW c \in Actors, proc[c].pc \in {"signatures", "ask"}
    PROVE  /\ proc[c] \in Thread /\ WellPlaced(proc[c])
           /\ proc[c].op = "source" /\ proc[c].exam \in Exam
           /\ proc[c].text.grade = None /\ proc[c].text \in Text
           /\ file[proc[c].exam] = NoSession
           /\ \A b \in Actors \ {c} : proc[b].exam = proc[c].exam =>
                  proc[b].pc \in {"canonical", "grade"}
           /\ \A b \in Actors \ {c} : Generates(proc[b]) => proc[b].exam # proc[c].exam
<1>1. proc[c] \in Thread /\ WellPlaced(proc[c])
  BY DEF Good, TypeOK, Placed
<1>2. proc[c].op = "source" /\ proc[c].text \in Text
  BY <1>1 DEF WellPlaced, Saves, Thread, Op
<1>3. Generates(proc[c]) /\ proc[c].exam \in Exam /\ proc[c].text.grade = None
  BY <1>1, <1>2 DEF WellPlaced, Generates
<1>4. \A b \in Actors \ {c} : Generates(proc[b]) => proc[b].exam # proc[c].exam
  BY DEF Good, Owned
<1> QED
  BY <1>1, <1>2, <1>3, <1>4 DEF Good, Owned

LEMMA ReadSignaturesGood == ASSUME Good, NEW c \in Actors, ReadSignatures(c) PROVE Good'
<1> DEFINE q == proc[c]
           e == q.exam
           read == UNION {PromptsOf(f) : f \in Stored}
<1>1. q.pc = "signatures" /\ UNCHANGED <<file, bank, recorded, requests, kills, shared, graded>>
  BY DEF ReadSignatures
<1>2. /\ q \in Thread /\ WellPlaced(q) /\ q.op = "source" /\ e \in Exam
      /\ file[e] = NoSession
      /\ \A b \in Actors \ {c} : proc[b].exam = e => proc[b].pc \in {"canonical", "grade"}
      /\ \A b \in Actors \ {c} : Generates(proc[b]) => proc[b].exam # e
  BY <1>1, GeneratorFacts
<1>3. CASE Return(c) /\ UNCHANGED known
  BY <1>1, <1>3, ReturnKept, RecordedStays DEF Good, TypeOK
<1>4. CASE /\ proc' = [proc EXCEPT ![c].pc = "ask", ![c].used = read]
           /\ known' = [known EXCEPT ![e] = Stored \cup {e}]
  <2>1. \A f \in Stored : /\ f \in Exam /\ Readable(file[f]) /\ file[f] \in Text
                          /\ \A b \in Actors : Generates(proc[b]) => proc[b].exam # f
    BY FileStates DEF Stored, Good, TypeOK, Owned
  <2>2. \A f \in Stored : PromptsOf(f) \subseteq Prompts
    BY <2>1 DEF PromptsOf, Text
  <2>3. read \in SUBSET Prompts
    BY <2>2
  <2>4. \A f \in Stored : \A t \in Held(f) : \A i \in 1..Len(t) : t[i] \in read
    <3> SUFFICES ASSUME NEW f \in Stored, NEW t \in Held(f), NEW i \in 1..Len(t)
                 PROVE  t[i] \in PromptsOf(f)
      OBVIOUS
    <3>1. t = file[f].prompts
      BY <2>1, HeldMember DEF Good, Comparisons, OneText
    <3> QED
      BY <3>1 DEF PromptsOf
  <2> HIDE DEF read
  <2> DEFINE p == [q EXCEPT !.pc = "ask", !.used = read]
  <2>5. /\ p \in Thread /\ p.pc = "ask" /\ p.op = q.op /\ p.exam = e /\ p.text = q.text
        /\ p.used = read
    BY <1>2, <2>3 DEF Thread, Pc
  <2>6. Moves(c, p)
    BY <1>4, <2>5 DEF Moves, Good, TypeOK
  <2> HIDE DEF p
  <2>7. q.text = Ungraded(<<>>) /\ q.text.prompts = <<>> /\ q.text.grade = None
    BY <1>1, <1>2 DEF WellPlaced, Ungraded
  <2>8. WellPlaced(p) /\ Generates(p)
    BY <1>2, <2>5, <2>7, BoundsAssumption DEF WellPlaced, Saves, Generates
  <2>9. /\ known' \in [Exam -> SUBSET Exam] /\ known'[e] = Stored \cup {e}
        /\ \A d \in Exam \ {e} : known'[d] = known[d]
    BY <1>2, <1>4 DEF Good, TypeOK, Stored
  <2>10. Len(p.text.prompts) = 0
    BY <2>5, <2>7
  <2>11. \A t, same : Differ(p.text.prompts, t, same)
    BY <2>10 DEF Differ
  <2>12. \A f \in known'[e] \ {e} :
            /\ file[f] # NoSession
            /\ \A b \in Actors : Generates(proc[b]) => proc[b].exam # f
    BY <2>1, <2>9, FileStates
  <2>13. /\ \A f \in known'[e] \ {e} : \A t \in Held(f) :
                \A i \in 1..Len(t) : t[i] \in p.used
         /\ \A i \in 1..Len(p.text.prompts) : p.text.prompts[i] \in p.used
    BY <2>4, <2>5, <2>9, <2>10
  <2>14. Comparisons'
    BY <1>1, <1>2, <2>5, <2>6, <2>8, <2>9, <2>11, <2>12, <2>13, GenerationKept
  <2> QED
    BY <1>1, <1>2, <2>5, <2>6, <2>8, <2>9, <2>14, MoveKept DEF Good, TypeOK
<1> QED
  BY <1>3, <1>4 DEF ReadSignatures

LEMMA RejectCandidateGood == ASSUME Good, NEW c \in Actors, RejectCandidate(c) PROVE Good'
<1>1. proc[c].pc = "ask" /\ UNCHANGED <<file, bank, recorded, requests, kills, known, shared, graded>>
  BY DEF RejectCandidate, ghosts
<1>2. CASE Return(c)
  BY <1>1, <1>2, ReturnKept, RecordedStays DEF Good, TypeOK
<1>3. CASE proc' = [proc EXCEPT ![c].tries = @ + 1]
  <2> DEFINE p == [proc[c] EXCEPT !.tries = @ + 1]
  <2>1. proc[c] \in Thread /\ WellPlaced(proc[c])
    BY DEF Good, TypeOK, Placed
  <2>2. /\ p \in Thread /\ p.pc = proc[c].pc /\ p.op = proc[c].op /\ p.exam = proc[c].exam
        /\ p.text = proc[c].text /\ p.used = proc[c].used /\ p.attempt = proc[c].attempt
    BY <2>1 DEF Thread
  <2>3. Moves(c, p)
    BY <1>3, <2>2 DEF Moves, Good, TypeOK
  <2> HIDE DEF p
  <2>4. WellPlaced(p)
    BY <2>1, <2>2 DEF WellPlaced, Saves, Generates
  <2>5. Placed' /\ \A b \in Actors : Keeps(b)
    BY <2>2, <2>3, <2>4, MovesPlaced DEF Keeps, Moves
  <2>6. TypeOK' /\ kills' >= kills
    BY <1>1, <2>3 DEF Moves, Good, TypeOK
  <2> QED
    BY <1>1, <2>5, <2>6, AsideKept, RecordedStays
<1> QED
  BY <1>2, <1>3 DEF RejectCandidate

LEMMA GiveUpGood == ASSUME Good, NEW c \in Actors, GiveUp(c) PROVE Good'
BY ReturnKept, RecordedStays DEF GiveUp, ghosts, Good, TypeOK

\* A prompt that is new with respect to what is used differs from all of it.
LEMMA AppendDiffers ==
    ASSUME NEW s \in Seq(Prompts), NEW new \in Prompts, NEW used, IsNew(new, used)
    PROVE  /\ \A t \in Seq(Prompts) :
                  Differ(s, t, FALSE) /\ (\A i \in 1..Len(t) : t[i] \in used) =>
                      Differ(Append(s, new), t, FALSE)
           /\ Differ(s, s, TRUE) /\ (\A i \in 1..Len(s) : s[i] \in used) =>
                  Differ(Append(s, new), Append(s, new), TRUE)
<1> DEFINE r == Append(s, new)
<1>1. /\ Len(r) = Len(s) + 1 /\ Len(s) \in Nat /\ r[Len(s) + 1] = new
      /\ \A i \in 1..Len(s) : r[i] = s[i]
  OBVIOUS
<1> HIDE DEF r
<1>2. \A u \in used : IsNew(new, {u}) /\ IsNew(u, {new})
  BY DEF IsNew
<1>3. ASSUME NEW t \in Seq(Prompts), Differ(s, t, FALSE), \A i \in 1..Len(t) : t[i] \in used
      PROVE  Differ(r, t, FALSE)
  <2>1. ASSUME NEW i \in 1..Len(r), NEW j \in 1..Len(t) PROVE IsNew(r[i], {t[j]})
    <3>1. CASE i = Len(s) + 1
      BY <1>1, <1>2, <1>3, <3>1
    <3>2. CASE i \in 1..Len(s)
      BY <1>1, <1>3, <3>2 DEF Differ
    <3> QED
      BY <1>1, <3>1, <3>2
  <2> QED
    BY <2>1 DEF Differ
<1>4. ASSUME Differ(s, s, TRUE), \A i \in 1..Len(s) : s[i] \in used
      PROVE  Differ(r, r, TRUE)
  <2>1. ASSUME NEW i \in 1..Len(r), NEW j \in 1..Len(r), i # j PROVE IsNew(r[i], {r[j]})
    <3>1. CASE i = Len(s) + 1
      BY <1>1, <1>2, <1>4, <2>1, <3>1
    <3>2. CASE i \in 1..Len(s) /\ j = Len(s) + 1
      <4>1. r[i] = s[i] /\ r[j] = new /\ s[i] \in used
        BY <1>1, <1>4, <3>2
      <4> QED
        BY <1>2, <4>1
    <3>3. CASE i \in 1..Len(s) /\ j \in 1..Len(s)
      BY <1>1, <1>4, <2>1, <3>3 DEF Differ
    <3> QED
      BY <1>1, <3>1, <3>2, <3>3
  <2> QED
    BY <2>1 DEF Differ
<1> QED
  BY <1>3, <1>4 DEF r

\* What is held is made of prompts.
LEMMA HeldType == ASSUME Good, NEW e \in Exam, NEW s \in Held(e) PROVE s \in Seq(Prompts)
BY HeldMember, FileStates DEF Good, TypeOK, Thread, Text

LEMMA AcceptCandidateGood == ASSUME Good, NEW c \in Actors, AcceptCandidate(c) PROVE Good'
<1> DEFINE q == proc[c]
           e == q.exam
           s == q.text.prompts
           next(n) == IF n + 1 < Size THEN "ask" ELSE "open"
<1>1. /\ q.pc = "ask"
      /\ UNCHANGED <<file, bank, recorded, requests, kills, known, shared, graded>>
  BY DEF AcceptCandidate, ghosts
<1>2. /\ q \in Thread /\ WellPlaced(q) /\ q.op = "source" /\ e \in Exam
      /\ q.text.grade = None /\ q.text \in Text
      /\ file[e] = NoSession
      /\ \A b \in Actors \ {c} : proc[b].exam = e => proc[b].pc \in {"canonical", "grade"}
      /\ \A b \in Actors \ {c} : Generates(proc[b]) => proc[b].exam # e
  BY <1>1, GeneratorFacts
<1>3. PICK new \in Prompts :
          /\ IsNew(new, q.used)
          /\ proc' = [proc EXCEPT ![c].text.prompts = Append(@, new),
                                  ![c].used = @ \cup {new},
                                  ![c].tries = 0,
                                  ![c].pc = next(Len(s))]
  BY DEF AcceptCandidate
<1> DEFINE text == [q.text EXCEPT !.prompts = Append(@, new)]
           p == [q EXCEPT !.text = text, !.used = @ \cup {new}, !.tries = 0, !.pc = next(Len(s))]
<1>4. s \in Seq(Prompts) /\ Len(s) \in Nat /\ Len(s) < Size /\ Size \in Nat
  BY <1>1, <1>2, BoundsAssumption DEF Text, WellPlaced
<1>5. text \in Text /\ text.prompts = Append(s, new) /\ text.grade = None
  BY <1>2, <1>4 DEF Text
<1>6. next(Len(s)) \in {"ask", "open"} /\ Len(Append(s, new)) = Len(s) + 1
  BY <1>4
<1>7. Moves(c, p)
  <2>1. p \in Thread
    BY <1>2, <1>5, <1>6 DEF Thread, Pc
  <2>2. proc' = [proc EXCEPT ![c] = p]
    BY <1>3
  <2> QED
    BY <2>1, <2>2 DEF Moves, Good, TypeOK
<1>8. /\ p.pc = next(Len(s)) /\ p.op = "source" /\ p.exam = e /\ p.text = text
      /\ p.used = q.used \cup {new}
  BY <1>2 DEF Thread
<1> HIDE DEF p, text
<1>9. WellPlaced(p) /\ Generates(p)
  BY <1>2, <1>4, <1>5, <1>6, <1>8 DEF WellPlaced, Saves, Generates
<1>10. s \in Held(e)
  BY <1>1, <1>2, HeldMember DEF Holding, Holds
<1>11. known \in [Exam -> SUBSET Exam]
  BY DEF Good, TypeOK
<1>12. \A f \in known[e] : \A t \in Held(f) :
           /\ t \in Seq(Prompts)
           /\ \A i \in 1..Len(t) : t[i] \in q.used
           /\ Differ(s, t, e = f)
  BY <1>1, <1>2, <1>10, <1>11, HeldType DEF Good, Comparisons, UsedUp, Apart
<1>13. \A f \in known[e] \ {e} : \A t \in Held(f) : Differ(Append(s, new), t, FALSE)
  BY <1>3, <1>4, <1>12, AppendDiffers
<1>14. e \in known[e] => Differ(Append(s, new), Append(s, new), TRUE)
  BY <1>3, <1>4, <1>10, <1>12, AppendDiffers
<1>15. \A f \in known[e] : \A t \in Held(f) : \A i \in 1..Len(t) : t[i] \in p.used
  BY <1>8, <1>12
<1>16. e \in known[e] => \A i \in 1..Len(Append(s, new)) : Append(s, new)[i] \in p.used
  BY <1>4, <1>8, <1>10, <1>15
<1>17. \A f \in known[e] \ {e} :
           /\ file[f] # NoSession
           /\ \A b \in Actors : Generates(proc[b]) => proc[b].exam # f
  BY <1>2 DEF Good, Comparisons, KnownThere
<1> HIDE DEF next
<1>18. Comparisons'
  <2>1. p.text.prompts = Append(s, new) /\ p.exam = e /\ known' = known
    BY <1>1, <1>5, <1>8
  <2>2. /\ \A f \in known'[e] \ {e} : \A t \in Held(f) : Differ(p.text.prompts, t, FALSE)
        /\ e \in known'[e] => Differ(p.text.prompts, p.text.prompts, TRUE)
    BY <1>13, <1>14, <2>1
  <2>3. /\ \A f \in known'[e] \ {e} : \A t \in Held(f) : \A i \in 1..Len(t) : t[i] \in p.used
        /\ e \in known'[e] =>
               \A i \in 1..Len(p.text.prompts) : p.text.prompts[i] \in p.used
    BY <1>15, <1>16, <2>1
  <2>4. \A f \in known'[e] \ {e} :
            /\ file[f] # NoSession
            /\ \A b \in Actors : Generates(proc[b]) => proc[b].exam # f
    BY <1>17, <2>1
  <2>5. known' \in [Exam -> SUBSET Exam] /\ \A d \in Exam \ {e} : known'[d] = known[d]
    BY <1>11, <2>1
  <2> QED
    BY <1>1, <1>2, <1>7, <1>9, <2>1, <2>2, <2>3, <2>4, <2>5, GenerationKept
<1> QED
  BY <1>1, <1>2, <1>6, <1>7, <1>8, <1>9, <1>11, <1>18, MoveKept DEF Good, TypeOK

-----------------------------------------------------------------------------
\* Saving.

\* Where a thread is that saves an exam.
LEMMA SaverFacts ==
    ASSUME Good, NEW a \in Actors, Saves(proc[a])
    PROVE  /\ proc[a] \in Thread /\ WellPlaced(proc[a])
           /\ proc[a].exam \in Exam /\ proc[a].op \in {"source", "blueprint", "grade", "import"}
           /\ proc[a].text \in Text /\ Len(proc[a].text.prompts) = Size
           /\ proc[a].text.prompts \in Held(proc[a].exam)
           /\ \A b \in Actors \ {a} : Generates(proc[b]) => proc[b].exam # proc[a].exam
<1>1. proc[a] \in Thread /\ WellPlaced(proc[a])
  BY DEF Good, TypeOK, Placed
<1>2. proc[a].op \in {"source", "blueprint", "grade", "import"} /\ proc[a].text \in Text
  BY <1>1 DEF WellPlaced, Saves, Thread, Op
<1>3. proc[a].exam \in Exam /\ Len(proc[a].text.prompts) = Size
  BY <1>1, <1>2 DEF WellPlaced
<1>4. \A b \in Actors \ {a} : Generates(proc[b]) => proc[b].exam # proc[a].exam
  BY DEF Good, Owned, Saves
<1>5. proc[a].text.prompts \in Held(proc[a].exam)
  BY <1>3, HeldMember DEF Holding, Holds
<1> QED
  BY <1>1, <1>2, <1>3, <1>4, <1>5

LEMMA OpenSessionGood == ASSUME Good, NEW a \in Actors, OpenSession(a) PROVE Good'
<1> DEFINE q == proc[a]
           e == q.exam
           p == [q EXCEPT !.pc = "write"]
<1>1. /\ q.pc = "open" /\ file' = [file EXCEPT ![e] = Empty]
      /\ shared' = IF \E b \in Actors \ {a} : WritingOn(b, e) THEN shared \cup {e} ELSE shared
      /\ UNCHANGED <<bank, recorded, requests, kills, known, graded>>
  BY DEF OpenSession, WritingOn
<1>2. /\ q \in Thread /\ WellPlaced(q) /\ e \in Exam
      /\ q.op \in {"source", "blueprint", "grade", "import"}
      /\ q.text.prompts \in Held(e)
      /\ \A b \in Actors \ {a} : Generates(proc[b]) => proc[b].exam # e
  BY <1>1, SaverFacts DEF Saves
<1>3. /\ Moves(a, p) /\ p.pc = "write" /\ p.op = q.op /\ p.exam = e /\ p.text = q.text
      /\ p.attempt = q.attempt
  <2>1. "write" \in Pc /\ GoOn(a, "write")
    BY DEF OpenSession, Pc
  <2> QED
    BY <2>1, GoOnMoves
<1> HIDE DEF p
<1>4. /\ file' \in [Exam -> File] /\ file'[e] = Empty
      /\ \A f \in Exam \ {e} : file'[f] = file[f]
  BY <1>1, <1>2 DEF Good, TypeOK, File
<1>5. TypeOK'
  BY <1>1, <1>2, <1>3, <1>4 DEF Moves, Good, TypeOK
<1>6. Placed'
  <2>1. WellPlaced(p)
    BY <1>1, <1>2, <1>3 DEF WellPlaced, Saves, Generates
  <2> QED
    BY <1>3, <2>1, MovesPlaced
<1>7. Owned'
  <2> SUFFICES ASSUME NEW b \in Actors, Generates(proc'[b])
               PROVE  /\ file'[proc'[b].exam] = IF proc'[b].pc = "write" THEN Empty ELSE NoSession
                      /\ proc'[b].exam \notin graded
                      /\ \A d \in Actors \ {b} : proc'[d].exam = proc'[b].exam =>
                             proc'[d].pc \in {"canonical", "grade"}
    BY <1>1 DEF Owned
  <2>1. Generates(proc[b]) /\ proc'[b].exam = proc[b].exam /\ proc[b].exam \in Exam
    BY <1>3 DEF Moves, Generates, Good, Placed, WellPlaced
  <2>2. CASE b = a
    BY <1>3, <1>4, <2>1, <2>2 DEF Moves, Good, Owned
  <2>3. CASE b # a
    BY <1>2, <1>3, <1>4, <2>1, <2>3 DEF Moves, Good, Owned
  <2> QED
    BY <2>2, <2>3
<1>8. StoredExamsAreComplete'
  BY <1>4, FileStates DEF Good, StoredExamsAreComplete, Stored
<1>9. Gradings'
  BY <1>1, <1>3, <1>4, FileStates DEF Moves, Good, TypeOK, Gradings
<1>10. Writings'
  <2>1. \A b \in Actors \ {a}, f \in Exam : WritingOn(b, f)' <=> WritingOn(b, f)
    BY <1>3 DEF Moves, WritingOn
  <2>2. \A f \in Exam : WritingOn(a, f)' <=> f = e
    BY <1>3 DEF Moves, WritingOn
  <2>3. \A f \in Exam : ~WritingOn(a, f)
    BY <1>1 DEF WritingOn
  <2>4. \A b \in Actors : \A f \in Exam \ shared' : WritingOn(b, f)' =>
            file'[f] = Empty /\ \A d \in Actors \ {b} : ~WritingOn(d, f)'
    <3> SUFFICES ASSUME NEW b \in Actors, NEW f \in Exam \ shared', WritingOn(b, f)'
                 PROVE  file'[f] = Empty /\ \A d \in Actors \ {b} : ~WritingOn(d, f)'
      OBVIOUS
    <3>1. f \in Exam \ shared
      BY <1>1
    <3>2. CASE f = e
      <4>1. \A d \in Actors \ {a} : ~WritingOn(d, e)
        BY <1>1, <3>2
      <4> QED
        BY <1>4, <2>1, <3>2, <4>1
    <3>3. CASE f # e
      BY <1>4, <2>1, <2>2, <2>3, <3>1, <3>3 DEF Good, Writings
    <3> QED
      BY <3>2, <3>3
  <2>5. \A f \in Exam : file'[f] = Garbled => f \in shared'
    BY <1>1, <1>4, FileStates DEF Good, Writings
  <2>6. \A f \in Exam : file'[f] = Empty => kills' > 0 \/ \E b \in Actors : WritingOn(b, f)'
    BY <1>1, <1>4, <2>1, <2>2, <2>3 DEF Good, Writings
  <2> QED
    BY <2>4, <2>5, <2>6 DEF Writings
<1>11. Comparisons'
  <2>1. \A b \in Actors, f \in Exam : Holding(b, f)' =>
            Holding(b, f) /\ proc'[b].text = proc[b].text
    BY <1>1, <1>3 DEF Moves, Holding, Holds, Saves
  <2>2. \A f \in Exam : Readable(file'[f]) => file'[f] = file[f]
    BY <1>4, FileStates
  <2>3. \A f \in Exam : Held(f)' \subseteq Held(f)
    BY <2>1, <2>2, HeldMember, HeldMemberNext
  <2>4. NothingNew
    BY <1>1, <1>3, <1>4, <2>3, FileStates DEF NothingNew, Moves, Generates
  <2> QED
    BY <1>6, <2>4, NothingNewKept
<1> QED
  BY <1>5, <1>6, <1>7, <1>8, <1>9, <1>10, <1>11 DEF Good

LEMMA WriteSessionGood == ASSUME Good, NEW a \in Actors, WriteSession(a) PROVE Good'
<1> DEFINE q == proc[a]
           e == q.exam
<1>1. /\ q.pc = "write"
      /\ graded' = IF q.text.grade = None THEN graded ELSE graded \cup {e}
      /\ UNCHANGED <<bank, recorded, requests, kills, known, shared>>
  BY DEF WriteSession
<1>2. /\ q \in Thread /\ WellPlaced(q) /\ e \in Exam
      /\ q.op \in {"source", "blueprint", "grade", "import"}
      /\ q.text \in Text /\ Len(q.text.prompts) = Size
      /\ q.text.prompts \in Held(e)
      /\ \A b \in Actors \ {a} : Generates(proc[b]) => proc[b].exam # e
  BY <1>1, SaverFacts DEF Saves
<1>3. PICK text \in {q.text} \cup (IF file[e] = Empty THEN {} ELSE {Garbled}) :
          file' = [file EXCEPT ![e] = text]
  BY DEF WriteSession
<1>4. /\ file' \in [Exam -> File] /\ file'[e] = text
      /\ \A f \in Exam \ {e} : file'[f] = file[f]
  BY <1>2, <1>3 DEF Good, TypeOK, File
<1>5. /\ text # NoSession /\ text # Empty
      /\ Readable(text) => text = q.text
      /\ text = Garbled => file[e] # Empty
  BY <1>2, <1>3, FileStates DEF File
<1>6. PICK p : /\ Moves(a, p) /\ WellPlaced(p) /\ p.pc \in {"idle", "record"} /\ p.op \in {"none", "import"}
               /\ p.pc = "idle" => p.exam = 0
               /\ p.pc = "record" => q.op = "import" /\ p.exam = e
  <2>1. CASE q.op = "import"
    <3> DEFINE p == [q EXCEPT !.pc = "record"]
    <3>1. /\ Moves(a, p) /\ p.pc = "record" /\ p.op = q.op /\ p.exam = e /\ p.text = q.text
          /\ p.attempt = q.attempt
      <4>1. "record" \in Pc /\ GoOn(a, "record")
        BY <2>1 DEF WriteSession, Pc
      <4> QED
        BY <4>1, GoOnMoves
    <3> HIDE DEF p
    <3>2. WellPlaced(p)
      BY <1>1, <1>2, <2>1, <3>1 DEF WellPlaced, Saves, Generates
    <3> QED
      BY <2>1, <3>1, <3>2
  <2>2. CASE q.op # "import"
    <3>1. Moves(a, Free)
      BY <2>2, ReturnMoves DEF WriteSession
    <3> QED
      BY <3>1, FreeType
  <2> QED
    BY <2>1, <2>2
<1>7. 0 \notin Exam
  BY DEF Exam
<1>8. TypeOK'
  BY <1>1, <1>2, <1>4, <1>6 DEF Moves, Good, TypeOK
<1>9. Placed'
  BY <1>6, MovesPlaced
<1>10. ~Generates(p) /\ ~Holds(p)
  BY <1>6 DEF Generates, Holds, Saves
<1>11. Owned'
  <2> SUFFICES ASSUME NEW b \in Actors, Generates(proc'[b])
               PROVE  /\ file'[proc'[b].exam] = IF proc'[b].pc = "write" THEN Empty ELSE NoSession
                      /\ proc'[b].exam \notin graded'
                      /\ \A d \in Actors \ {b} : proc'[d].exam = proc'[b].exam =>
                             proc'[d].pc \in {"canonical", "grade"}
    BY DEF Owned
  <2>1. b # a /\ proc'[b] = proc[b] /\ Generates(proc[b])
    BY <1>6, <1>10 DEF Moves
  <2>2. proc[b].exam \in Exam /\ proc[b].exam # e
    BY <1>2, <2>1 DEF Good, Placed, WellPlaced, Generates
  <2>3. proc'[a].exam # proc[b].exam
    BY <1>6, <1>7, <2>2 DEF Moves
  <2> QED
    BY <1>1, <1>4, <1>6, <2>1, <2>2, <2>3 DEF Moves, Good, Owned
<1>12. StoredExamsAreComplete'
  BY <1>2, <1>4, <1>5 DEF Good, StoredExamsAreComplete, Stored
<1>13. q.text.grade = None => e \notin graded
  <2>1. q.op = "import" => Completed[q.attempt].answers # None
    BY <1>2, ExamsAssumption DEF WellPlaced
  <2>2. q.text.grade = None => Generates(q)
    BY <1>1, <1>2, <2>1 DEF WellPlaced, Generates
  <2> QED
    BY <2>2 DEF Good, Owned
<1>14. Gradings'
  <2>1. graded' \subseteq graded \cup {e} /\ graded \subseteq graded' /\ graded \subseteq Exam
    BY <1>1 DEF Good, TypeOK
  <2>2. q.op = "import" => e \in graded'
    <3>1. q.op = "import" => q.text.grade # None
      BY <1>1, <1>2, ExamsAssumption DEF WellPlaced
    <3> QED
      BY <1>1, <3>1
  <2>3. e \in graded' => q.text.grade # None
    BY <1>1, <1>13
  <2>4. \A b \in Actors : proc'[b].pc = "record" => proc'[b].exam \in graded'
    BY <1>6, <2>1, <2>2 DEF Moves, Good, Gradings
  <2>5. \A f \in graded' : file'[f] # NoSession /\ (Readable(file'[f]) => file'[f].grade # None)
    BY <1>4, <1>5, <2>1, <2>3 DEF Good, Gradings
  <2> QED
    BY <1>1, <2>1, <2>4, <2>5 DEF Good, Gradings
<1>15. Writings'
  <2>1. \A b \in Actors \ {a}, f \in Exam : WritingOn(b, f)' <=> WritingOn(b, f)
    BY <1>6 DEF Moves, WritingOn
  <2>2. \A f \in Exam : ~WritingOn(a, f)'
    BY <1>6 DEF Moves, WritingOn
  <2>3. WritingOn(a, e) /\ \A f \in Exam \ {e} : ~WritingOn(a, f)
    BY <1>1 DEF WritingOn
  <2>4. e \notin shared => file[e] = Empty /\ \A b \in Actors \ {a} : ~WritingOn(b, e)
    BY <1>2, <2>3 DEF Good, Writings
  <2>5. \A b \in Actors : \A f \in Exam \ shared : WritingOn(b, f)' =>
            file'[f] = Empty /\ \A d \in Actors \ {b} : ~WritingOn(d, f)'
    <3> SUFFICES ASSUME NEW b \in Actors, NEW f \in Exam \ shared, WritingOn(b, f)'
                 PROVE  file'[f] = Empty /\ \A d \in Actors \ {b} : ~WritingOn(d, f)'
      OBVIOUS
    <3>1. b # a /\ WritingOn(b, f)
      BY <2>1, <2>2
    <3>2. f # e
      BY <2>4, <3>1
    <3> QED
      BY <1>4, <2>1, <2>2, <3>1, <3>2 DEF Good, Writings
  <2>6. \A f \in Exam : file'[f] = Garbled => f \in shared
    BY <1>4, <1>5, <2>4 DEF Good, Writings
  <2>7. \A f \in Exam : file'[f] = Empty => kills > 0 \/ \E b \in Actors : WritingOn(b, f)'
    BY <1>4, <1>5, <2>1, <2>3 DEF Good, Writings
  <2> QED
    BY <1>1, <2>5, <2>6, <2>7 DEF Writings
<1>16. Comparisons'
  <2>1. \A b \in Actors, f \in Exam : Holding(b, f)' =>
            Holding(b, f) /\ proc'[b].text = proc[b].text
    BY <1>6, <1>10 DEF Moves, Holding, Holds, Saves
  <2>2. \A f \in Exam : Readable(file'[f]) =>
            (f = e /\ file'[f] = q.text) \/ file'[f] = file[f]
    BY <1>4, <1>5
  <2>3. \A f \in Exam : Held(f)' \subseteq Held(f)
    BY <1>2, <2>1, <2>2, HeldMember, HeldMemberNext
  <2>4. \A f \in Exam : file'[f] = NoSession => file[f] = NoSession
    BY <1>4, <1>5
  <2>5. NothingNew
    BY <1>1, <1>6, <1>10, <2>3, <2>4 DEF NothingNew, Moves
  <2> QED
    BY <1>9, <2>5, NothingNewKept
<1> QED
  BY <1>8, <1>9, <1>11, <1>12, <1>14, <1>15, <1>16 DEF Good

-----------------------------------------------------------------------------
LEMMA InitGood == Init => Good
<1> SUFFICES ASSUME Init PROVE Good
  OBVIOUS
<1>1. TypeOK
  BY FreeType, BoundsAssumption DEF Init, TypeOK, File, SourceOutcomes
<1>2. Placed /\ \A a \in Actors : ~Generates(proc[a]) /\ ~Holds(proc[a]) /\ proc[a].pc = "idle"
  BY FreeType DEF Init, Placed, Generates, Holds, Saves
<1>3. Owned /\ Gradings /\ StoredExamsAreComplete
  BY <1>2, FileStates DEF Init, Owned, Gradings, StoredExamsAreComplete, Stored
<1>4. Writings
  BY <1>2, FileStates DEF Init, Writings, WritingOn
<1>5. \A e \in Exam : \A s : s \notin Held(e)
  BY <1>2, FileStates, HeldMember DEF Init, Holding
<1>6. Comparisons
  BY <1>2, <1>5 DEF Init, Comparisons, OneText, KnownThere, UsedUp, Apart
<1> QED
  BY <1>1, <1>2, <1>3, <1>4, <1>6 DEF Good

LEMMA NextGood == Good /\ [Next]_vars => Good'
<1> SUFFICES ASSUME Good, [Next]_vars PROVE Good'
  OBVIOUS
<1>1. Loop \in Actors /\ Clients \subseteq Actors
  BY DEF Actors
<1>2. ASSUME NEW a \in Actors, Step(a) PROVE Good'
  BY <1>2, ReadSignaturesGood, RejectCandidateGood, AcceptCandidateGood, GiveUpGood,
     OpenSessionGood, WriteSessionGood DEF Step
<1>3. CASE LoopStep
  BY <1>1, <1>2, <1>3, WriteBankGood, CheckCanonicalGood, GradeImportGood, SaveExamAttemptGood
     DEF LoopStep
<1>4. ASSUME NEW c \in Clients, Request(c) PROVE Good'
  BY <1>4, GenerateFromSourceGood, GenerateFromBlueprintGood, GradeGood DEF Request
<1>5. CASE UNCHANGED vars
  <2>1. TypeOK' /\ Placed' /\ kills' >= kills
    BY <1>5 DEF vars, ghosts, Good, TypeOK, Placed
  <2>2. \A a \in Actors : Keeps(a)
    BY <1>5 DEF vars, Keeps
  <2> QED
    BY <1>5, <2>1, <2>2, AsideKept, RecordedStays DEF vars, ghosts
<1> QED
  BY <1>1, <1>2, <1>3, <1>4, <1>5, IngestSourceBankGood, ImportGood, KillGood DEF Next

LEMMA Invariance == Spec => []Good
<1> QED
  BY InitGood, NextGood, PTL DEF Spec

\* Every file is one the program can leave, and every thread is at a position of its
\* code with what it carries there.
THEOREM TypeCorrect == Spec => []TypeOK
<1>1. Good => TypeOK
  BY DEF Good
<1> QED
  BY <1>1, Invariance, PTL

\* A generation that fails, at whatever step and however it is interleaved with
\* gradings, imports and kills, leaves no exam that is shorter than was asked for.
THEOREM OnlyCompleteExamsAreStored == Spec => []StoredExamsAreComplete
<1>1. Good => StoredExamsAreComplete
  BY DEF Good
<1> QED
  BY <1>1, Invariance, PTL

\* No prompt of a source-generated exam is taken for another one of it, or for one of
\* the exams that were stored when its signatures were read, although those are saved
\* again and again by gradings.
THEOREM NothingIsAskedTwice == Spec => []AsksNothingTwice
<1>1. Good => AsksNothingTwice
  <2> SUFFICES ASSUME Good, NEW e \in Stored, NEW f \in known[e] \cap Stored
               PROVE  Differ(file[e].prompts, file[f].prompts, e = f)
    BY DEF AsksNothingTwice, Differ
  <2>1. e \in Exam /\ f \in Exam /\ file[e].prompts \in Held(e) /\ file[f].prompts \in Held(f)
    BY HeldMember DEF Stored
  <2> QED
    BY <2>1 DEF Good, Comparisons, Apart
<1> QED
  BY <1>1, Invariance, PTL

\* A session that cannot be read is being written, unless the server was killed or two
\* threads had its file open at once.
THEOREM SavedSessionsAreReadable == Spec => []SessionsAreReadable
<1>1. Good => SessionsAreReadable
  BY DEF Good, Writings, WritingOn, SessionsAreReadable, Quiet
<1> QED
  BY <1>1, Invariance, PTL

\* A thread that saves an exam without a grade is the one that generated it, so it
\* overwrites no grade; gradings overwrite one with another.
THEOREM GradesAreNotLost == Spec => []GradedStaysGraded
<1>1. Good => GradedStaysGraded
  BY DEF Good, Gradings, GradedStaysGraded, Stored
<1> QED
  BY <1>1, Invariance, PTL

\* What the import records is the grade of its own answers, and its exam keeps showing
\* a grade.
THEOREM RecordsAreOfGradedExams == Spec => []RecordedIsGraded
<1>1. Good => RecordedIsGraded
  BY DEF Good, Gradings, RecordedIsGraded
<1> QED
  BY <1>1, Invariance, PTL
=============================================================================
