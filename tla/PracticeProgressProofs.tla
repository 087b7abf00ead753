----------------------- MODULE PracticeProgressProofs -----------------------
(***************************************************************************)
(* Proofs about PracticeProgress, for every number of threads, concepts,   *)
(* quizzes, requests and kills.                                            *)
(*                                                                         *)
(* Safe holds however requests overlap: what a thread has in memory is     *)
(* covered by the attempts there are, and attempts only grow.  Exact holds *)
(* as long as requests come one at a time: then at most one thread is      *)
(* busy, and ExactWith says what it still owes the files and the tables.   *)
(***************************************************************************)
EXTENDS PracticeProgress, FiniteSetTheorems, SequenceTheorems, TLAPS

Count == [n : Nat, ok : Nat]
Snapshot == [count : [Concepts -> Count], wrong : SUBSET Concepts]
AnyRow == [quiz : Quiz, index : Nat, concept : Concepts, correct : BOOLEAN, number : Nat,
           course : BOOLEAN]
Attempt == {r \in AnyRow : r.course = (r.quiz \in Quizzes)}
Entry == [quiz : Remedial, prompts : SUBSET Signature]

\* Where a grading is, and where it has a copy of the snapshot that is not saved.
MemoryPcs == {"count", "insert", "event", "save_snapshot"}
GradePcs == MemoryPcs \cup {"save_results", "complete"}
BuiltPcs == {"list_history", "write_history", "save_session"}
RemedyPcs == {"concept"} \cup BuiltPcs
Pc == {"idle", "unlink_results", "store_table"} \cup GradePcs \cup RemedyPcs

Thread == [pc : Pc, quiz : Quiz \cup {NoQuiz}, asked : Seq(Concepts), graded : Seq(BOOLEAN),
           number : Nat, snap : Snapshot, loaded : Seq(Attempt), request : 0..MaxRequest,
           todo : Seq(Concepts), prior : SUBSET Signature, prompts : SUBSET Signature,
           list : Seq(Entry)]

TypeOK ==
    /\ session \in [Quiz -> Seq(Concepts)]
    /\ results \in [Quiz -> Seq(BOOLEAN)]
    /\ snapshot \in Snapshot
    /\ history \in Seq(Entry)
    /\ attempts \in Seq(Attempt)
    /\ events \in [EventType -> Nat]
    /\ table \in [Concepts -> Count]
    /\ advice \in SUBSET Concepts
    /\ proc \in [Clients -> Thread]
    /\ requests \in 0..MaxRequest
    /\ serial \in BOOLEAN
    /\ kills \in 0..MaxKill

\* Which question a thread is at.
WellPlaced(p) ==
    /\ p.pc \notin {"idle", "store_table", "concept"} => p.quiz \in Quiz
    /\ p.pc \in RemedyPcs => p.request \in 1..MaxRequest /\ p.todo # <<>>
    /\ p.pc \in BuiltPcs => p.quiz = <<p.request, Head(p.todo)>> /\ p.quiz \in Remedial
    /\ p.pc = "count" => Len(p.graded) < Len(p.asked)
    /\ p.pc \in {"insert", "event"} => Len(p.graded) \in 1..Len(p.asked)

\* Between its row and its share of the mastery, an answer is owed to the snapshot.
Owed(p, c) == p.pc = "event" /\ p.asked[Len(p.graded)] = c
OwedN(p, c) == IF Owed(p, c) THEN 1 ELSE 0
OwedOk(p, c) == IF Owed(p, c) /\ p.graded[Len(p.graded)] THEN 1 ELSE 0

\* A copy of the snapshot counts recorded attempts only.
Covered(p) ==
    p.pc \in MemoryPcs => \A c \in Concepts :
        /\ p.snap.count[c].n + OwedN(p, c) <= Tally(attempts)[c].n
        /\ p.snap.count[c].ok + OwedOk(p, c) <= Tally(attempts)[c].ok

HasRow(q, i, correct) ==
    \E k \in 1..Len(attempts) :
        attempts[k].quiz = q /\ attempts[k].index = i /\ attempts[k].correct = correct

\* Every graded answer, but the one that is about to be inserted, has its row.
Inserted(p) ==
    p.pc \in GradePcs => \A i \in 1..Len(p.graded) :
        (p.pc = "insert" /\ i = Len(p.graded)) \/ HasRow(p.quiz, i, p.graded[i])

\* What a refresh loaded were the attempts of some moment.
OfOneMoment(s) == \E k \in 0..Len(attempts) : s = SubSeq(attempts, 1, k)
Loaded(p) == p.pc = "store_table" => OfOneMoment(p.loaded)

GoodThread(p) == WellPlaced(p) /\ Covered(p) /\ Inserted(p) /\ Loaded(p)

\* The tables are the aggregate of the rows there were at some moment.
TableOK ==
    \E k \in 0..Len(attempts) :
        /\ table = Aggregate(SubSeq(attempts, 1, k))
        /\ advice = Weak(table)

Safe ==
    /\ TypeOK
    /\ \A c \in Clients : GoodThread(proc[c])
    /\ MasteryIsAttempted
    /\ ResultsAreAttempted
    /\ TableOK

-----------------------------------------------------------------------------
\* Counting attempts.

LEMMA PartFinite ==
    ASSUME NEW s \in Seq(Attempt), NEW S, S \subseteq 1..Len(s)
    PROVE  IsFiniteSet(S) /\ Cardinality(S) \in Nat
<1>1. IsFiniteSet(1..Len(s))
  BY FS_Interval
<1> QED
  BY <1>1, FS_Subset, FS_CardinalityType

LEMMA AggregateType ==
    ASSUME NEW s \in Seq(Attempt)
    PROVE  Tally(s) \in [Concepts -> Count] /\ Aggregate(s) \in [Concepts -> Count]
<1>1. ASSUME NEW S, S \subseteq 1..Len(s) PROVE Cardinality(S) \in Nat
  BY <1>1, PartFinite
<1>2. \A c \in Concepts :
          /\ Cardinality(About(s, c)) \in Nat /\ Cardinality(About(s, c) \cap OfCourse(s)) \in Nat
          /\ Cardinality(Correct(s, c)) \in Nat /\ Cardinality(Correct(s, c) \cap OfCourse(s)) \in Nat
  <2> SUFFICES ASSUME NEW c \in Concepts
               PROVE  /\ About(s, c) \subseteq 1..Len(s)
                      /\ About(s, c) \cap OfCourse(s) \subseteq 1..Len(s)
                      /\ Correct(s, c) \subseteq 1..Len(s)
                      /\ Correct(s, c) \cap OfCourse(s) \subseteq 1..Len(s)
    BY <1>1
  <2> QED
    BY DEF About, Correct
<1> QED
  BY <1>2 DEF Tally, Aggregate, Count

\* A part of the positions of a sequence, and the same part after one more row.
LEMMA PartGrows ==
    ASSUME NEW s \in Seq(Attempt), NEW S, S \subseteq 1..Len(s)
    PROVE  Cardinality(S \cup {Len(s) + 1}) = Cardinality(S) + 1
<1>1. Len(s) + 1 \notin S
  OBVIOUS
<1> QED
  BY <1>1, PartFinite, FS_AddElement

LEMMA TallyAppend ==
    ASSUME NEW s \in Seq(Attempt), NEW r \in Attempt, NEW c \in Concepts
    PROVE  /\ Tally(Append(s, r))[c].n =
                  Tally(s)[c].n + (IF r.concept = c THEN 1 ELSE 0)
           /\ Tally(Append(s, r))[c].ok =
                  Tally(s)[c].ok + (IF r.concept = c /\ r.correct THEN 1 ELSE 0)
<1> DEFINE t == Append(s, r)
<1>1. /\ t \in Seq(Attempt) /\ Len(t) = Len(s) + 1 /\ Len(s) \in Nat
      /\ t[Len(s) + 1] = r /\ \A i \in 1..Len(s) : t[i] = s[i]
      /\ 1..Len(t) = (1..Len(s)) \cup {Len(s) + 1}
  OBVIOUS
<1> HIDE DEF t
<1>2. About(s, c) \subseteq 1..Len(s) /\ Correct(s, c) \subseteq 1..Len(s)
  BY DEF About, Correct
<1>3. Cardinality(About(s, c)) \in Nat /\ Cardinality(Correct(s, c)) \in Nat
  BY <1>2, PartFinite
<1>4. About(t, c) = IF r.concept = c THEN About(s, c) \cup {Len(s) + 1} ELSE About(s, c)
  BY <1>1 DEF About
<1>5. Correct(t, c) = IF r.concept = c /\ r.correct
                      THEN Correct(s, c) \cup {Len(s) + 1} ELSE Correct(s, c)
  BY <1>1 DEF Correct, About
<1>6. Cardinality(About(t, c)) = Cardinality(About(s, c)) + (IF r.concept = c THEN 1 ELSE 0)
  BY <1>2, <1>3, <1>4, PartGrows
<1>7. Cardinality(Correct(t, c)) =
          Cardinality(Correct(s, c)) + (IF r.concept = c /\ r.correct THEN 1 ELSE 0)
  BY <1>2, <1>3, <1>5, PartGrows
<1> QED
  BY <1>6, <1>7 DEF Tally, t

LEMMA AggregateEmpty ==
    Tally(<<>>) = NoCounts /\ Aggregate(<<>>) = NoCounts /\ Weak(NoCounts) = {}
<1>1. \A c \in Concepts : About(<<>>, c) = {} /\ Correct(<<>>, c) = {}
  BY DEF About, Correct
<1>2. Tally(<<>>) = NoCounts
  BY <1>1, FS_EmptySet DEF Tally, NoCounts
<1>4. Aggregate(<<>>) = NoCounts
  <2>1. \A c \in Concepts :
            About(<<>>, c) \cap OfCourse(<<>>) = {} /\ Correct(<<>>, c) \cap OfCourse(<<>>) = {}
    BY <1>1
  <2> QED
    BY <2>1, FS_EmptySet DEF Aggregate, NoCounts
<1>3. \A c \in Concepts : NoCounts[c].n = 0
  BY DEF NoCounts
<1> QED
  BY <1>2, <1>3, <1>4 DEF Weak

-----------------------------------------------------------------------------
\* Attempts only grow.

Grows == attempts' = attempts \/ \E r \in Attempt : attempts' = Append(attempts, r)

LEMMA GrowsKept ==
    ASSUME TypeOK, Grows
    PROVE  /\ attempts' \in Seq(Attempt) /\ Len(attempts) <= Len(attempts')
           /\ \A k \in 1..Len(attempts) : attempts'[k] = attempts[k]
           /\ \A c \in Concepts :
                  /\ Tally(attempts)[c].n <= Tally(attempts')[c].n
                  /\ Tally(attempts)[c].ok <= Tally(attempts')[c].ok
           /\ \A q, i, b : HasRow(q, i, b) => HasRow(q, i, b)'
           /\ \A k \in 0..Len(attempts) : SubSeq(attempts', 1, k) = SubSeq(attempts, 1, k)
<1>1. attempts \in Seq(Attempt)
  BY DEF TypeOK
<1>2. /\ attempts' \in Seq(Attempt) /\ Len(attempts) <= Len(attempts')
      /\ \A k \in 1..Len(attempts) : attempts'[k] = attempts[k]
  BY <1>1 DEF Grows
<1>3. \A c \in Concepts : Tally(attempts)[c].n \in Nat /\ Tally(attempts)[c].ok \in Nat
  BY <1>1, AggregateType DEF Count
<1>4. \A c \in Concepts :
          /\ Tally(attempts)[c].n <= Tally(attempts')[c].n
          /\ Tally(attempts)[c].ok <= Tally(attempts')[c].ok
  <2>1. CASE attempts' = attempts
    BY <1>3, <2>1
  <2>2. ASSUME NEW r \in Attempt, attempts' = Append(attempts, r), NEW c \in Concepts
        PROVE  /\ Tally(attempts)[c].n <= Tally(attempts')[c].n
               /\ Tally(attempts)[c].ok <= Tally(attempts')[c].ok
    <3>1. /\ Tally(attempts')[c].n =
                 Tally(attempts)[c].n + (IF r.concept = c THEN 1 ELSE 0)
          /\ Tally(attempts')[c].ok =
                 Tally(attempts)[c].ok + (IF r.concept = c /\ r.correct THEN 1 ELSE 0)
      BY <1>1, <2>2, TallyAppend
    <3> QED
      BY <1>3, <3>1
  <2> QED
    BY <2>1, <2>2 DEF Grows
<1>5. \A q, i, b : HasRow(q, i, b) => HasRow(q, i, b)'
  BY <1>1, <1>2 DEF HasRow
<1>6. \A k \in 0..Len(attempts) : SubSeq(attempts', 1, k) = SubSeq(attempts, 1, k)
  <2> SUFFICES ASSUME NEW k \in 0..Len(attempts)
               PROVE  SubSeq(attempts', 1, k) = SubSeq(attempts, 1, k)
    OBVIOUS
  <2>1. k \in 0..Len(attempts')
    BY <1>1, <1>2
  <2>2. /\ SubSeq(attempts, 1, k) = Restrict(attempts, 1..k)
        /\ SubSeq(attempts', 1, k) = Restrict(attempts', 1..k)
    BY <1>1, <1>2, <2>1, SubSeqRestrict
  <2>3. \A i \in 1..k : attempts'[i] = attempts[i]
    BY <1>1, <1>2
  <2> QED
    BY <2>2, <2>3 DEF Restrict
<1> QED
  BY <1>2, <1>4, <1>5, <1>6

LEMMA GoodThreadGrows ==
    ASSUME TypeOK, Grows, NEW p \in Thread, GoodThread(p)
    PROVE  GoodThread(p)'
<1>1. /\ attempts \in Seq(Attempt) /\ attempts' \in Seq(Attempt)
      /\ Len(attempts) <= Len(attempts')
  BY GrowsKept DEF TypeOK
<1>2. Covered(p)'
  <2>1. \A c \in Concepts :
            /\ p.snap.count[c].n \in Nat /\ p.snap.count[c].ok \in Nat
            /\ OwedN(p, c) \in {0, 1} /\ OwedOk(p, c) \in {0, 1}
            /\ Tally(attempts)[c] \in Count /\ Tally(attempts')[c] \in Count
    BY <1>1, AggregateType DEF Thread, Snapshot, Count, OwedN, OwedOk
  <2> SUFFICES ASSUME p.pc \in MemoryPcs, NEW c \in Concepts
               PROVE  /\ p.snap.count[c].n + OwedN(p, c) <= Tally(attempts')[c].n
                      /\ p.snap.count[c].ok + OwedOk(p, c) <= Tally(attempts')[c].ok
    BY DEF Covered, Owed, OwedN, OwedOk
  <2>2. /\ p.snap.count[c].n + OwedN(p, c) <= Tally(attempts)[c].n
        /\ p.snap.count[c].ok + OwedOk(p, c) <= Tally(attempts)[c].ok
    BY DEF GoodThread, Covered
  <2>3. /\ Tally(attempts)[c].n <= Tally(attempts')[c].n
        /\ Tally(attempts)[c].ok <= Tally(attempts')[c].ok
    BY GrowsKept
  <2>4. /\ Tally(attempts)[c].n \in Nat /\ Tally(attempts')[c].n \in Nat
        /\ Tally(attempts)[c].ok \in Nat /\ Tally(attempts')[c].ok \in Nat
    BY <2>1 DEF Count
  <2> QED
    BY <2>1, <2>2, <2>3, <2>4
<1>3. Inserted(p)'
  BY GrowsKept DEF GoodThread, Inserted
<1>4. Loaded(p)'
  BY <1>1, GrowsKept DEF GoodThread, Loaded, OfOneMoment
<1> QED
  BY <1>2, <1>3, <1>4 DEF GoodThread, WellPlaced

-----------------------------------------------------------------------------
\* One thread moves, the others stay.

Moves(c, p) ==
    /\ proc' \in [Clients -> Thread]
    /\ p \in Thread
    /\ proc'[c] = p
    /\ \A d \in Clients \ {c} : proc'[d] = proc[d]

LEMMA MoveThreads ==
    ASSUME Safe, Grows, NEW c \in Clients, NEW p, Moves(c, p), GoodThread(p)'
    PROVE  \A d \in Clients : GoodThread(proc[d])'
<1> SUFFICES ASSUME NEW d \in Clients PROVE GoodThread(proc[d])'
  OBVIOUS
<1>1. CASE d = c
  BY <1>1 DEF Moves, GoodThread, WellPlaced, Covered, Owed, OwedN, OwedOk, Inserted, Loaded
<1>2. CASE d # c
  <2>1. proc'[d] = proc[d] /\ proc[d] \in Thread /\ GoodThread(proc[d])
    BY <1>2 DEF Moves, Safe, TypeOK
  <2> DEFINE q == proc[d]
  <2>2. PICK r \in Thread : r = proc[d] /\ GoodThread(r)
    BY <2>1
  <2>3. GoodThread(r)'
    BY <2>2, GoodThreadGrows DEF Safe
  <2> QED
    BY <2>1, <2>2, <2>3 DEF GoodThread, WellPlaced, Covered, Owed, OwedN, OwedOk, Inserted, Loaded
<1> QED
  BY <1>1, <1>2

\* The files and the table, when a step leaves them or only adds an attempt.
LEMMA FilesGrow ==
    ASSUME Safe, Grows, UNCHANGED <<snapshot, results, table, advice>>
    PROVE  MasteryIsAttempted' /\ ResultsAreAttempted' /\ TableOK'
<1>1. /\ attempts \in Seq(Attempt) /\ attempts' \in Seq(Attempt)
      /\ Len(attempts) <= Len(attempts')
  BY GrowsKept DEF Safe, TypeOK
<1>2. MasteryIsAttempted'
  <2> SUFFICES ASSUME NEW c \in Concepts
               PROVE  /\ snapshot.count[c].n <= Tally(attempts')[c].n
                      /\ snapshot.count[c].ok <= Tally(attempts')[c].ok
    BY DEF MasteryIsAttempted
  <2>1. /\ snapshot.count[c].n <= Tally(attempts)[c].n
        /\ snapshot.count[c].ok <= Tally(attempts)[c].ok
    BY DEF Safe, MasteryIsAttempted
  <2>2. /\ Tally(attempts)[c].n <= Tally(attempts')[c].n
        /\ Tally(attempts)[c].ok <= Tally(attempts')[c].ok
    BY GrowsKept DEF Safe
  <2>3. snapshot.count[c] \in Count /\ Tally(attempts)[c] \in Count
        /\ Tally(attempts')[c] \in Count
    BY <1>1, AggregateType DEF Safe, TypeOK, Snapshot
  <2> QED
    BY <2>1, <2>2, <2>3 DEF Count
<1>3. ResultsAreAttempted'
  <2>1. \A q \in Quiz : \A i \in 1..Len(results[q]) : HasRow(q, i, results[q][i])
    BY DEF Safe, ResultsAreAttempted, HasRow
  <2>2. \A q \in Quiz : \A i \in 1..Len(results[q]) : HasRow(q, i, results[q][i])'
    <3> SUFFICES ASSUME NEW q \in Quiz, NEW i \in 1..Len(results[q])
                 PROVE  HasRow(q, i, results[q][i])'
      OBVIOUS
    <3>1. PICK b : b = results[q][i] /\ HasRow(q, i, b)
      BY <2>1
    <3>2. HasRow(q, i, b)'
      BY <3>1, GrowsKept DEF Safe
    <3> QED
      BY <3>1, <3>2 DEF HasRow
  <2> QED
    BY <2>2 DEF ResultsAreAttempted, HasRow
<1>4. TableOK'
  <2>1. PICK k \in 0..Len(attempts) :
            table = Aggregate(SubSeq(attempts, 1, k)) /\ advice = Weak(table)
    BY DEF Safe, TableOK
  <2>2. k \in 0..Len(attempts') /\ SubSeq(attempts', 1, k) = SubSeq(attempts, 1, k)
    BY <1>1, GrowsKept DEF Safe
  <2>3. table' = Aggregate(SubSeq(attempts', 1, k)) /\ advice' = Weak(table')
    BY <2>1, <2>2
  <2> QED
    BY <2>2, <2>3 DEF TableOK
<1> QED
  BY <1>2, <1>3, <1>4

\* The usual step: a thread goes on, and at most adds an attempt.
LEMMA MoveSafe ==
    ASSUME Safe, Grows, NEW c \in Clients, NEW p, Moves(c, p), GoodThread(p)',
           UNCHANGED <<snapshot, results, table, advice>>,
           session' \in [Quiz -> Seq(Concepts)], history' \in Seq(Entry),
           events' \in [EventType -> Nat], requests' \in 0..MaxRequest,
           serial' \in BOOLEAN, kills' = kills
    PROVE  Safe'
<1>1. TypeOK'
  BY GrowsKept DEF Safe, TypeOK, Moves
<1> QED
  BY <1>1, MoveThreads, FilesGrow DEF Safe

LEMMA FreeType ==
    /\ Free \in Thread /\ Free.pc = "idle" /\ NoSnapshot \in Snapshot /\ NoCounts \in [Concepts -> Count]
    /\ GoodThread(Free) /\ GoodThread(Free)'
<1>1. NoCounts \in [Concepts -> Count]
  BY DEF NoCounts, Count
<1>2. NoSnapshot \in Snapshot
  BY <1>1 DEF NoSnapshot, Snapshot
<1>3. Free \in Thread /\ Free.pc = "idle"
  BY <1>2, BoundsAssumption DEF Free, Thread, Pc, NoQuiz
<1>4. Free.pc = "idle"
  BY DEF Free
<1>5. GoodThread(Free) /\ GoodThread(Free)'
  BY <1>4 DEF GoodThread, WellPlaced, Covered, Inserted, Loaded, GradePcs, MemoryPcs, RemedyPcs, BuiltPcs
<1> QED
  BY <1>1, <1>2, <1>3, <1>5

LEMMA StartMoves ==
    ASSUME Safe, NEW c \in Clients, NEW p \in Thread, Start(c, p)
    PROVE  /\ Moves(c, p)
           /\ proc[c].pc = "idle"
           /\ requests' = requests + 1 /\ requests' \in 0..MaxRequest /\ requests' \in 1..MaxRequest
           /\ serial' \in BOOLEAN
BY BoundsAssumption DEF Start, Moves, Safe, TypeOK

LEMMA ReturnMoves == ASSUME Safe, NEW c \in Clients, Return(c) PROVE Moves(c, Free)
BY FreeType DEF Return, Moves, Safe, TypeOK

LEMMA GoOnMoves ==
    ASSUME Safe, NEW c \in Clients, NEW pc \in Pc, GoOn(c, pc)
    PROVE  \E p : /\ Moves(c, p) /\ p.pc = pc
                  /\ p.quiz = proc[c].quiz /\ p.asked = proc[c].asked
                  /\ p.graded = proc[c].graded /\ p.number = proc[c].number
                  /\ p.snap = proc[c].snap /\ p.prompts = proc[c].prompts
                  /\ p.list = proc[c].list /\ p.request = proc[c].request
                  /\ p.todo = proc[c].todo /\ p.prior = proc[c].prior
<1> DEFINE p == [proc[c] EXCEPT !.pc = pc]
<1>1. proc[c] \in Thread
  BY DEF Safe, TypeOK
<1>2. /\ p \in Thread /\ p.pc = pc
      /\ p.quiz = proc[c].quiz /\ p.asked = proc[c].asked
      /\ p.graded = proc[c].graded /\ p.number = proc[c].number
      /\ p.snap = proc[c].snap /\ p.prompts = proc[c].prompts
      /\ p.list = proc[c].list /\ p.request = proc[c].request
      /\ p.todo = proc[c].todo /\ p.prior = proc[c].prior
  BY <1>1 DEF Thread
<1>3. proc' = [proc EXCEPT ![c] = p]
  BY DEF GoOn
<1>4. Moves(c, p)
  BY <1>2, <1>3 DEF Moves, Safe, TypeOK
<1> HIDE DEF p
<1> QED
  BY <1>2, <1>4

-----------------------------------------------------------------------------
\* What each step makes of its thread.

LEMMA GradeMoves ==
    ASSUME Safe, NEW c \in Clients, NEW q \in Quiz, Grade(c, q)
    PROVE  \E p : /\ Moves(c, p) /\ p.pc = "count" /\ p.quiz = q /\ p.asked = session[q]
                  /\ p.graded = <<>> /\ p.snap = snapshot /\ 0 < Len(p.asked)
<1> DEFINE p == [Free EXCEPT !.pc = "count", !.quiz = q, !.asked = session[q], !.snap = snapshot]
<1>1. session[q] \in Seq(Concepts) /\ session[q] # <<>> /\ snapshot \in Snapshot
  BY DEF Grade, Safe, TypeOK
<1>2. /\ p \in Thread /\ p.pc = "count" /\ p.quiz = q /\ p.asked = session[q]
      /\ p.graded = Free.graded /\ p.snap = snapshot
  BY <1>1, FreeType DEF Thread, Pc, GradePcs, MemoryPcs
<1>3. Free.graded = <<>>
  BY DEF Free
<1>4. Start(c, p)
  BY DEF Grade
<1> HIDE DEF p
<1>5. Moves(c, p)
  BY <1>2, <1>4, StartMoves
<1> QED
  BY <1>1, <1>2, <1>3, <1>5

Earlier(s, q, i) == {k \in 1..Len(s) : s[k].quiz = q /\ s[k].index = i}

LEMMA CountMoves ==
    ASSUME Safe, NEW c \in Clients, CountAttempts(c)
    PROVE  \E p : \E correct \in BOOLEAN :
               /\ Moves(c, p) /\ p.pc = "insert" /\ p.quiz = proc[c].quiz
               /\ p.asked = proc[c].asked /\ p.graded = Append(proc[c].graded, correct)
               /\ p.snap = proc[c].snap
               /\ p.number = Cardinality(Earlier(attempts, p.quiz, Len(p.graded))) + 1
<1> DEFINE q == proc[c]
           n == Cardinality(Earlier(attempts, q.quiz, Len(q.graded) + 1)) + 1
<1>1. q \in Thread
  BY DEF Safe, TypeOK
<1>2. PICK correct \in BOOLEAN :
          proc' = [proc EXCEPT ![c].pc = "insert", ![c].graded = Append(@, correct), ![c].number = n]
  BY DEF CountAttempts, Earlier
<1>3. n \in Nat
  <2>1. attempts \in Seq(Attempt)
    BY DEF Safe, TypeOK
  <2>2. Earlier(attempts, q.quiz, Len(q.graded) + 1) \subseteq 1..Len(attempts)
    BY DEF Earlier
  <2> QED
    BY <2>1, <2>2, PartFinite
<1> DEFINE graded == Append(q.graded, correct)
<1>4. graded \in Seq(BOOLEAN) /\ Len(graded) = Len(q.graded) + 1
  BY <1>1 DEF Thread
<1> HIDE DEF n, graded
<1> DEFINE p == [q EXCEPT !.pc = "insert", !.graded = graded, !.number = n]
<1>5. /\ p \in Thread /\ p.pc = "insert" /\ p.quiz = q.quiz /\ p.asked = q.asked
      /\ p.graded = graded /\ p.snap = q.snap /\ p.number = n
  BY <1>1, <1>3, <1>4 DEF Thread, Pc, GradePcs, MemoryPcs
<1>6. proc' = [proc EXCEPT ![c] = p]
  BY <1>2 DEF graded
<1>7. Moves(c, p)
  BY <1>5, <1>6 DEF Moves, Safe, TypeOK
<1>8. n = Cardinality(Earlier(attempts, q.quiz, Len(graded))) + 1
  BY <1>4 DEF n
<1> HIDE DEF p
<1>9. p.graded = Append(proc[c].graded, correct)
  BY <1>5 DEF graded
<1>10. p.number = Cardinality(Earlier(attempts, p.quiz, Len(p.graded))) + 1
  BY <1>5, <1>8
<1> QED
  BY <1>5, <1>7, <1>9, <1>10

LEMMA UpdateMasteryCounts ==
    ASSUME NEW snap \in Snapshot, NEW d \in Concepts, NEW correct \in BOOLEAN
    PROVE  /\ UpdateMastery(snap, d, correct) \in Snapshot
           /\ \A c \in Concepts :
                  /\ UpdateMastery(snap, d, correct).count[c].n =
                         snap.count[c].n + (IF d = c THEN 1 ELSE 0)
                  /\ UpdateMastery(snap, d, correct).count[c].ok =
                         snap.count[c].ok + (IF d = c /\ correct THEN 1 ELSE 0)
<1> DEFINE one == [n |-> snap.count[d].n + 1,
                   ok |-> snap.count[d].ok + (IF correct THEN 1 ELSE 0)]
           count == [snap.count EXCEPT ![d] = one]
<1>1. snap.count \in [Concepts -> Count] /\ snap.wrong \in SUBSET Concepts
  BY DEF Snapshot
<1>2. one \in Count
  BY <1>1 DEF Count
<1>3. /\ count \in [Concepts -> Count]
      /\ \A c \in Concepts : count[c] = IF c = d THEN one ELSE snap.count[c]
  BY <1>1, <1>2
<1>4. \A c \in Concepts : snap.count[c].n \in Nat /\ snap.count[c].ok \in Nat
  BY <1>1 DEF Count
<1>5. UpdateMastery(snap, d, correct).count = count
  BY DEF UpdateMastery
<1>6. UpdateMastery(snap, d, correct) \in Snapshot
  BY <1>1, <1>3 DEF UpdateMastery, Snapshot
<1> HIDE DEF count
<1> QED
  BY <1>3, <1>4, <1>5, <1>6

LEMMA RecordMoves ==
    ASSUME Safe, NEW c \in Clients, RecordAnswer(c)
    PROVE  \E p : /\ Moves(c, p) /\ p.quiz = proc[c].quiz /\ p.asked = proc[c].asked
                  /\ p.graded = proc[c].graded
                  /\ p.pc = IF Len(p.graded) < Len(p.asked) THEN "count" ELSE "save_snapshot"
                  /\ p.snap = UpdateMastery(proc[c].snap, proc[c].asked[Len(proc[c].graded)],
                                            proc[c].graded[Len(proc[c].graded)])
<1> DEFINE q == proc[c]
           i == Len(q.graded)
           pc == IF i < Len(q.asked) THEN "count" ELSE "save_snapshot"
           snap == UpdateMastery(q.snap, q.asked[i], q.graded[i])
           p == [q EXCEPT !.pc = pc, !.snap = snap]
<1>1. q \in Thread /\ q.pc = "event" /\ WellPlaced(q)
  BY DEF RecordAnswer, Safe, TypeOK, GoodThread
<1>2. i \in 1..Len(q.asked) /\ i \in 1..Len(q.graded)
  BY <1>1 DEF WellPlaced, Thread
<1>3. q.snap \in Snapshot /\ q.asked[i] \in Concepts /\ q.graded[i] \in BOOLEAN
  BY <1>1, <1>2 DEF Thread
<1>4. snap \in Snapshot
  BY <1>3, UpdateMasteryCounts
<1>5. pc \in Pc
  BY DEF Pc, GradePcs, MemoryPcs
<1>6. proc' = [proc EXCEPT ![c] = p]
  BY DEF RecordAnswer
<1> HIDE DEF pc, snap
<1>7. /\ p \in Thread /\ p.pc = pc /\ p.quiz = q.quiz /\ p.asked = q.asked
      /\ p.graded = q.graded /\ p.snap = snap
  BY <1>1, <1>4, <1>5 DEF Thread
<1>8. Moves(c, p)
  BY <1>6, <1>7 DEF Moves, Safe, TypeOK
<1> HIDE DEF p
<1> QED
  BY <1>7, <1>8 DEF pc, snap

LEMMA PriorType == ASSUME Safe PROVE Prior \in SUBSET Signature
<1>1. \A e \in RangeOf(history) : e.prompts \in SUBSET Signature
  <2> SUFFICES ASSUME NEW i \in 1..Len(history) PROVE history[i].prompts \in SUBSET Signature
    BY DEF RangeOf
  <2>1. history[i] \in Entry
    BY DEF Safe, TypeOK
  <2> QED
    BY <2>1 DEF Entry
<1> QED
  BY <1>1 DEF Prior

LEMMA RemediateMoves ==
    ASSUME Safe, NEW c \in Clients, NEW named \in Named, Remediate(c, named)
    PROVE  \E p : /\ Moves(c, p) /\ p.pc = "concept" /\ p.request \in 1..MaxRequest
                  /\ p.todo # <<>> /\ p.prior = Prior
                  /\ proc[c].pc = "idle" /\ requests' \in 0..MaxRequest
<1> DEFINE p == [Free EXCEPT !.pc = "concept", !.request = requests + 1, !.todo = named,
                             !.prior = Prior]
<1>1. Start(c, p)
  BY DEF Remediate
<1>2. named \in Seq(Concepts) /\ named # <<>>
  <2>1. PICK n \in 1..MaxNamed : named \in [1..n -> Concepts]
    BY DEF Named
  <2>2. n \in Nat /\ n >= 1
    BY <2>1, BoundsAssumption
  <2>3. named \in Seq(Concepts) /\ Len(named) = n
    BY <2>1, <2>2
  <2> QED
    BY <2>2, <2>3
<1>3. requests + 1 \in 1..MaxRequest
  BY <1>1, BoundsAssumption DEF Start, Safe, TypeOK
<1>4. p \in Thread /\ p.pc = "concept" /\ p.request = requests + 1 /\ p.todo = named /\ p.prior = Prior
  <2>1. requests + 1 \in 0..MaxRequest /\ Prior \in SUBSET Signature
    BY <1>3, BoundsAssumption, PriorType
  <2> QED
    BY <1>2, <2>1, FreeType DEF Thread, Pc, RemedyPcs
<1> HIDE DEF p
<1>5. Moves(c, p) /\ proc[c].pc = "idle" /\ requests' \in 0..MaxRequest
  BY <1>1, <1>4, StartMoves
<1> QED
  BY <1>2, <1>3, <1>4, <1>5

LEMMA NextConceptMoves ==
    ASSUME Safe, NEW c \in Clients, NextConcept(c), proc[c].pc \in RemedyPcs
    PROVE  \E p : /\ Moves(c, p) /\ p.pc \in {"idle", "concept"} /\ WellPlaced(p)
                  /\ p.pc = "idle" => p = Free
                  /\ p.pc = "concept" => p.request = proc[c].request /\ p.prior = proc[c].prior
<1> DEFINE q == proc[c]
           r == [Free EXCEPT !.pc = "concept", !.request = q.request,
                             !.todo = Tail(q.todo), !.prior = q.prior]
<1>1. q \in Thread /\ q.request \in 1..MaxRequest /\ q.todo # <<>> /\ q.todo \in Seq(Concepts)
  BY DEF Safe, TypeOK, GoodThread, WellPlaced, Thread
<1>2. CASE Len(q.todo) = 1
  <2>1. Moves(c, Free)
    BY <1>2, FreeType DEF NextConcept, Moves, Safe, TypeOK
  <2> QED
    BY <2>1, FreeType DEF GoodThread
<1>3. CASE Len(q.todo) # 1
  <2>1. Tail(q.todo) \in Seq(Concepts) /\ Tail(q.todo) # <<>>
    <3>1. Len(q.todo) \in Nat /\ Len(q.todo) # 0
      BY <1>1
    <3>2. Tail(q.todo) \in Seq(Concepts) /\ Len(Tail(q.todo)) = Len(q.todo) - 1
      BY <1>1
    <3>3. Len(Tail(q.todo)) # 0
      BY <1>3, <3>1, <3>2
    <3>4. Len(<<>>) = 0
      OBVIOUS
    <3> QED
      BY ONLY <3>2, <3>3, <3>4
  <2>2. /\ r \in Thread /\ r.pc = "concept" /\ r.request = q.request /\ r.prior = q.prior
        /\ r.todo = Tail(q.todo)
    BY <1>1, <2>1, FreeType DEF Thread, Pc, RemedyPcs
  <2>3. proc' = [proc EXCEPT ![c] = r]
    BY <1>3 DEF NextConcept
  <2> HIDE DEF r
  <2>4. Moves(c, r)
    BY <2>2, <2>3 DEF Moves, Safe, TypeOK
  <2>5. WellPlaced(r)
    BY <1>1, <2>1, <2>2 DEF WellPlaced, RemedyPcs, BuiltPcs
  <2> QED
    BY <2>2, <2>4, <2>5
<1> QED
  BY <1>2, <1>3

LEMMA BuildMoves ==
    ASSUME Safe, NEW c \in Clients, BuildQuestions(c)
    PROVE  \E p : /\ Moves(c, p) /\ p.pc = "list_history" /\ WellPlaced(p)
                  /\ p.request = proc[c].request /\ p.prior = proc[c].prior
                  /\ p.prompts \subseteq ({Head(p.todo)} \X (1..MaxPrompt)) \ p.prior
<1> DEFINE q == proc[c]
           concept == Head(q.todo)
<1>1. /\ q \in Thread /\ q.pc = "concept" /\ q.request \in 1..MaxRequest
      /\ q.todo # <<>> /\ q.todo \in Seq(Concepts)
  BY DEF BuildQuestions, Safe, TypeOK, GoodThread, WellPlaced, Thread, RemedyPcs
<1>2. concept \in Concepts
  BY <1>1
<1>3. PICK new \in SUBSET (({concept} \X (1..MaxPrompt)) \ q.prior) :
          proc' = [proc EXCEPT ![c].pc = "list_history",
                               ![c].quiz = <<q.request, concept>>,
                               ![c].asked = [i \in 1..Cardinality(new) |-> concept],
                               ![c].prompts = new]
  BY DEF BuildQuestions
<1> DEFINE asked == [i \in 1..Cardinality(new) |-> concept]
           quiz == <<q.request, concept>>
           p == [q EXCEPT !.pc = "list_history", !.quiz = quiz, !.asked = asked, !.prompts = new]
<1>4. Cardinality(new) \in Nat
  <2>1. IsFiniteSet({concept}) /\ IsFiniteSet(1..MaxPrompt)
    <3>1. IsFiniteSet({concept})
      BY FS_Singleton
    <3>2. IsFiniteSet(1..MaxPrompt)
      BY BoundsAssumption, FS_Interval
    <3> QED
      BY <3>1, <3>2
  <2>2. IsFiniteSet({concept} \X (1..MaxPrompt))
    BY <2>1, FS_Product
  <2> QED
    BY <2>2, FS_Subset, FS_CardinalityType
<1>5. asked \in Seq(Concepts)
  BY <1>2, <1>4
<1>6. new \in SUBSET Signature
  BY <1>2 DEF Signature
<1>7. quiz \in Remedial /\ quiz \in Quiz
  BY <1>1, <1>2 DEF Remedial, Quiz
<1>8. proc' = [proc EXCEPT ![c] = p]
  BY <1>3
<1> HIDE DEF asked, quiz
<1>9. /\ p \in Thread /\ p.pc = "list_history" /\ p.quiz = quiz /\ p.prompts = new
      /\ p.request = q.request /\ p.prior = q.prior /\ p.todo = q.todo
  BY <1>1, <1>5, <1>6, <1>7 DEF Thread, Pc, RemedyPcs, BuiltPcs
<1> HIDE DEF p
<1>10. Moves(c, p)
  BY <1>8, <1>9 DEF Moves, Safe, TypeOK
<1>11. WellPlaced(p)
  BY <1>1, <1>7, <1>9 DEF WellPlaced, RemedyPcs, BuiltPcs, quiz
<1> QED
  BY <1>3, <1>9, <1>10, <1>11

LEMMA DeleteMoves ==
    ASSUME Safe, NEW c \in Clients, NEW q \in Quiz, DeleteQuiz(c, q)
    PROVE  \E p : Moves(c, p) /\ p.pc = "unlink_results" /\ p.quiz = q
<1> DEFINE p == [Free EXCEPT !.pc = "unlink_results", !.quiz = q]
<1>1. p \in Thread /\ p.pc = "unlink_results" /\ p.quiz = q
  BY FreeType DEF Thread, Pc
<1>2. Start(c, p)
  BY DEF DeleteQuiz
<1> HIDE DEF p
<1> QED
  BY <1>1, <1>2, StartMoves

LEMMA RefreshMoves ==
    ASSUME Safe, NEW c \in Clients, Refresh(c)
    PROVE  \E p : Moves(c, p) /\ p.pc = "store_table" /\ p.loaded = attempts
<1> DEFINE p == [Free EXCEPT !.pc = "store_table", !.loaded = attempts]
<1>1. p \in Thread /\ p.pc = "store_table" /\ p.loaded = attempts
  BY FreeType DEF Thread, Pc, Safe, TypeOK
<1>2. Start(c, p)
  BY DEF Refresh
<1> HIDE DEF p
<1> QED
  BY <1>1, <1>2, StartMoves

LEMMA ListMoves ==
    ASSUME Safe, NEW c \in Clients, ListHistory(c)
    PROVE  \E p : /\ Moves(c, p) /\ p.pc = "write_history" /\ p.quiz = proc[c].quiz
                  /\ p.prompts = proc[c].prompts /\ p.list = history
                  /\ p.request = proc[c].request /\ p.todo = proc[c].todo
                  /\ p.prior = proc[c].prior
<1> DEFINE p == [proc[c] EXCEPT !.pc = "write_history", !.list = history]
<1>1. proc[c] \in Thread /\ history \in Seq(Entry)
  BY DEF Safe, TypeOK
<1>2. /\ p \in Thread /\ p.pc = "write_history" /\ p.quiz = proc[c].quiz
      /\ p.prompts = proc[c].prompts /\ p.list = history
      /\ p.request = proc[c].request /\ p.todo = proc[c].todo /\ p.prior = proc[c].prior
  BY <1>1 DEF Thread, Pc, RemedyPcs, BuiltPcs
<1>3. proc' = [proc EXCEPT ![c] = p]
  BY DEF ListHistory
<1>4. Moves(c, p)
  BY <1>2, <1>3 DEF Moves, Safe, TypeOK
<1> HIDE DEF p
<1> QED
  BY <1>2, <1>4

-----------------------------------------------------------------------------
\* However requests overlap.

LEMMA StartSafe ==
    ASSUME Safe, NEW c \in Clients, NEW p0, Start(c, p0) PROVE requests' \in 0..MaxRequest /\ serial' \in BOOLEAN
BY BoundsAssumption DEF Start, Safe, TypeOK

LEMMA GradeSafe == ASSUME Safe, NEW c \in Clients, NEW q \in Quiz, Grade(c, q) PROVE Safe'
<1>1. PICK p : /\ Moves(c, p) /\ p.pc = "count" /\ p.quiz = q /\ p.asked = session[q]
               /\ p.graded = <<>> /\ p.snap = snapshot /\ 0 < Len(p.asked)
  BY GradeMoves
<1>2. UNCHANGED <<session, results, snapshot, history, attempts, events, table, advice, kills>>
  BY DEF Grade, files, rows
<1>3. WellPlaced(p)
  BY <1>1 DEF WellPlaced, RemedyPcs, BuiltPcs
<1>4. Covered(p)
  <2>1. \A d \in Concepts : OwedN(p, d) = 0 /\ OwedOk(p, d) = 0
    BY <1>1 DEF OwedN, OwedOk, Owed
  <2>2. \A d \in Concepts : snapshot.count[d].n \in Nat /\ snapshot.count[d].ok \in Nat
    BY DEF Safe, TypeOK, Snapshot, Count
  <2> QED
    BY <1>1, <2>1, <2>2 DEF Covered, Safe, MasteryIsAttempted
<1>5. Inserted(p) /\ Loaded(p)
  BY <1>1 DEF Inserted, Loaded
<1>6. p \in Thread /\ Grows
  BY <1>1, <1>2 DEF Moves, Grows
<1>7. GoodThread(p)'
  BY <1>3, <1>4, <1>5, <1>6, GoodThreadGrows DEF GoodThread, Safe
<1>8. requests' \in 0..MaxRequest /\ serial' \in BOOLEAN
  BY StartSafe DEF Grade
<1> QED
  BY <1>1, <1>2, <1>6, <1>7, <1>8, MoveSafe DEF Safe, TypeOK

LEMMA CountSafe == ASSUME Safe, NEW c \in Clients, CountAttempts(c) PROVE Safe'
<1>1. PICK p : \E correct \in BOOLEAN :
               /\ Moves(c, p) /\ p.pc = "insert" /\ p.quiz = proc[c].quiz
               /\ p.asked = proc[c].asked /\ p.graded = Append(proc[c].graded, correct)
               /\ p.snap = proc[c].snap
  BY CountMoves
<1>0. PICK correct \in BOOLEAN : p.graded = Append(proc[c].graded, correct)
  BY <1>1
<1>2. UNCHANGED <<session, results, snapshot, history, attempts, events, table, advice,
                  requests, serial, kills>>
  BY DEF CountAttempts, files, rows
<1>3. proc[c] \in Thread /\ GoodThread(proc[c]) /\ proc[c].pc = "count"
  BY DEF CountAttempts, Safe, TypeOK
<1>4. /\ Len(p.graded) = Len(proc[c].graded) + 1 /\ Len(proc[c].graded) \in Nat
      /\ \A i \in 1..Len(proc[c].graded) : p.graded[i] = proc[c].graded[i]
  BY <1>0, <1>3 DEF Thread
<1>5. WellPlaced(p)
  BY <1>1, <1>3, <1>4 DEF GoodThread, WellPlaced, RemedyPcs, BuiltPcs, Thread
<1>6. Covered(p)
  <2>1. \A d \in Concepts : /\ OwedN(p, d) = 0 /\ OwedOk(p, d) = 0
                            /\ OwedN(proc[c], d) = 0 /\ OwedOk(proc[c], d) = 0
    BY <1>1, <1>3 DEF OwedN, OwedOk, Owed
  <2> QED
    BY <1>1, <1>3, <2>1 DEF GoodThread, Covered, MemoryPcs
<1>7. Inserted(p) /\ Loaded(p)
  BY <1>1, <1>3, <1>4 DEF GoodThread, Inserted, Loaded, GradePcs, MemoryPcs
<1>8. p \in Thread /\ Grows
  BY <1>1, <1>2 DEF Moves, Grows
<1>9. GoodThread(p)'
  BY <1>5, <1>6, <1>7, <1>8, GoodThreadGrows DEF GoodThread, Safe
<1> QED
  BY <1>1, <1>2, <1>8, <1>9, MoveSafe DEF Safe, TypeOK

\* What is inserted, and what the thread owes for it.
LEMMA InsertMoves ==
    ASSUME Safe, NEW c \in Clients, InsertAttempt(c)
    PROVE  \E p : \E r \in Attempt :
               /\ Moves(c, p) /\ p.pc = "event" /\ p.quiz = proc[c].quiz
               /\ p.asked = proc[c].asked /\ p.graded = proc[c].graded /\ p.snap = proc[c].snap
               /\ attempts' = Append(attempts, r)
               /\ r.quiz = p.quiz /\ r.index = Len(p.graded) /\ r.number = proc[c].number
               /\ r.concept = p.asked[Len(p.graded)] /\ r.correct = p.graded[Len(p.graded)]
<1> DEFINE q == proc[c]
           r == Row(q, q.graded[Len(q.graded)])
<1>1. q \in Thread /\ WellPlaced(q) /\ q.pc = "insert"
  BY DEF InsertAttempt, Safe, TypeOK, GoodThread
<1>2. Len(q.graded) \in 1..Len(q.asked) /\ Len(q.graded) \in 1..Len(q.graded) /\ q.quiz \in Quiz
  BY <1>1 DEF WellPlaced, Thread
<1>3. r \in Attempt
  BY <1>1, <1>2 DEF Attempt, AnyRow, Row, Thread
<1>4. attempts' = Append(attempts, r)
  BY DEF InsertAttempt
<1>5. "event" \in Pc /\ GoOn(c, "event")
  BY DEF InsertAttempt, Pc, GradePcs, MemoryPcs
<1> QED
  <2>1. /\ r.quiz = q.quiz /\ r.index = Len(q.graded) /\ r.number = q.number
        /\ r.concept = q.asked[Len(q.graded)] /\ r.correct = q.graded[Len(q.graded)]
    BY DEF Row
  <2> HIDE DEF r
  <2> QED
    BY <1>3, <1>4, <1>5, <2>1, GoOnMoves

LEMMA InsertSafe == ASSUME Safe, NEW c \in Clients, InsertAttempt(c) PROVE Safe'
<1>1. PICK p : \E r \in Attempt :
               /\ Moves(c, p) /\ p.pc = "event" /\ p.quiz = proc[c].quiz
               /\ p.asked = proc[c].asked /\ p.graded = proc[c].graded /\ p.snap = proc[c].snap
               /\ attempts' = Append(attempts, r)
               /\ r.quiz = p.quiz /\ r.index = Len(p.graded) /\ r.number = proc[c].number
               /\ r.concept = p.asked[Len(p.graded)] /\ r.correct = p.graded[Len(p.graded)]
  BY InsertMoves
<1>2. PICK r \in Attempt :
          /\ attempts' = Append(attempts, r)
          /\ r.quiz = p.quiz /\ r.index = Len(p.graded)
          /\ r.concept = p.asked[Len(p.graded)] /\ r.correct = p.graded[Len(p.graded)]
  BY <1>1
<1>3. /\ Moves(c, p) /\ p.pc = "event" /\ p.quiz = proc[c].quiz
      /\ p.asked = proc[c].asked /\ p.graded = proc[c].graded /\ p.snap = proc[c].snap
  BY <1>1
<1>4. UNCHANGED <<session, results, snapshot, history, events, table, advice,
                  requests, serial, kills>>
  BY DEF InsertAttempt, files
<1>5. proc[c] \in Thread /\ GoodThread(proc[c]) /\ proc[c].pc = "insert"
  BY DEF InsertAttempt, Safe, TypeOK
<1>6. p \in Thread /\ Grows /\ attempts \in Seq(Attempt)
  BY <1>2, <1>3 DEF Moves, Grows, Safe, TypeOK
<1>7. WellPlaced(p)
  BY <1>3, <1>5 DEF GoodThread, WellPlaced, RemedyPcs, BuiltPcs, Thread
<1>8. Covered(p)'
  <2> SUFFICES ASSUME NEW d \in Concepts
               PROVE  /\ p.snap.count[d].n + OwedN(p, d) <= Tally(attempts')[d].n
                      /\ p.snap.count[d].ok + OwedOk(p, d) <= Tally(attempts')[d].ok
    BY DEF Covered, OwedN, OwedOk, Owed
  <2>1. /\ OwedN(p, d) = (IF r.concept = d THEN 1 ELSE 0)
        /\ OwedOk(p, d) = (IF r.concept = d /\ r.correct THEN 1 ELSE 0)
        /\ OwedN(proc[c], d) = 0 /\ OwedOk(proc[c], d) = 0
    BY <1>2, <1>3, <1>5 DEF OwedN, OwedOk, Owed
  <2>2. /\ p.snap.count[d].n + 0 <= Tally(attempts)[d].n
        /\ p.snap.count[d].ok + 0 <= Tally(attempts)[d].ok
    BY <1>3, <1>5, <2>1 DEF GoodThread, Covered, MemoryPcs
  <2>3. /\ p.snap.count[d].n \in Nat /\ p.snap.count[d].ok \in Nat
        /\ Tally(attempts)[d].n \in Nat /\ Tally(attempts)[d].ok \in Nat
    BY <1>6, AggregateType DEF Thread, Snapshot, Count
  <2>4. /\ Tally(attempts')[d].n = Tally(attempts)[d].n + OwedN(p, d)
        /\ Tally(attempts')[d].ok = Tally(attempts)[d].ok + OwedOk(p, d)
    BY <1>2, <1>6, <2>1, TallyAppend
  <2> QED
    BY <2>1, <2>2, <2>3, <2>4
<1>9. Inserted(p)' /\ Loaded(p)'
  <2> SUFFICES ASSUME NEW i \in 1..Len(p.graded) PROVE HasRow(p.quiz, i, p.graded[i])'
    BY <1>3 DEF Inserted, Loaded
  <2>1. CASE i = Len(p.graded)
    <3>1. Len(attempts) + 1 \in 1..Len(attempts') /\ attempts'[Len(attempts) + 1] = r
      BY <1>2, <1>6
    <3> QED
      BY <1>2, <2>1, <3>1 DEF HasRow
  <2>2. CASE i # Len(p.graded)
    <3>1. HasRow(p.quiz, i, p.graded[i])
      BY <1>3, <1>5, <2>2 DEF GoodThread, Inserted, GradePcs, MemoryPcs
    <3> QED
      BY <1>6, <3>1, GrowsKept DEF Safe
  <2> QED
    BY <2>1, <2>2
<1>10. GoodThread(p)'
  BY <1>7, <1>8, <1>9 DEF GoodThread, WellPlaced
<1> QED
  BY <1>3, <1>4, <1>6, <1>10, MoveSafe DEF Safe, TypeOK

LEMMA RecordSafe == ASSUME Safe, NEW c \in Clients, RecordAnswer(c) PROVE Safe'
<1> DEFINE q == proc[c]
           i == Len(q.graded)
<1>1. PICK p : /\ Moves(c, p) /\ p.quiz = q.quiz /\ p.asked = q.asked
               /\ p.graded = q.graded
               /\ p.pc = IF Len(p.graded) < Len(p.asked) THEN "count" ELSE "save_snapshot"
               /\ p.snap = UpdateMastery(q.snap, q.asked[i], q.graded[i])
  BY RecordMoves
<1>2. UNCHANGED <<session, results, snapshot, history, attempts, table, advice,
                  requests, serial, kills>>
  BY DEF RecordAnswer, files
<1>3. events' \in [EventType -> Nat]
  <2> DEFINE miss == IF q.graded[i] THEN 0 ELSE 1
  <2>1. /\ events \in [EventType -> Nat] /\ miss \in Nat
        /\ "question_submitted" \in EventType /\ "missed_question_saved" \in EventType
    BY DEF Safe, TypeOK, EventType
  <2>2. events' = [events EXCEPT !["question_submitted"] = @ + 1,
                                 !["missed_question_saved"] = @ + miss]
    BY DEF RecordAnswer
  <2> HIDE DEF miss
  <2> QED
    BY <2>1, <2>2
<1>4. q \in Thread /\ GoodThread(q) /\ q.pc = "event"
  BY DEF RecordAnswer, Safe, TypeOK
<1>5. i \in 1..Len(q.asked) /\ i \in 1..Len(q.graded)
  BY <1>4 DEF GoodThread, WellPlaced, Thread
<1>6. q.snap \in Snapshot /\ q.asked[i] \in Concepts /\ q.graded[i] \in BOOLEAN
  BY <1>4, <1>5 DEF Thread
<1>7. WellPlaced(p)
  BY <1>1, <1>4, <1>5 DEF GoodThread, WellPlaced, RemedyPcs, BuiltPcs, Thread
<1>8. Covered(p)
  <2> SUFFICES ASSUME NEW d \in Concepts
               PROVE  /\ p.snap.count[d].n + OwedN(p, d) <= Tally(attempts)[d].n
                      /\ p.snap.count[d].ok + OwedOk(p, d) <= Tally(attempts)[d].ok
    BY DEF Covered
  <2>1. OwedN(p, d) = 0 /\ OwedOk(p, d) = 0
    BY <1>1 DEF OwedN, OwedOk, Owed
  <2>2. /\ p.snap.count[d].n = q.snap.count[d].n + OwedN(q, d)
        /\ p.snap.count[d].ok = q.snap.count[d].ok + OwedOk(q, d)
    BY <1>1, <1>4, <1>6, UpdateMasteryCounts DEF OwedN, OwedOk, Owed
  <2>3. p.snap.count[d].n \in Nat /\ p.snap.count[d].ok \in Nat
    BY <1>1 DEF Moves, Thread, Snapshot, Count
  <2> QED
    BY <1>4, <2>1, <2>2, <2>3 DEF GoodThread, Covered, MemoryPcs
<1>9. Inserted(p) /\ Loaded(p)
  BY <1>1, <1>4 DEF GoodThread, Inserted, Loaded, GradePcs, MemoryPcs
<1>10. p \in Thread /\ Grows
  BY <1>1, <1>2 DEF Moves, Grows
<1>11. GoodThread(p)'
  BY <1>7, <1>8, <1>9, <1>10, GoodThreadGrows DEF GoodThread, Safe
<1> QED
  BY <1>1, <1>2, <1>3, <1>10, <1>11, MoveSafe DEF Safe, TypeOK

\* A thread outside of a grading has nothing to account for.
LEMMA PlainThread ==
    ASSUME NEW p, p.pc \notin GradePcs \cup {"store_table"}, WellPlaced(p)
    PROVE  GoodThread(p)'
BY DEF GoodThread, WellPlaced, Covered, Inserted, Loaded, GradePcs, MemoryPcs, RemedyPcs, BuiltPcs

\* A step that leaves attempts, snapshot, results and tables as they are.
LEMMA PlainSafe ==
    ASSUME Safe, NEW c \in Clients, NEW p, Moves(c, p),
           p.pc \notin GradePcs \cup {"store_table"}, WellPlaced(p),
           UNCHANGED <<attempts, snapshot, results, table, advice, kills>>,
           session' \in [Quiz -> Seq(Concepts)], history' \in Seq(Entry),
           events' \in [EventType -> Nat], requests' \in 0..MaxRequest,
           serial' \in BOOLEAN
    PROVE  Safe'
<1>1. Grows
  BY DEF Grows
<1>2. GoodThread(p)'
  BY PlainThread
<1> QED
  BY <1>1, <1>2, MoveSafe

LEMMA FreePlain == WellPlaced(Free) /\ Free.pc \notin GradePcs \cup {"store_table"}
BY FreeType DEF GoodThread, GradePcs, MemoryPcs

LEMMA SaveSnapshotSafe == ASSUME Safe, NEW c \in Clients, SaveSnapshot(c) PROVE Safe'
<1> DEFINE q == proc[c]
<1>1. "save_results" \in Pc /\ GoOn(c, "save_results") /\ snapshot' = q.snap
  BY DEF SaveSnapshot, Pc, GradePcs, MemoryPcs
<1>2. PICK p : Moves(c, p) /\ p.pc = "save_results" /\ p.quiz = q.quiz /\ p.graded = q.graded
  BY <1>1, GoOnMoves
<1>3. UNCHANGED <<session, results, history, attempts, events, table, advice,
                  requests, serial, kills>>
  BY DEF SaveSnapshot, rows
<1>4. q \in Thread /\ GoodThread(q) /\ q.pc = "save_snapshot"
  BY DEF SaveSnapshot, Safe, TypeOK
<1>5. p \in Thread /\ Grows
  BY <1>2, <1>3 DEF Moves, Grows
<1>6. WellPlaced(p) /\ Covered(p) /\ Inserted(p) /\ Loaded(p)
  BY <1>2, <1>4 DEF GoodThread, WellPlaced, Covered, Inserted, Loaded, GradePcs, MemoryPcs, RemedyPcs, BuiltPcs
<1>7. GoodThread(p)'
  BY <1>5, <1>6, GoodThreadGrows DEF GoodThread, Safe
<1>8. \A d \in Clients : GoodThread(proc[d])'
  BY <1>2, <1>5, <1>7, MoveThreads
<1>9. MasteryIsAttempted'
  <2> SUFFICES ASSUME NEW d \in Concepts
               PROVE  /\ q.snap.count[d].n <= Tally(attempts)[d].n
                      /\ q.snap.count[d].ok <= Tally(attempts)[d].ok
    BY <1>1, <1>3 DEF MasteryIsAttempted
  <2>1. OwedN(q, d) = 0 /\ OwedOk(q, d) = 0
    BY <1>4 DEF OwedN, OwedOk, Owed
  <2>2. q.snap.count[d].n \in Nat /\ q.snap.count[d].ok \in Nat
    BY <1>4 DEF Thread, Snapshot, Count
  <2> QED
    BY <1>4, <2>1, <2>2 DEF GoodThread, Covered, MemoryPcs
<1>10. ResultsAreAttempted' /\ TableOK'
  BY <1>3 DEF Safe, ResultsAreAttempted, TableOK
<1>11. TypeOK'
  BY <1>1, <1>2, <1>3, <1>4 DEF Moves, Thread, Safe, TypeOK
<1> QED
  BY <1>8, <1>9, <1>10, <1>11 DEF Safe

LEMMA SaveResultsSafe == ASSUME Safe, NEW c \in Clients, SaveResults(c) PROVE Safe'
<1> DEFINE q == proc[c]
<1>1. "complete" \in Pc /\ GoOn(c, "complete") /\ results' = [results EXCEPT ![q.quiz] = q.graded]
  BY DEF SaveResults, Pc, GradePcs, MemoryPcs
<1>2. PICK p : Moves(c, p) /\ p.pc = "complete" /\ p.quiz = q.quiz /\ p.graded = q.graded
  BY <1>1, GoOnMoves
<1>3. UNCHANGED <<session, snapshot, history, attempts, events, table, advice,
                  requests, serial, kills>>
  BY DEF SaveResults, rows
<1>4. q \in Thread /\ GoodThread(q) /\ q.pc = "save_results" /\ q.quiz \in Quiz
  BY DEF SaveResults, Safe, TypeOK, GoodThread, WellPlaced
<1>5. p \in Thread /\ Grows
  BY <1>2, <1>3 DEF Moves, Grows
<1>6. WellPlaced(p) /\ Covered(p) /\ Inserted(p) /\ Loaded(p)
  BY <1>2, <1>4 DEF GoodThread, WellPlaced, Covered, Inserted, Loaded, GradePcs, MemoryPcs, RemedyPcs, BuiltPcs
<1>7. GoodThread(p)'
  BY <1>5, <1>6, GoodThreadGrows DEF GoodThread, Safe
<1>8. \A d \in Clients : GoodThread(proc[d])'
  BY <1>2, <1>5, <1>7, MoveThreads
<1>9. /\ results' \in [Quiz -> Seq(BOOLEAN)] /\ results'[q.quiz] = q.graded
      /\ \A r \in Quiz \ {q.quiz} : results'[r] = results[r]
  BY <1>1, <1>4 DEF Thread, Safe, TypeOK
<1>10. ResultsAreAttempted'
  <2>1. \A i \in 1..Len(q.graded) : HasRow(q.quiz, i, q.graded[i])
    BY <1>4 DEF GoodThread, Inserted, GradePcs
  <2>2. \A r \in Quiz : \A i \in 1..Len(results[r]) : HasRow(r, i, results[r][i])
    BY DEF Safe, ResultsAreAttempted, HasRow
  <2>3. \A r \in Quiz : \A i \in 1..Len(results'[r]) : HasRow(r, i, results'[r][i])
    BY <1>9, <2>1, <2>2
  <2> QED
    BY <1>3, <2>3 DEF ResultsAreAttempted, HasRow
<1>11. MasteryIsAttempted' /\ TableOK'
  BY <1>3 DEF Safe, MasteryIsAttempted, TableOK
<1>12. TypeOK'
  BY <1>2, <1>3, <1>9 DEF Moves, Safe, TypeOK
<1> QED
  BY <1>8, <1>10, <1>11, <1>12 DEF Safe

LEMMA CompleteSafe == ASSUME Safe, NEW c \in Clients, CompleteQuiz(c) PROVE Safe'
<1>1. Moves(c, Free)
  BY ReturnMoves DEF CompleteQuiz
<1>2. events' \in [EventType -> Nat]
  BY DEF CompleteQuiz, Report, Safe, TypeOK, EventType
<1> QED
  BY <1>1, <1>2, FreePlain, PlainSafe DEF CompleteQuiz, files, Safe, TypeOK

LEMMA DeleteSafe == ASSUME Safe, NEW c \in Clients, NEW q \in Quiz, DeleteQuiz(c, q) PROVE Safe'
<1>1. PICK p : Moves(c, p) /\ p.pc = "unlink_results" /\ p.quiz = q
  BY DeleteMoves
<1>2. WellPlaced(p) /\ p.pc \notin GradePcs \cup {"store_table"}
  BY <1>1 DEF WellPlaced, GradePcs, MemoryPcs, RemedyPcs, BuiltPcs
<1>3. session' \in [Quiz -> Seq(Concepts)]
  BY DEF DeleteQuiz, Safe, TypeOK
<1>4. requests' \in 0..MaxRequest /\ serial' \in BOOLEAN
  BY StartSafe DEF DeleteQuiz
<1> QED
  BY <1>1, <1>2, <1>3, <1>4, PlainSafe DEF DeleteQuiz, rows, Safe, TypeOK

LEMMA UnlinkSafe == ASSUME Safe, NEW c \in Clients, UnlinkResults(c) PROVE Safe'
<1> DEFINE q == proc[c].quiz
<1>1. Moves(c, Free) /\ results' = [results EXCEPT ![q] = <<>>]
  BY ReturnMoves DEF UnlinkResults
<1>2. UNCHANGED <<session, snapshot, history, attempts, events, table, advice,
                  requests, serial, kills>>
  BY DEF UnlinkResults, rows
<1>3. Grows /\ GoodThread(Free)'
  BY <1>2, FreeType DEF Grows
<1>4. \A d \in Clients : GoodThread(proc[d])'
  BY <1>1, <1>3, FreePlain, MoveThreads, PlainThread
<1>5. /\ results' \in [Quiz -> Seq(BOOLEAN)]
      /\ \A r \in Quiz : results'[r] = results[r] \/ results'[r] = <<>>
  <2>1. results \in [Quiz -> Seq(BOOLEAN)] /\ <<>> \in Seq(BOOLEAN)
    BY DEF Safe, TypeOK
  <2>2. q \in Quiz
    BY DEF UnlinkResults, Safe, GoodThread, WellPlaced
  <2> QED
    BY <1>1, <2>1, <2>2
<1>6. ResultsAreAttempted'
  BY <1>2, <1>5 DEF Safe, ResultsAreAttempted
<1>7. MasteryIsAttempted' /\ TableOK'
  BY <1>2 DEF Safe, MasteryIsAttempted, TableOK
<1>8. TypeOK'
  BY <1>1, <1>2, <1>5 DEF Moves, Safe, TypeOK
<1> QED
  BY <1>4, <1>6, <1>7, <1>8 DEF Safe

LEMMA RefreshSafe == ASSUME Safe, NEW c \in Clients, Refresh(c) PROVE Safe'
<1>1. PICK p : Moves(c, p) /\ p.pc = "store_table" /\ p.loaded = attempts
  BY RefreshMoves
<1>2. UNCHANGED <<session, results, snapshot, history, attempts, events, table, advice, kills>>
  BY DEF Refresh, files, rows
<1>3. WellPlaced(p) /\ Covered(p) /\ Inserted(p)
  BY <1>1 DEF WellPlaced, Covered, Inserted, GradePcs, MemoryPcs, RemedyPcs, BuiltPcs
<1>4. Loaded(p)
  <2>1. attempts \in Seq(Attempt)
    BY DEF Safe, TypeOK
  <2>2. Len(attempts) \in 0..Len(attempts) /\ SubSeq(attempts, 1, Len(attempts)) = attempts
    BY <2>1, SubSeqFull
  <2> QED
    BY <1>1, <2>2 DEF Loaded, OfOneMoment
<1>5. p \in Thread /\ Grows
  BY <1>1, <1>2 DEF Moves, Grows
<1>6. GoodThread(p)'
  BY <1>3, <1>4, <1>5, GoodThreadGrows DEF GoodThread, Safe
<1>7. requests' \in 0..MaxRequest /\ serial' \in BOOLEAN
  BY StartSafe DEF Refresh
<1> QED
  BY <1>1, <1>2, <1>5, <1>6, <1>7, MoveSafe DEF Safe, TypeOK

LEMMA StoreTableSafe == ASSUME Safe, NEW c \in Clients, StoreTable(c) PROVE Safe'
<1> DEFINE loaded == proc[c].loaded
<1>1. Moves(c, Free) /\ table' = Aggregate(loaded) /\ advice' = Weak(Aggregate(loaded))
  BY ReturnMoves DEF StoreTable
<1>2. UNCHANGED <<session, results, snapshot, history, attempts, events, requests, serial, kills>>
  BY DEF StoreTable, files
<1>3. Grows /\ GoodThread(Free)'
  BY <1>2, FreeType DEF Grows
<1>4. \A d \in Clients : GoodThread(proc[d])'
  BY <1>1, <1>3, FreePlain, MoveThreads, PlainThread
<1>5. loaded \in Seq(Attempt) /\ OfOneMoment(loaded)
  BY DEF StoreTable, Safe, TypeOK, Thread, GoodThread, Loaded
<1>6. TableOK'
  BY <1>1, <1>2, <1>5 DEF TableOK, OfOneMoment
<1>7. MasteryIsAttempted' /\ ResultsAreAttempted'
  BY <1>2 DEF Safe, MasteryIsAttempted, ResultsAreAttempted
<1>8. table' \in [Concepts -> Count] /\ advice' \in SUBSET Concepts
  BY <1>1, <1>5, AggregateType DEF Weak
<1>9. TypeOK'
  BY <1>1, <1>2, <1>8 DEF Moves, Safe, TypeOK
<1> QED
  BY <1>4, <1>6, <1>7, <1>9 DEF Safe

LEMMA RemediateSafe ==
    ASSUME Safe, NEW c \in Clients, NEW named \in Named, Remediate(c, named) PROVE Safe'
<1>1. PICK p : /\ Moves(c, p) /\ p.pc = "concept" /\ p.request \in 1..MaxRequest
               /\ p.todo # <<>> /\ requests' \in 0..MaxRequest
  BY RemediateMoves
<1>2. WellPlaced(p) /\ p.pc \notin GradePcs \cup {"store_table"}
  BY <1>1 DEF WellPlaced, GradePcs, MemoryPcs, RemedyPcs, BuiltPcs
<1>3. serial' \in BOOLEAN
  BY DEF Remediate, Start
<1> QED
  BY <1>1, <1>2, <1>3, PlainSafe DEF Remediate, files, rows, Safe, TypeOK

LEMMA SkipSafe == ASSUME Safe, NEW c \in Clients, SkipConcept(c) PROVE Safe'
<1>1. PICK p : Moves(c, p) /\ p.pc \in {"idle", "concept"} /\ WellPlaced(p)
  BY NextConceptMoves DEF SkipConcept, RemedyPcs
<1>2. p.pc \notin GradePcs \cup {"store_table"}
  BY <1>1 DEF GradePcs, MemoryPcs
<1> QED
  BY <1>1, <1>2, PlainSafe DEF SkipConcept, files, rows, Safe, TypeOK

LEMMA BuildSafe == ASSUME Safe, NEW c \in Clients, BuildQuestions(c) PROVE Safe'
<1>1. PICK p : Moves(c, p) /\ p.pc = "list_history" /\ WellPlaced(p)
  BY BuildMoves
<1>2. p.pc \notin GradePcs \cup {"store_table"}
  BY <1>1 DEF GradePcs, MemoryPcs
<1> QED
  BY <1>1, <1>2, PlainSafe DEF BuildQuestions, files, rows, Safe, TypeOK

LEMMA ListSafe == ASSUME Safe, NEW c \in Clients, ListHistory(c) PROVE Safe'
<1>1. PICK p : /\ Moves(c, p) /\ p.pc = "write_history" /\ p.quiz = proc[c].quiz
               /\ p.request = proc[c].request /\ p.todo = proc[c].todo
  BY ListMoves
<1>2. proc[c].pc = "list_history" /\ WellPlaced(proc[c])
  BY DEF ListHistory, Safe, GoodThread
<1>3. WellPlaced(p) /\ p.pc \notin GradePcs \cup {"store_table"}
  BY <1>1, <1>2 DEF WellPlaced, GradePcs, MemoryPcs, RemedyPcs, BuiltPcs
<1> QED
  BY <1>1, <1>3, PlainSafe DEF ListHistory, files, rows, Safe, TypeOK

LEMMA WriteSafe == ASSUME Safe, NEW c \in Clients, WriteHistory(c) PROVE Safe'
<1>1. "save_session" \in Pc /\ GoOn(c, "save_session")
  BY DEF WriteHistory, Pc, RemedyPcs, BuiltPcs
<1>2. PICK p : /\ Moves(c, p) /\ p.pc = "save_session" /\ p.quiz = proc[c].quiz
               /\ p.request = proc[c].request /\ p.todo = proc[c].todo
  BY <1>1, GoOnMoves
<1>3. proc[c].pc = "write_history" /\ WellPlaced(proc[c]) /\ proc[c] \in Thread
  BY DEF WriteHistory, Safe, TypeOK, GoodThread
<1>4. WellPlaced(p) /\ p.pc \notin GradePcs \cup {"store_table"}
  BY <1>2, <1>3 DEF WellPlaced, GradePcs, MemoryPcs, RemedyPcs, BuiltPcs
<1>5. proc[c].quiz \in Remedial
  BY <1>3 DEF WellPlaced, BuiltPcs
<1>6. history' \in Seq(Entry)
  BY <1>3, <1>5 DEF WriteHistory, Thread, Entry
<1> QED
  BY <1>2, <1>4, <1>6, PlainSafe DEF WriteHistory, rows, Safe, TypeOK

LEMMA SaveSessionSafe == ASSUME Safe, NEW c \in Clients, SaveSession(c) PROVE Safe'
<1>1. PICK p : Moves(c, p) /\ p.pc \in {"idle", "concept"} /\ WellPlaced(p)
  BY NextConceptMoves DEF SaveSession, RemedyPcs, BuiltPcs
<1>2. p.pc \notin GradePcs \cup {"store_table"}
  BY <1>1 DEF GradePcs, MemoryPcs
<1>3. session' \in [Quiz -> Seq(Concepts)]
  BY DEF SaveSession, Safe, TypeOK, Thread
<1> QED
  BY <1>1, <1>2, <1>3, PlainSafe DEF SaveSession, rows, Safe, TypeOK

LEMMA KillSafe == ASSUME Safe, Kill PROVE Safe'
<1>1. UNCHANGED <<session, results, snapshot, history, attempts, events, table, advice, requests>>
  BY DEF Kill, files, rows
<1>2. \A d \in Clients : GoodThread(proc[d])'
  <2>1. \A d \in Clients : proc'[d] = Free
    BY DEF Kill
  <2> QED
    BY <2>1, FreePlain DEF GoodThread, WellPlaced, Covered, Inserted, Loaded, GradePcs, MemoryPcs
<1>3. MasteryIsAttempted' /\ ResultsAreAttempted' /\ TableOK'
  BY <1>1 DEF Safe, MasteryIsAttempted, ResultsAreAttempted, TableOK
<1>4. proc' \in [Clients -> Thread] /\ serial' \in BOOLEAN /\ kills' \in 0..MaxKill
  <2>1. proc' \in [Clients -> Thread]
    BY FreeType DEF Kill
  <2>2. kills' \in 0..MaxKill
    BY BoundsAssumption DEF Kill, Safe, TypeOK
  <2> QED
    BY <2>1, <2>2 DEF Kill
<1>5. TypeOK'
  BY <1>1, <1>4 DEF Safe, TypeOK
<1> QED
  BY <1>2, <1>3, <1>5 DEF Safe

LEMMA InitSafe == Init => Safe
<1> SUFFICES ASSUME Init PROVE Safe
  OBVIOUS
<1>1. \A q \in Quizzes : Asks[q] \in Seq(Concepts)
  BY QuizzesAssumption
<1>2. TypeOK
  BY <1>1, FreeType, BoundsAssumption DEF Init, TypeOK
<1>3. \A c \in Clients : GoodThread(proc[c])
  BY FreeType DEF Init
<1>4. MasteryIsAttempted /\ ResultsAreAttempted
  BY AggregateEmpty DEF Init, NoSnapshot, NoCounts, MasteryIsAttempted, ResultsAreAttempted
<1>5. TableOK
  <2>1. SubSeq(<<>>, 1, 0) = <<>> /\ Len(<<>>) = 0
    BY SubSeqEmpty
  <2>2. /\ 0 \in 0..Len(attempts)
        /\ table = Aggregate(SubSeq(attempts, 1, 0)) /\ advice = Weak(table)
    <3>1. attempts = <<>> /\ table = NoCounts /\ advice = {}
      BY DEF Init
    <3>2. 0 \in 0..Len(attempts)
      BY <2>1, <3>1
    <3>3. SubSeq(attempts, 1, 0) = <<>>
      BY <2>1, <3>1
    <3> QED
      BY <3>1, <3>2, <3>3, AggregateEmpty
  <2> QED
    BY <2>2 DEF TableOK
<1> QED
  BY <1>2, <1>3, <1>4, <1>5 DEF Safe

LEMMA NextSafe == Safe /\ [Next]_vars => Safe'
<1> SUFFICES ASSUME Safe, [Next]_vars PROVE Safe'
  OBVIOUS
<1>1. ASSUME NEW c \in Clients, Step(c) PROVE Safe'
  BY <1>1, CountSafe, InsertSafe, RecordSafe, SaveSnapshotSafe, SaveResultsSafe, CompleteSafe,
     UnlinkSafe, StoreTableSafe, SkipSafe, BuildSafe, ListSafe, WriteSafe, SaveSessionSafe DEF Step
<1>2. CASE UNCHANGED vars
  BY <1>2 DEF vars, files, rows, Safe, TypeOK, GoodThread, WellPlaced, Covered, Owed, OwedN, OwedOk,
     Inserted, HasRow, Loaded, OfOneMoment, MasteryIsAttempted, ResultsAreAttempted,
     TableOK
<1> QED
  BY <1>1, <1>2, GradeSafe, DeleteSafe, RefreshSafe, RemediateSafe, KillSafe DEF Next

LEMMA SafeAlways == Spec => []Safe
<1> QED
  BY InitSafe, NextSafe, PTL DEF Spec

\* Every row has its types, and every thread carries what its position needs.
THEOREM TypeCorrect == Spec => []TypeOK
<1>1. Safe => TypeOK
  BY DEF Safe
<1> QED
  BY <1>1, SafeAlways, PTL

\* Whatever gradings overlap and overwrite each other's snapshot, it counts no answer
\* that is not in the attempts.
THEOREM SnapshotCountsAttempts == Spec => []MasteryIsAttempted
<1>1. Safe => MasteryIsAttempted
  BY DEF Safe
<1> QED
  BY <1>1, SafeAlways, PTL

\* The stored results of a quiz are those of a grading that recorded each answer first.
THEOREM ResultsHaveRows == Spec => []ResultsAreAttempted
<1>1. Safe => ResultsAreAttempted
  BY DEF Safe
<1> QED
  BY <1>1, SafeAlways, PTL

\* The mastery table and the advice are the aggregate of a prefix of the attempts, the
\* same one for both, although a refresh may be overtaken by gradings and other refreshes.
THEOREM TablesAreOfOneMoment == Spec => []TableIsOfOneMoment
<1>1. Safe => TableIsOfOneMoment
  <2> SUFFICES ASSUME Safe PROVE TableIsOfOneMoment
    OBVIOUS
  <2>1. PICK k \in 0..Len(attempts) :
            table = Aggregate(SubSeq(attempts, 1, k)) /\ advice = Weak(table)
    BY DEF Safe, TableOK
  <2> DEFINE s == SubSeq(attempts, 1, k)
             Given(c) == {i \in 1..k : attempts[i].concept = c /\ attempts[i].quiz \in Quizzes}
  <2>2. attempts \in Seq(Attempt) /\ Len(attempts) \in Nat
    BY DEF Safe, TypeOK
  <2>3. Len(s) = k /\ \A i \in 1..k : s[i] = attempts[i]
    BY <2>1, <2>2
  <2>4. \A i \in 1..k : attempts[i].course <=> attempts[i].quiz \in Quizzes
    <3>1. \A i \in 1..k : attempts[i] \in Attempt
      BY <2>1, <2>2
    <3> QED
      BY <3>1 DEF Attempt
  <2> HIDE DEF s
  <2>5. ASSUME NEW c \in Concepts
        PROVE  /\ About(s, c) \cap OfCourse(s) = Given(c)
               /\ Correct(s, c) \cap OfCourse(s) = {i \in Given(c) : attempts[i].correct}
    BY <2>3, <2>4 DEF About, Correct, OfCourse
  <2>6. \A c \in Concepts :
            /\ table[c].n = Cardinality(Given(c))
            /\ table[c].ok = Cardinality({i \in Given(c) : attempts[i].correct})
    BY <2>1, <2>5 DEF Aggregate, s
  <2> QED
    BY <2>1, <2>6 DEF TableIsOfOneMoment
<1> QED
  BY <1>1, SafeAlways, PTL

-----------------------------------------------------------------------------
\* One request at a time.

Solo == \A c \in Clients, d \in Clients : proc[c].pc # "idle" /\ proc[d].pc # "idle" => c = d

\* How the files, the tables and the rows compare when the busy thread is at p.
Settled(p) ==
    /\ p.pc \notin MemoryPcs => snapshot.count = Tally(attempts)
    /\ p.pc \in MemoryPcs => \A c \in Concepts :
           /\ p.snap.count[c].n + OwedN(p, c) = Tally(attempts)[c].n
           /\ p.snap.count[c].ok + OwedOk(p, c) = Tally(attempts)[c].ok
    /\ events["question_submitted"] + (IF p.pc = "event" THEN 1 ELSE 0) = Len(attempts)

Numbered(p) ==
    p.pc = "insert" => p.number = Cardinality(Earlier(attempts, p.quiz, Len(p.graded))) + 1

Recorded(q) == \E k \in 1..Len(history) : history[k].quiz = q

\* What a request found in the history is all there is but its own entries.
Remembered(p) ==
    /\ p.pc \in RemedyPcs => \A k \in 1..Len(history) :
           history[k].quiz[1] # p.request => history[k].prompts \subseteq p.prior
    /\ p.pc \in {"list_history", "write_history"} =>
           p.prompts \subseteq ({Head(p.todo)} \X (1..MaxPrompt)) \ p.prior
    /\ p.pc = "write_history" => p.list = history
    /\ p.pc = "save_session" => Recorded(p.quiz)

ExactWith(p) == Settled(p) /\ Numbered(p) /\ Remembered(p)

Precedes(i, j) ==
    i < j /\ attempts[i].quiz = attempts[j].quiz /\ attempts[i].index = attempts[j].index

\* What no position of a thread matters for.
Numbers ==
    /\ \A k \in 1..Len(attempts) :
           attempts[k].number <=
               Cardinality(Earlier(attempts, attempts[k].quiz, attempts[k].index))
    /\ \A i \in 1..Len(attempts), j \in 1..Len(attempts) :
           Precedes(i, j) => attempts[i].number < attempts[j].number

Memories ==
    /\ \A k \in 1..Len(history) :
           history[k].prompts \subseteq {history[k].quiz[2]} \X (1..MaxPrompt)
    /\ \A i \in 1..Len(history), j \in 1..Len(history) :
           history[i].quiz # history[j].quiz => history[i].prompts \cap history[j].prompts = {}
    /\ \A q \in Remedial : session[q] # <<>> => Recorded(q)

Exact ==
    serial =>
        /\ Solo
        /\ Numbers
        /\ Memories
        /\ \A c \in Clients : proc[c].pc # "idle" => ExactWith(proc[c])
        /\ Quiet => ExactWith(Free)

\* A serial step of a busy thread finds the others idle.
LEMMA BusyAlone ==
    ASSUME Exact, serial, NEW c \in Clients, proc[c].pc # "idle"
    PROVE  /\ Numbers /\ Memories /\ ExactWith(proc[c])
           /\ \A d \in Clients \ {c} : proc[d].pc = "idle"
BY DEF Exact, Solo

\* So does a serial request.
LEMMA StartAlone ==
    ASSUME Exact, NEW c \in Clients, NEW p0, Start(c, p0), serial'
    PROVE  /\ serial /\ Numbers /\ Memories /\ ExactWith(Free)
           /\ \A d \in Clients \ {c} : proc[d].pc = "idle"
BY DEF Exact, Start, Quiet

LEMMA MoveExact ==
    ASSUME Safe, NEW c \in Clients, NEW p, Moves(c, p),
           p.pc = "idle" => p = Free,
           serial' => /\ \A d \in Clients \ {c} : proc[d].pc = "idle"
                      /\ Numbers' /\ Memories' /\ ExactWith(p)'
    PROVE  Exact'
<1> SUFFICES ASSUME serial'
             PROVE  /\ Solo'
                    /\ Numbers' /\ Memories'
                    /\ \A d \in Clients : proc'[d].pc # "idle" => ExactWith(proc[d])'
                    /\ Quiet' => ExactWith(Free)'
  BY DEF Exact
<1>1. \A d \in Clients \ {c} : proc'[d].pc = "idle"
  BY DEF Moves
<1>2. ExactWith(proc[c])'
  BY DEF Moves, ExactWith, Settled, Owed, OwedN, OwedOk, Numbered, Remembered
<1>3. Quiet' => ExactWith(Free)'
  <2>1. ASSUME Quiet' PROVE p = Free
    BY <2>1 DEF Quiet, Moves
  <2>2. ASSUME p = Free PROVE ExactWith(Free)'
    BY <2>2 DEF ExactWith, Settled, Owed, OwedN, OwedOk, Numbered, Remembered, Recorded, Free
  <2> QED
    BY <2>1, <2>2
<1> QED
  BY <1>1, <1>2, <1>3 DEF Solo

\* What a step that leaves a part alone keeps of it.
LEMMA NumbersKept == ASSUME Numbers, UNCHANGED attempts PROVE Numbers'
BY DEF Numbers, Precedes

LEMMA MemoriesKept == ASSUME Memories, UNCHANGED <<session, history>> PROVE Memories'
BY DEF Memories, Recorded

\* A thread that has nothing to count, number or remember.
LEMMA SettledPlain ==
    ASSUME NEW p, p.pc \notin MemoryPcs, snapshot.count = Tally(attempts),
           events["question_submitted"] = Len(attempts), attempts \in Seq(Attempt),
           UNCHANGED <<snapshot, attempts>>,
           events'["question_submitted"] = events["question_submitted"]
    PROVE  Settled(p)' /\ Numbered(p)'
<1>1. Len(attempts) \in Nat
  OBVIOUS
<1>2. p.pc # "event" /\ p.pc # "insert"
  BY DEF MemoryPcs
<1> QED
  BY <1>1, <1>2 DEF Settled, Numbered

LEMMA SettledFree ==
    ASSUME Safe, NEW p, p.pc \notin MemoryPcs, ExactWith(p)
    PROVE  /\ snapshot.count = Tally(attempts)
           /\ events["question_submitted"] = Len(attempts)
<1>1. events["question_submitted"] \in Nat
  BY DEF Safe, TypeOK, EventType
<1>2. p.pc # "event"
  BY DEF MemoryPcs
<1> QED
  BY <1>1, <1>2 DEF ExactWith, Settled

LEMMA FreeIdle == Free.pc = "idle" /\ Free.pc \notin MemoryPcs /\ Remembered(Free)'
BY FreeType DEF MemoryPcs, Remembered, RemedyPcs, BuiltPcs

\* A step outside of gradings, whose thread has nothing to remember afterwards.
LEMMA PlainExact ==
    ASSUME Safe, Exact, NEW c \in Clients, NEW p, Moves(c, p),
           p.pc = "idle" => p = Free, p.pc \notin MemoryPcs,
           UNCHANGED <<snapshot, attempts, serial>>,
           events'["question_submitted"] = events["question_submitted"],
           proc[c].pc \notin MemoryPcs \cup {"idle"},
           serial => Memories' /\ Remembered(p)'
    PROVE  Exact'
<1>1. ASSUME serial
      PROVE  /\ \A d \in Clients \ {c} : proc[d].pc = "idle"
             /\ Numbers' /\ ExactWith(p)'
  <2>1. /\ Numbers /\ ExactWith(proc[c])
        /\ \A d \in Clients \ {c} : proc[d].pc = "idle"
    BY <1>1, BusyAlone
  <2>2. PICK q : q = proc[c] /\ ExactWith(q)
    BY <2>1
  <2>3. /\ snapshot.count = Tally(attempts)
        /\ events["question_submitted"] = Len(attempts)
    BY <2>2, SettledFree
  <2>4. Settled(p)' /\ Numbered(p)'
    BY <2>3, SettledPlain DEF Safe, TypeOK
  <2> QED
    BY <1>1, <2>1, <2>4, NumbersKept DEF ExactWith
<1> QED
  BY <1>1, MoveExact

\* A request that is no grading begins.
LEMMA StartExact ==
    ASSUME Safe, Exact, NEW c \in Clients, NEW p, Moves(c, p), NEW p0, Start(c, p0),
           p.pc \notin MemoryPcs \cup {"idle"},
           UNCHANGED <<snapshot, attempts, events>>,
           serial' => Memories' /\ Remembered(p)'
    PROVE  Exact'
<1>1. ASSUME serial'
      PROVE  /\ \A d \in Clients \ {c} : proc[d].pc = "idle"
             /\ Numbers' /\ ExactWith(p)'
  <2>1. /\ Numbers /\ ExactWith(Free)
        /\ \A d \in Clients \ {c} : proc[d].pc = "idle"
    BY <1>1, StartAlone
  <2>2. /\ snapshot.count = Tally(attempts)
        /\ events["question_submitted"] = Len(attempts)
    BY <2>1, FreeIdle, SettledFree
  <2>3. Settled(p)' /\ Numbered(p)'
    BY <2>2, SettledPlain DEF Safe, TypeOK
  <2> QED
    BY <1>1, <2>1, <2>3, NumbersKept DEF ExactWith
<1> QED
  BY <1>1, MoveExact

LEMMA GradeExact ==
    ASSUME Safe, Exact, NEW c \in Clients, NEW q \in Quiz, Grade(c, q) PROVE Exact'
<1>1. PICK p : /\ Moves(c, p) /\ p.pc = "count" /\ p.graded = <<>> /\ p.snap = snapshot
  BY GradeMoves
<1>2. UNCHANGED <<session, snapshot, history, attempts, events>>
  BY DEF Grade, files, rows
<1>3. ASSUME serial'
      PROVE  /\ \A d \in Clients \ {c} : proc[d].pc = "idle"
             /\ Numbers' /\ Memories' /\ ExactWith(p)'
  <2>1. /\ Numbers /\ Memories /\ ExactWith(Free)
        /\ \A d \in Clients \ {c} : proc[d].pc = "idle"
    BY <1>3, StartAlone DEF Grade
  <2>2. /\ snapshot.count = Tally(attempts)
        /\ events["question_submitted"] = Len(attempts)
    BY <2>1, FreeIdle, SettledFree
  <2>3. \A d \in Concepts : OwedN(p, d) = 0 /\ OwedOk(p, d) = 0
    BY <1>1 DEF OwedN, OwedOk, Owed
  <2>4. /\ \A d \in Concepts : snapshot.count[d].n \in Nat /\ snapshot.count[d].ok \in Nat
        /\ events["question_submitted"] \in Nat
    BY DEF Safe, TypeOK, Snapshot, Count, EventType
  <2>5. Settled(p)
    BY <1>1, <2>2, <2>3, <2>4 DEF Settled, MemoryPcs
  <2>6. ExactWith(p)'
    BY <1>1, <1>2, <2>5 DEF ExactWith, Settled, Owed, OwedN, OwedOk, Numbered, Remembered, Recorded,
                       RemedyPcs, BuiltPcs
  <2> QED
    BY <1>2, <2>1, <2>6, NumbersKept, MemoriesKept
<1> QED
  BY <1>1, <1>3, MoveExact

LEMMA CountExact ==
    ASSUME Safe, Exact, NEW c \in Clients, CountAttempts(c) PROVE Exact'
<1>1. PICK p : /\ Moves(c, p) /\ p.pc = "insert" /\ p.snap = proc[c].snap
               /\ p.number = Cardinality(Earlier(attempts, p.quiz, Len(p.graded))) + 1
  BY CountMoves
<1>2. UNCHANGED <<session, snapshot, history, attempts, events, serial>>
  BY DEF CountAttempts, files, rows
<1>3. ASSUME serial'
      PROVE  /\ \A d \in Clients \ {c} : proc[d].pc = "idle"
             /\ Numbers' /\ Memories' /\ ExactWith(p)'
  <2>1. serial /\ proc[c].pc = "count"
    BY <1>2, <1>3 DEF CountAttempts
  <2>2. /\ Numbers /\ Memories /\ ExactWith(proc[c])
        /\ \A d \in Clients \ {c} : proc[d].pc = "idle"
    BY <2>1, BusyAlone
  <2>3. \A d \in Concepts : /\ OwedN(p, d) = 0 /\ OwedOk(p, d) = 0
                            /\ OwedN(proc[c], d) = 0 /\ OwedOk(proc[c], d) = 0
    BY <1>1, <2>1 DEF OwedN, OwedOk, Owed
  <2>4. Settled(p)
    BY <1>1, <2>1, <2>2, <2>3 DEF ExactWith, Settled, MemoryPcs
  <2>5. ExactWith(p)'
    BY <1>1, <1>2, <2>4 DEF ExactWith, Settled, Owed, OwedN, OwedOk, Numbered, Remembered, Recorded,
                       RemedyPcs, BuiltPcs
  <2> QED
    BY <1>2, <2>2, <2>5, NumbersKept, MemoriesKept
<1> QED
  BY <1>1, <1>3, MoveExact

LEMMA EarlierAppend ==
    ASSUME NEW s \in Seq(Attempt), NEW r \in Attempt, NEW q, NEW i
    PROVE  Cardinality(Earlier(Append(s, r), q, i)) =
               Cardinality(Earlier(s, q, i)) + (IF r.quiz = q /\ r.index = i THEN 1 ELSE 0)
<1> DEFINE t == Append(s, r)
<1>1. /\ t \in Seq(Attempt) /\ Len(t) = Len(s) + 1 /\ Len(s) \in Nat
      /\ t[Len(s) + 1] = r /\ \A k \in 1..Len(s) : t[k] = s[k]
      /\ 1..Len(t) = (1..Len(s)) \cup {Len(s) + 1}
  OBVIOUS
<1> HIDE DEF t
<1>2. Earlier(s, q, i) \subseteq 1..Len(s)
  BY DEF Earlier
<1>3. Cardinality(Earlier(s, q, i)) \in Nat
  BY <1>2, PartFinite
<1>4. Earlier(t, q, i) = IF r.quiz = q /\ r.index = i
                         THEN Earlier(s, q, i) \cup {Len(s) + 1} ELSE Earlier(s, q, i)
  BY <1>1 DEF Earlier
<1>5. Cardinality(Earlier(t, q, i)) =
          Cardinality(Earlier(s, q, i)) + (IF r.quiz = q /\ r.index = i THEN 1 ELSE 0)
  BY <1>2, <1>3, <1>4, PartGrows
<1> QED
  BY <1>5 DEF t

LEMMA NumbersAppend ==
    ASSUME Safe, Numbers, NEW r \in Attempt, attempts' = Append(attempts, r),
           r.number = Cardinality(Earlier(attempts, r.quiz, r.index)) + 1
    PROVE  Numbers'
<1> DEFINE n == Len(attempts)
           E(k) == Cardinality(Earlier(attempts, attempts[k].quiz, attempts[k].index))
           D(k) == Cardinality(Earlier(attempts', attempts'[k].quiz, attempts'[k].index))
<1>1. /\ n \in Nat /\ Len(attempts') = n + 1 /\ attempts'[n + 1] = r
      /\ \A k \in 1..n : attempts'[k] = attempts[k]
      /\ attempts \in Seq(Attempt) /\ attempts' \in Seq(Attempt)
  BY DEF Safe, TypeOK
<1>2. r.number \in Nat /\ \A k \in 1..n : attempts[k].number \in Nat
  <2>1. \A k \in 1..n : attempts[k] \in Attempt
    BY <1>1
  <2> QED
    BY <2>1 DEF Attempt, AnyRow
<1>3. \A k \in 1..n : E(k) \in Nat /\ attempts[k].number <= E(k)
  <2> SUFFICES ASSUME NEW k \in 1..n PROVE E(k) \in Nat /\ attempts[k].number <= E(k)
    OBVIOUS
  <2>1. Earlier(attempts, attempts[k].quiz, attempts[k].index) \subseteq 1..Len(attempts)
    BY DEF Earlier
  <2>2. E(k) \in Nat
    BY <1>1, <2>1, PartFinite
  <2> QED
    BY <2>2 DEF Numbers
<1>4. \A k \in 1..n : D(k) = E(k) \/ D(k) = E(k) + 1
  <2> SUFFICES ASSUME NEW k \in 1..n PROVE D(k) = E(k) \/ D(k) = E(k) + 1
    OBVIOUS
  <2>1. D(k) = Cardinality(Earlier(Append(attempts, r), attempts[k].quiz, attempts[k].index))
    BY <1>1
  <2>2. D(k) = E(k) + (IF r.quiz = attempts[k].quiz /\ r.index = attempts[k].index
                       THEN 1 ELSE 0)
    BY <1>1, <2>1, EarlierAppend
  <2>3. E(k) \in Nat
    BY <1>3
  <2> HIDE DEF D, E
  <2> QED
    BY <2>2, <2>3
<1>5. D(n + 1) = r.number
  <2>1. D(n + 1) = Cardinality(Earlier(Append(attempts, r), r.quiz, r.index))
    BY <1>1
  <2>2. Cardinality(Earlier(Append(attempts, r), r.quiz, r.index)) =
            Cardinality(Earlier(attempts, r.quiz, r.index)) + 1
    BY <1>1, EarlierAppend
  <2> QED
    BY <2>1, <2>2
<1>6. \A k \in 1..n : attempts[k].quiz = r.quiz /\ attempts[k].index = r.index => E(k) + 1 = r.number
  BY <1>2
<1>7. \A k \in 1..Len(attempts') : attempts'[k].number <= D(k)
  <2> SUFFICES ASSUME NEW k \in 1..Len(attempts') PROVE attempts'[k].number <= D(k)
    OBVIOUS
  <2>1. CASE k \in 1..n
    <3>1. attempts'[k].number = attempts[k].number
      BY <1>1, <2>1
    <3> HIDE DEF E, D
    <3> QED
      BY <1>2, <1>3, <1>4, <2>1, <3>1
  <2>2. CASE k = n + 1
    <3>1. attempts'[k].number = r.number
      BY <1>1, <2>2
    <3> HIDE DEF D
    <3> QED
      BY <1>2, <1>5, <2>2, <3>1
  <2> QED
    BY <1>1, <2>1, <2>2
<1>8. ASSUME NEW i \in 1..Len(attempts'), NEW j \in 1..Len(attempts'), Precedes(i, j)'
      PROVE  attempts'[i].number < attempts'[j].number
  <2>1. i \in 1..n /\ i < j
    BY <1>1, <1>8 DEF Precedes
  <2>2. CASE j \in 1..n
    BY <1>1, <1>8, <2>1, <2>2 DEF Precedes, Numbers
  <2>3. CASE j = n + 1
    <3>1. attempts[i].quiz = r.quiz /\ attempts[i].index = r.index
      BY <1>1, <1>8, <2>1, <2>3 DEF Precedes
    <3>2. attempts'[i].number = attempts[i].number /\ attempts'[j].number = r.number
      BY <1>1, <2>1, <2>3
    <3> HIDE DEF E
    <3> QED
      BY <1>2, <1>3, <1>6, <2>1, <3>1, <3>2
  <2> QED
    BY <1>1, <2>2, <2>3
<1> QED
  BY <1>7, <1>8 DEF Numbers

LEMMA InsertExact ==
    ASSUME Safe, Exact, NEW c \in Clients, InsertAttempt(c) PROVE Exact'
<1>1. PICK p : \E r \in Attempt :
               /\ Moves(c, p) /\ p.pc = "event" /\ p.quiz = proc[c].quiz
               /\ p.asked = proc[c].asked /\ p.graded = proc[c].graded /\ p.snap = proc[c].snap
               /\ attempts' = Append(attempts, r)
               /\ r.quiz = p.quiz /\ r.index = Len(p.graded) /\ r.number = proc[c].number
               /\ r.concept = p.asked[Len(p.graded)] /\ r.correct = p.graded[Len(p.graded)]
  BY InsertMoves
<1>2. PICK r \in Attempt :
          /\ attempts' = Append(attempts, r)
          /\ r.quiz = p.quiz /\ r.index = Len(p.graded) /\ r.number = proc[c].number
          /\ r.concept = p.asked[Len(p.graded)] /\ r.correct = p.graded[Len(p.graded)]
  BY <1>1
<1>3. /\ Moves(c, p) /\ p.pc = "event" /\ p.quiz = proc[c].quiz
      /\ p.asked = proc[c].asked /\ p.graded = proc[c].graded /\ p.snap = proc[c].snap
  BY <1>1
<1>4. UNCHANGED <<session, snapshot, history, events, serial>>
  BY DEF InsertAttempt, files
<1>5. ASSUME serial'
      PROVE  /\ \A d \in Clients \ {c} : proc[d].pc = "idle"
             /\ Numbers' /\ Memories' /\ ExactWith(p)'
  <2>1. serial /\ proc[c].pc = "insert"
    BY <1>4, <1>5 DEF InsertAttempt
  <2>2. /\ Numbers /\ Memories /\ ExactWith(proc[c])
        /\ \A d \in Clients \ {c} : proc[d].pc = "idle"
    BY <2>1, BusyAlone
  <2>3. r.number = Cardinality(Earlier(attempts, r.quiz, r.index)) + 1
    BY <1>2, <1>3, <2>1, <2>2 DEF ExactWith, Numbered
  <2>4. Numbers'
    BY <1>2, <2>2, <2>3, NumbersAppend
  <2>5. attempts \in Seq(Attempt) /\ events["question_submitted"] \in Nat
    BY DEF Safe, TypeOK, EventType
  <2>6. ASSUME NEW d \in Concepts
        PROVE  /\ p.snap.count[d].n + OwedN(p, d) = Tally(attempts')[d].n
               /\ p.snap.count[d].ok + OwedOk(p, d) = Tally(attempts')[d].ok
    <3>1. /\ OwedN(p, d) = (IF r.concept = d THEN 1 ELSE 0)
          /\ OwedOk(p, d) = (IF r.concept = d /\ r.correct THEN 1 ELSE 0)
          /\ OwedN(proc[c], d) = 0 /\ OwedOk(proc[c], d) = 0
      BY <1>2, <1>3, <2>1 DEF OwedN, OwedOk, Owed
    <3>2. /\ p.snap.count[d].n + 0 = Tally(attempts)[d].n
          /\ p.snap.count[d].ok + 0 = Tally(attempts)[d].ok
      BY <1>3, <2>1, <2>2, <3>1 DEF ExactWith, Settled, MemoryPcs
    <3>3. /\ p.snap.count[d].n \in Nat /\ p.snap.count[d].ok \in Nat
      BY <1>3 DEF Moves, Thread, Snapshot, Count
    <3>4. /\ Tally(attempts')[d].n = Tally(attempts)[d].n + OwedN(p, d)
          /\ Tally(attempts')[d].ok = Tally(attempts)[d].ok + OwedOk(p, d)
      BY <1>2, <2>5, <3>1, TallyAppend
    <3> QED
      BY <3>2, <3>3, <3>4
  <2>7. events["question_submitted"] + 1 = Len(attempts')
    <3>1. events["question_submitted"] + 0 = Len(attempts)
      BY <2>1, <2>2 DEF ExactWith, Settled
    <3> QED
      BY <1>2, <2>5, <3>1
  <2>8. Settled(p)'
    BY <1>3, <1>4, <2>6, <2>7 DEF Settled, Owed, OwedN, OwedOk, MemoryPcs
  <2>9. Numbered(p)' /\ Remembered(p)'
    BY <1>3 DEF Numbered, Remembered, RemedyPcs, BuiltPcs
  <2> QED
    BY <1>4, <2>2, <2>4, <2>8, <2>9, MemoriesKept DEF ExactWith
<1> QED
  BY <1>3, <1>5, MoveExact

LEMMA RecordExact ==
    ASSUME Safe, Exact, NEW c \in Clients, RecordAnswer(c) PROVE Exact'
<1> DEFINE q == proc[c]
           i == Len(q.graded)
<1>1. PICK p : /\ Moves(c, p)
               /\ p.pc = IF Len(p.graded) < Len(p.asked) THEN "count" ELSE "save_snapshot"
               /\ p.snap = UpdateMastery(q.snap, q.asked[i], q.graded[i])
  BY RecordMoves
<1>2. UNCHANGED <<session, snapshot, history, attempts, serial>>
  BY DEF RecordAnswer, files
<1>3. q \in Thread /\ GoodThread(q) /\ q.pc = "event"
  BY DEF RecordAnswer, Safe, TypeOK
<1>4. q.snap \in Snapshot /\ q.asked[i] \in Concepts /\ q.graded[i] \in BOOLEAN
  <2>1. i \in 1..Len(q.asked) /\ i \in 1..Len(q.graded)
    BY <1>3 DEF GoodThread, WellPlaced, Thread
  <2> QED
    BY <1>3, <2>1 DEF Thread
<1>5. /\ events["question_submitted"] \in Nat
      /\ events'["question_submitted"] = events["question_submitted"] + 1
  <2> DEFINE miss == IF q.graded[i] THEN 0 ELSE 1
  <2>1. /\ events \in [EventType -> Nat]
        /\ "question_submitted" \in EventType /\ "missed_question_saved" \in EventType
    BY DEF Safe, TypeOK, EventType
  <2>2. events' = [events EXCEPT !["question_submitted"] = @ + 1,
                                 !["missed_question_saved"] = @ + miss]
    BY DEF RecordAnswer
  <2> HIDE DEF miss
  <2> QED
    BY <2>1, <2>2
<1>6. ASSUME serial'
      PROVE  /\ \A d \in Clients \ {c} : proc[d].pc = "idle"
             /\ Numbers' /\ Memories' /\ ExactWith(p)'
  <2>1. /\ Numbers /\ Memories /\ ExactWith(q)
        /\ \A d \in Clients \ {c} : proc[d].pc = "idle"
    BY <1>2, <1>3, <1>6, BusyAlone
  <2>2. ASSUME NEW d \in Concepts
        PROVE  /\ p.snap.count[d].n + OwedN(p, d) = Tally(attempts)[d].n
               /\ p.snap.count[d].ok + OwedOk(p, d) = Tally(attempts)[d].ok
    <3>1. OwedN(p, d) = 0 /\ OwedOk(p, d) = 0
      BY <1>1 DEF OwedN, OwedOk, Owed
    <3>2. /\ p.snap.count[d].n = q.snap.count[d].n + OwedN(q, d)
          /\ p.snap.count[d].ok = q.snap.count[d].ok + OwedOk(q, d)
      <4> DEFINE a == q.asked[i]
                 g == q.graded[i]
      <4>1. /\ OwedN(q, d) = (IF a = d THEN 1 ELSE 0)
            /\ OwedOk(q, d) = (IF a = d /\ g THEN 1 ELSE 0)
        BY <1>3 DEF OwedN, OwedOk, Owed
      <4>2. a \in Concepts /\ g \in BOOLEAN /\ p.snap = UpdateMastery(q.snap, a, g)
        BY <1>1, <1>4
      <4> HIDE DEF a, g
      <4> QED
        BY <1>4, <4>1, <4>2, UpdateMasteryCounts
    <3>3. p.snap.count[d].n \in Nat /\ p.snap.count[d].ok \in Nat
      BY <1>1 DEF Moves, Thread, Snapshot, Count
    <3> QED
      BY <1>3, <2>1, <3>1, <3>2, <3>3 DEF ExactWith, Settled, MemoryPcs
  <2>3. events'["question_submitted"] + 0 = Len(attempts)
    BY <1>3, <1>5, <2>1 DEF ExactWith, Settled
  <2>4. p.pc \in MemoryPcs /\ p.pc # "event"
    BY <1>1 DEF MemoryPcs
  <2>5. Settled(p)'
    BY <1>2, <2>2, <2>3, <2>4 DEF Settled, Owed, OwedN, OwedOk
  <2>6. Numbered(p)' /\ Remembered(p)'
    BY <1>1 DEF Numbered, Remembered, RemedyPcs, BuiltPcs
  <2> QED
    BY <1>2, <2>1, <2>5, <2>6, NumbersKept, MemoriesKept DEF ExactWith
<1> QED
  BY <1>1, <1>6, MoveExact

LEMMA SaveSnapshotExact ==
    ASSUME Safe, Exact, NEW c \in Clients, SaveSnapshot(c) PROVE Exact'
<1> DEFINE q == proc[c]
<1>1. "save_results" \in Pc /\ GoOn(c, "save_results") /\ snapshot' = q.snap
  BY DEF SaveSnapshot, Pc, GradePcs, MemoryPcs
<1>2. PICK p : Moves(c, p) /\ p.pc = "save_results"
  BY <1>1, GoOnMoves
<1>3. UNCHANGED <<session, history, attempts, events, serial>>
  BY DEF SaveSnapshot, rows
<1>4. q \in Thread /\ q.pc = "save_snapshot"
  BY DEF SaveSnapshot, Safe, TypeOK
<1>5. ASSUME serial'
      PROVE  /\ \A d \in Clients \ {c} : proc[d].pc = "idle"
             /\ Numbers' /\ Memories' /\ ExactWith(p)'
  <2>1. /\ Numbers /\ Memories /\ ExactWith(q)
        /\ \A d \in Clients \ {c} : proc[d].pc = "idle"
    BY <1>3, <1>4, <1>5, BusyAlone
  <2>2. q.snap.count \in [Concepts -> Count] /\ Tally(attempts) \in [Concepts -> Count]
    BY <1>4, AggregateType DEF Thread, Snapshot, Safe, TypeOK
  <2>3. ASSUME NEW d \in Concepts PROVE q.snap.count[d] = Tally(attempts)[d]
    <3>1. OwedN(q, d) = 0 /\ OwedOk(q, d) = 0
      BY <1>4 DEF OwedN, OwedOk, Owed
    <3>2. /\ q.snap.count[d].n + 0 = Tally(attempts)[d].n
          /\ q.snap.count[d].ok + 0 = Tally(attempts)[d].ok
      BY <1>4, <2>1, <3>1 DEF ExactWith, Settled, MemoryPcs
    <3>3. q.snap.count[d] \in Count /\ Tally(attempts)[d] \in Count
      BY <2>2
    <3> QED
      BY <3>2, <3>3 DEF Count
  <2>4. q.snap.count = Tally(attempts)
    BY <2>2, <2>3
  <2>5. Settled(p)' /\ Numbered(p)' /\ Remembered(p)'
    BY <1>1, <1>2, <1>3, <1>4, <2>1, <2>4
       DEF ExactWith, Settled, Numbered, Remembered, MemoryPcs, RemedyPcs, BuiltPcs
  <2> QED
    BY <1>3, <2>1, <2>5, NumbersKept, MemoriesKept DEF ExactWith
<1> QED
  BY <1>2, <1>5, MoveExact

LEMMA SaveResultsExact ==
    ASSUME Safe, Exact, NEW c \in Clients, SaveResults(c) PROVE Exact'
<1>1. "complete" \in Pc /\ GoOn(c, "complete") /\ proc[c].pc = "save_results"
  BY DEF SaveResults, Pc, GradePcs, MemoryPcs
<1>2. PICK p : Moves(c, p) /\ p.pc = "complete"
  BY <1>1, GoOnMoves
<1>3. UNCHANGED <<session, snapshot, history, attempts, events, serial>>
  BY DEF SaveResults, rows
<1>4. serial => Memories'
  BY <1>1, <1>3, BusyAlone, MemoriesKept
<1>5. Remembered(p)' /\ p.pc \notin MemoryPcs
  BY <1>2 DEF Remembered, MemoryPcs, RemedyPcs, BuiltPcs
<1> QED
  BY <1>1, <1>2, <1>3, <1>4, <1>5, PlainExact DEF MemoryPcs

LEMMA CompleteExact ==
    ASSUME Safe, Exact, NEW c \in Clients, CompleteQuiz(c) PROVE Exact'
<1>1. Moves(c, Free) /\ proc[c].pc = "complete"
  BY ReturnMoves DEF CompleteQuiz
<1>2. UNCHANGED <<session, snapshot, history, attempts, serial>>
  BY DEF CompleteQuiz, files
<1>3. events'["question_submitted"] = events["question_submitted"]
  BY DEF CompleteQuiz, Report, Safe, TypeOK, EventType
<1>4. serial => Memories'
  BY <1>1, <1>2, BusyAlone, MemoriesKept
<1> QED
  BY <1>1, <1>2, <1>3, <1>4, FreeIdle, PlainExact DEF MemoryPcs

LEMMA UnlinkExact ==
    ASSUME Safe, Exact, NEW c \in Clients, UnlinkResults(c) PROVE Exact'
<1>1. Moves(c, Free) /\ proc[c].pc = "unlink_results"
  BY ReturnMoves DEF UnlinkResults
<1>2. UNCHANGED <<session, snapshot, history, attempts, events, serial>>
  BY DEF UnlinkResults, rows
<1>3. serial => Memories'
  BY <1>1, <1>2, BusyAlone, MemoriesKept
<1> QED
  BY <1>1, <1>2, <1>3, FreeIdle, PlainExact DEF MemoryPcs

LEMMA StoreTableExact ==
    ASSUME Safe, Exact, NEW c \in Clients, StoreTable(c) PROVE Exact'
<1>1. Moves(c, Free) /\ proc[c].pc = "store_table"
  BY ReturnMoves DEF StoreTable
<1>2. UNCHANGED <<session, snapshot, history, attempts, events, serial>>
  BY DEF StoreTable, files
<1>3. serial => Memories'
  BY <1>1, <1>2, BusyAlone, MemoriesKept
<1> QED
  BY <1>1, <1>2, <1>3, FreeIdle, PlainExact DEF MemoryPcs

\* A remediation goes on with what it remembers.
LEMMA StillRemembered ==
    ASSUME NEW q, NEW p, Remembered(q), q.pc \in RemedyPcs, UNCHANGED history,
           p.pc \in {"idle", "concept"},
           p.pc = "concept" => p.request = q.request /\ p.prior = q.prior
    PROVE  Remembered(p)'
BY DEF Remembered, RemedyPcs, BuiltPcs

LEMMA SkipExact ==
    ASSUME Safe, Exact, NEW c \in Clients, SkipConcept(c) PROVE Exact'
<1>1. PICK p : /\ Moves(c, p) /\ p.pc \in {"idle", "concept"} /\ (p.pc = "idle" => p = Free)
               /\ p.pc = "concept" => p.request = proc[c].request /\ p.prior = proc[c].prior
  BY NextConceptMoves DEF SkipConcept, RemedyPcs
<1>2. UNCHANGED <<session, snapshot, history, attempts, events, serial>> /\ proc[c].pc = "concept"
  BY DEF SkipConcept, files, rows
<1>3. ASSUME serial PROVE Memories' /\ Remembered(p)'
  <2>1. Memories /\ ExactWith(proc[c])
    BY <1>2, <1>3, BusyAlone
  <2> QED
    BY <1>1, <1>2, <2>1, StillRemembered, MemoriesKept DEF ExactWith, RemedyPcs
<1>4. p.pc \notin MemoryPcs /\ proc[c].pc \notin MemoryPcs \cup {"idle"}
  BY <1>1, <1>2 DEF MemoryPcs
<1> QED
  BY <1>1, <1>2, <1>3, <1>4, PlainExact

LEMMA BuildExact ==
    ASSUME Safe, Exact, NEW c \in Clients, BuildQuestions(c) PROVE Exact'
<1>1. PICK p : /\ Moves(c, p) /\ p.pc = "list_history"
               /\ p.request = proc[c].request /\ p.prior = proc[c].prior
               /\ p.prompts \subseteq ({Head(p.todo)} \X (1..MaxPrompt)) \ p.prior
  BY BuildMoves
<1>2. /\ UNCHANGED <<session, snapshot, history, attempts, events, serial>>
      /\ proc[c].pc = "concept"
  BY DEF BuildQuestions, files, rows
<1>3. ASSUME serial PROVE Memories' /\ Remembered(p)'
  <2>1. Memories /\ ExactWith(proc[c])
    BY <1>2, <1>3, BusyAlone
  <2>2. Remembered(p)'
    BY <1>1, <1>2, <2>1 DEF ExactWith, Remembered, RemedyPcs
  <2> QED
    BY <1>2, <2>1, <2>2, MemoriesKept
<1> QED
  BY <1>1, <1>2, <1>3, PlainExact DEF MemoryPcs

LEMMA ListExact ==
    ASSUME Safe, Exact, NEW c \in Clients, ListHistory(c) PROVE Exact'
<1>1. PICK p : /\ Moves(c, p) /\ p.pc = "write_history"
               /\ p.prompts = proc[c].prompts /\ p.list = history
               /\ p.request = proc[c].request /\ p.todo = proc[c].todo
               /\ p.prior = proc[c].prior
  BY ListMoves
<1>2. UNCHANGED <<session, snapshot, history, attempts, events, serial>> /\ proc[c].pc = "list_history"
  BY DEF ListHistory, files, rows
<1>3. ASSUME serial PROVE Memories' /\ Remembered(p)'
  <2>1. Memories /\ ExactWith(proc[c])
    BY <1>2, <1>3, BusyAlone
  <2>2. Remembered(p)'
    BY <1>1, <1>2, <2>1 DEF ExactWith, Remembered, RemedyPcs, BuiltPcs
  <2> QED
    BY <1>2, <2>1, <2>2, MemoriesKept
<1> QED
  BY <1>1, <1>2, <1>3, PlainExact DEF MemoryPcs

LEMMA WriteExact ==
    ASSUME Safe, Exact, NEW c \in Clients, WriteHistory(c) PROVE Exact'
<1> DEFINE q == proc[c]
           e == [quiz |-> q.quiz, prompts |-> q.prompts]
           n == Len(history)
<1>1. /\ "save_session" \in Pc /\ GoOn(c, "save_session") /\ q.pc = "write_history"
      /\ history' = Append(q.list, e)
  BY DEF WriteHistory, Pc, RemedyPcs, BuiltPcs
<1>2. PICK p : /\ Moves(c, p) /\ p.pc = "save_session" /\ p.quiz = q.quiz
               /\ p.request = q.request /\ p.prior = q.prior
  BY <1>1, GoOnMoves
<1>3. UNCHANGED <<session, snapshot, attempts, events, serial>>
  BY DEF WriteHistory, rows
<1>4. /\ q.quiz = <<q.request, Head(q.todo)>> /\ history \in Seq(Entry)
      /\ e.quiz = q.quiz /\ e.prompts = q.prompts
  BY <1>1 DEF Safe, TypeOK, GoodThread, WellPlaced, BuiltPcs
<1>5. ASSUME serial PROVE Memories' /\ Remembered(p)'
  <2>1. Memories /\ ExactWith(q)
    BY <1>1, <1>5, BusyAlone
  <2>2. /\ q.list = history
        /\ q.prompts \subseteq ({Head(q.todo)} \X (1..MaxPrompt)) \ q.prior
        /\ \A k \in 1..n : history[k].quiz[1] # q.request => history[k].prompts \subseteq q.prior
    BY <1>1, <2>1 DEF ExactWith, Remembered, RemedyPcs, BuiltPcs
  <2>3. history' = Append(history, e)
    BY <1>1, <2>2
  <2> HIDE DEF e
  <2>4. /\ n \in Nat /\ Len(history') = n + 1 /\ history'[n + 1] = e
        /\ \A k \in 1..n : history'[k] = history[k]
    BY <1>4, <2>3
  <2>5. e.quiz[1] = q.request /\ e.quiz[2] = Head(q.todo)
    BY <1>4
  <2>6. e.prompts \subseteq {e.quiz[2]} \X (1..MaxPrompt)
    BY <1>4, <2>2, <2>5
  <2>7. ASSUME NEW k \in 1..n, history[k].quiz # e.quiz
        PROVE  history[k].prompts \cap e.prompts = {}
    <3>1. CASE history[k].quiz[1] # q.request
      <4>1. history[k].prompts \subseteq q.prior
        BY <2>2, <3>1
      <4> QED
        BY <1>4, <2>2, <4>1
    <3>2. CASE history[k].quiz[1] = q.request
      <4>1. history[k].quiz \in Remedial
        <5>1. history[k] \in Entry
          BY <1>4
        <5> QED
          BY <5>1 DEF Entry
      <4>2. history[k].quiz[2] # e.quiz[2]
        <5>1. history[k].quiz = <<history[k].quiz[1], history[k].quiz[2]>>
          BY <4>1 DEF Remedial
        <5> QED
          BY <1>4, <2>5, <2>7, <3>2, <5>1
      <4>3. history[k].prompts \subseteq {history[k].quiz[2]} \X (1..MaxPrompt)
        BY <2>1 DEF Memories
      <4> QED
        BY <2>6, <4>2, <4>3
    <3> QED
      BY <3>1, <3>2
  <2>8. \A k \in 1..Len(history') : k \in 1..n \/ k = n + 1
    BY <2>4
  <2>9. \A k \in 1..Len(history') :
            history'[k].prompts \subseteq {history'[k].quiz[2]} \X (1..MaxPrompt)
    BY <2>1, <2>4, <2>6, <2>8 DEF Memories
  <2>10. ASSUME NEW i \in 1..Len(history'), NEW j \in 1..Len(history'),
                history'[i].quiz # history'[j].quiz
         PROVE  history'[i].prompts \cap history'[j].prompts = {}
    <3>1. CASE i \in 1..n /\ j \in 1..n
      BY <2>1, <2>4, <2>10, <3>1 DEF Memories
    <3>2. CASE i \in 1..n /\ j = n + 1
      BY <2>4, <2>7, <2>10, <3>2
    <3>3. CASE i = n + 1 /\ j \in 1..n
      BY <2>4, <2>7, <2>10, <3>3
    <3>4. CASE i = n + 1 /\ j = n + 1
      BY <2>10, <3>4
    <3> QED
      BY <2>8, <3>1, <3>2, <3>3, <3>4
  <2>11. \A r : Recorded(r) => Recorded(r)'
    <3> SUFFICES ASSUME NEW r, NEW k \in 1..n, history[k].quiz = r PROVE Recorded(r)'
      BY DEF Recorded
    <3>1. k \in 1..Len(history') /\ history'[k].quiz = r
      BY <2>4
    <3> QED
      BY <3>1 DEF Recorded
  <2>12. \E k \in 1..Len(history') : history'[k].quiz = p.quiz
    <3>1. n + 1 \in 1..Len(history') /\ history'[n + 1].quiz = p.quiz
      BY <1>2, <1>4, <2>4
    <3> QED
      BY <3>1
  <2>13. \A r \in Remedial : session'[r] # <<>> => Recorded(r)'
    BY <1>3, <2>1, <2>11 DEF Memories
  <2>14. \A k \in 1..Len(history') :
             history'[k].quiz[1] # p.request => history'[k].prompts \subseteq p.prior
    BY <1>2, <2>2, <2>4, <2>5, <2>8
  <2>15. Remembered(p)'
    BY <1>2, <2>12, <2>14 DEF Remembered, Recorded
  <2> QED
    BY <2>9, <2>10, <2>13, <2>15 DEF Memories
<1> QED
  BY <1>1, <1>2, <1>3, <1>5, PlainExact DEF MemoryPcs

LEMMA SaveSessionExact ==
    ASSUME Safe, Exact, NEW c \in Clients, SaveSession(c) PROVE Exact'
<1> DEFINE q == proc[c]
<1>1. q.pc = "save_session" /\ session' = [session EXCEPT ![q.quiz] = q.asked]
  BY DEF SaveSession
<1>2. PICK p : /\ Moves(c, p) /\ p.pc \in {"idle", "concept"} /\ (p.pc = "idle" => p = Free)
               /\ p.pc = "concept" => p.request = q.request /\ p.prior = q.prior
  BY <1>1, NextConceptMoves DEF SaveSession, RemedyPcs, BuiltPcs
<1>3. UNCHANGED <<snapshot, history, attempts, events, serial>>
  BY DEF SaveSession, rows
<1>4. ASSUME serial PROVE Memories' /\ Remembered(p)'
  <2>1. Memories /\ ExactWith(q)
    BY <1>1, <1>4, BusyAlone
  <2>2. Recorded(q.quiz)
    BY <1>1, <2>1 DEF ExactWith, Remembered
  <2>3. \A r \in Quiz : r # q.quiz => session'[r] = session[r]
    BY <1>1 DEF Safe, TypeOK
  <2>4. \A r \in Remedial : session'[r] # <<>> => Recorded(r)
    BY <2>1, <2>2, <2>3 DEF Memories, Quiz
  <2>5. Memories'
    BY <1>3, <2>1, <2>4 DEF Memories, Recorded
  <2>6. q.pc \in RemedyPcs /\ Remembered(q)
    BY <1>1, <2>1 DEF ExactWith, RemedyPcs, BuiltPcs
  <2>7. Remembered(p)'
    BY <1>2, <1>3, <2>6, StillRemembered
  <2> QED
    BY <2>5, <2>7
<1>5. p.pc \notin MemoryPcs /\ q.pc \notin MemoryPcs \cup {"idle"}
  BY <1>1, <1>2 DEF MemoryPcs
<1>6. events'["question_submitted"] = events["question_submitted"]
  BY <1>3
<1> QED
  BY <1>2, <1>3, <1>4, <1>5, <1>6, PlainExact

LEMMA DeleteExact ==
    ASSUME Safe, Exact, NEW c \in Clients, NEW q \in Quiz, DeleteQuiz(c, q) PROVE Exact'
<1>1. PICK p : Moves(c, p) /\ p.pc = "unlink_results"
  BY DeleteMoves
<1>2. UNCHANGED <<snapshot, history, attempts, events>> /\ session' = [session EXCEPT ![q] = <<>>]
  BY DEF DeleteQuiz, rows
<1>3. ASSUME serial' PROVE Memories' /\ Remembered(p)'
  <2>1. Memories
    BY <1>3, StartAlone DEF DeleteQuiz
  <2>2. \A r \in Quiz : session'[r] = session[r] \/ session'[r] = <<>>
    BY <1>2 DEF Safe, TypeOK
  <2>3. Memories'
    BY <1>2, <2>1, <2>2 DEF Memories, Quiz, Recorded
  <2> QED
    BY <1>1, <2>3 DEF Remembered, RemedyPcs, BuiltPcs
<1>4. p.pc \notin MemoryPcs \cup {"idle"}
  BY <1>1 DEF MemoryPcs
<1> QED
  BY <1>1, <1>2, <1>3, <1>4, StartExact DEF DeleteQuiz

LEMMA RefreshExact ==
    ASSUME Safe, Exact, NEW c \in Clients, Refresh(c) PROVE Exact'
<1>1. PICK p : Moves(c, p) /\ p.pc = "store_table"
  BY RefreshMoves
<1>2. UNCHANGED <<session, snapshot, history, attempts, events>>
  BY DEF Refresh, files, rows
<1>3. ASSUME serial' PROVE Memories' /\ Remembered(p)'
  BY <1>1, <1>2, <1>3, StartAlone, MemoriesKept DEF Refresh, Remembered, RemedyPcs, BuiltPcs
<1>4. p.pc \notin MemoryPcs \cup {"idle"}
  BY <1>1 DEF MemoryPcs
<1> QED
  BY <1>1, <1>2, <1>3, <1>4, StartExact DEF Refresh

LEMMA RemediateExact ==
    ASSUME Safe, Exact, NEW c \in Clients, NEW named \in Named, Remediate(c, named)
    PROVE  Exact'
<1>1. PICK p : Moves(c, p) /\ p.pc = "concept" /\ p.prior = Prior
  BY RemediateMoves
<1>2. UNCHANGED <<session, snapshot, history, attempts, events>>
  BY DEF Remediate, files, rows
<1>3. \E p0 : Start(c, p0)
  BY DEF Remediate
<1>4. ASSUME serial' PROVE Memories' /\ Remembered(p)'
  <2>1. Memories
    BY <1>3, <1>4, StartAlone
  <2>2. \A k \in 1..Len(history) : history[k].prompts \subseteq Prior
    BY DEF Prior, RangeOf
  <2>3. Remembered(p)'
    BY <1>1, <1>2, <2>2 DEF Remembered
  <2> QED
    BY <1>2, <2>1, <2>3, MemoriesKept
<1>5. p.pc \notin MemoryPcs \cup {"idle"}
  BY <1>1 DEF MemoryPcs
<1> QED
  BY <1>1, <1>2, <1>3, <1>4, <1>5, StartExact

LEMMA InitExact == Init => Exact
<1> SUFFICES ASSUME Init PROVE Exact
  OBVIOUS
<1>1. \A c \in Clients : proc[c].pc = "idle"
  BY FreeType DEF Init
<1>2. Len(<<>>) = 0
  OBVIOUS
<1>3. Numbers
  BY <1>2 DEF Init, Numbers
<1>4. Memories
  BY <1>2, QuizzesAssumption DEF Init, Memories, Quiz, Remedial
<1>5. Settled(Free)
  BY <1>2, AggregateEmpty, FreeType DEF Init, Settled, NoSnapshot, EventType, MemoryPcs
<1>6. Numbered(Free) /\ Remembered(Free)
  BY FreeType DEF Numbered, Remembered, RemedyPcs, BuiltPcs
<1> QED
  BY <1>1, <1>3, <1>4, <1>5, <1>6 DEF Exact, Solo, ExactWith

LEMMA NextExact == Safe /\ Exact /\ [Next]_vars => Exact'
<1> SUFFICES ASSUME Safe, Exact, [Next]_vars PROVE Exact'
  OBVIOUS
<1>1. ASSUME NEW c \in Clients, Step(c) PROVE Exact'
  BY <1>1, CountExact, InsertExact, RecordExact, SaveSnapshotExact, SaveResultsExact,
     CompleteExact, UnlinkExact, StoreTableExact, SkipExact, BuildExact, ListExact, WriteExact,
     SaveSessionExact DEF Step
<1>2. CASE Kill
  BY <1>2 DEF Kill, Exact
<1>3. CASE UNCHANGED vars
  BY <1>3 DEF vars, files, rows, Exact, Solo, Numbers, Precedes, Memories, Quiet, ExactWith,
     Settled, Owed, OwedN, OwedOk, Numbered, Remembered, Recorded
<1> QED
  BY <1>1, <1>2, <1>3, GradeExact, DeleteExact, RefreshExact, RemediateExact DEF Next

\* As long as one request at a time runs to its end, no practice is lost: the snapshot,
\* the events and the numbers agree with the attempts, and no two remediation quizzes are
\* given the same question.
THEOREM SerialPracticeLosesNothing == Spec => []SerialPracticeIsExact
<1>1. Safe /\ Exact => SerialPracticeIsExact
  <2> SUFFICES ASSUME Safe, Exact, serial
               PROVE  /\ Quiet => snapshot.count = Tally(attempts)
                      /\ \A i, j \in 1..Len(attempts) :
                             i < j /\ attempts[i].quiz = attempts[j].quiz
                                   /\ attempts[i].index = attempts[j].index
                                 => attempts[i].number < attempts[j].number
                      /\ Quiet => events["question_submitted"] = Len(attempts)
                      /\ \A i, j \in 1..Len(history) : history[i].quiz # history[j].quiz
                             => history[i].prompts \cap history[j].prompts = {}
                      /\ \A q \in Remedial :
                             session[q] # <<>> => \E e \in RangeOf(history) : e.quiz = q
    BY DEF SerialPracticeIsExact
  <2>1. Numbers /\ Memories /\ (Quiet => ExactWith(Free))
    BY DEF Exact
  <2>2. Quiet => /\ snapshot.count = Tally(attempts)
                 /\ events["question_submitted"] = Len(attempts)
    BY <2>1, FreeIdle, SettledFree
  <2> QED
    BY <2>1, <2>2 DEF Numbers, Precedes, Memories, Recorded, RangeOf
<1> QED
  BY <1>1, InitSafe, NextSafe, InitExact, NextExact, PTL DEF Spec
=============================================================================
