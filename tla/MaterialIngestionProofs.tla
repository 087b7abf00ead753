----------------------- MODULE MaterialIngestionProofs -----------------------
(***************************************************************************)
(* Proofs about MaterialIngestion, for every number of clients, contents,  *)
(* materials, requests and kills.                                          *)
(*                                                                         *)
(* A material nothing has happened to is, at every moment, either as it    *)
(* should be or owed something by whoever works on it: to be settled, to   *)
(* be parsed, to be studied.  A debt is a thread at a position before the  *)
(* step that pays it, or a queued job; a thread can only get past that     *)
(* step by paying, and whoever takes a paid thing away owes it again.      *)
(***************************************************************************)
EXTENDS MaterialIngestion, TLAPS

Record == [file : [hash : Contents \cup {None}, module : Modules \cup {None}],
           status : {"pending", "processing", "completed", "failed"},
           stage : {"registered", "extracting", "enriching", "ready", "failed"}]
File == {"record", "source", "parsed", "study"}
Fate == {"failed", "killed", "dropped", "deleted"}

PipelinePcs == {"read", "extract", "parse", "files", "record", "catalog", "build", "study",
                "reread", "ready", "list", "index", "fail"}
Pc == {"idle", "enqueue", "requeue", "add_callback", "return", "clear_future", "save_queued", "clear", "save_cleared",
       "mark", "enrich", "rmtree", "remaining"} \cup PipelinePcs
Op == {"none", "upload", "job", "retry", "reprocess", "regenerate", "delete", "search"}

Thread == [op : Op, pc : Pc, m : Material \cup {0}, copy : Record, docs : SUBSET Material]

TypeOK ==
    /\ rec \in [Material -> Record]
    /\ listed \in SUBSET Material
    /\ files \in [Material -> SUBSET File]
    /\ catalog \in [Material -> {"none", "parsed", "study"}]
    /\ index \in SUBSET Material
    /\ futures \in [Material -> {"none", "pending", "running", "done"}]
    /\ queue \in Seq(Material)
    /\ lock \in Actors \cup {None}
    /\ proc \in [Actors -> Thread]
    /\ fate \in [Material -> SUBSET Fate]
    /\ ops \in 0..MaxOp
    /\ kills \in 0..MaxKill

\* Where a request can be, and that it is about a material.
WellPlaced(p) ==
    /\ p.op = "none" <=> p.pc = "idle"
    /\ p.op = "upload" => p.pc \in PipelinePcs \cup {"enqueue", "add_callback", "clear_future"}
    /\ p.op = "job" => p.pc \in PipelinePcs \cup {"return", "clear_future"}
    /\ p.op = "retry" => p.pc \in {"save_queued", "requeue", "add_callback", "clear_future"}
    /\ p.op = "reprocess" => p.pc \in PipelinePcs \cup {"clear", "save_cleared", "mark"}
    /\ p.op = "regenerate" => p.pc \in {"enrich", "build", "study", "reread", "ready"}
    /\ p.op = "delete" => p.pc \in {"rmtree", "remaining", "list", "index"}
    /\ p.op = "search" => p.pc \in {"list", "index"}
    /\ p.op \notin {"none", "search"} => p.m \in Material

\* A request that works on its material, and one that may still save its copy of the record.
Serves(p) ==
    /\ p.op \notin {"none", "delete", "search"}
    /\ p.pc \notin {"add_callback", "return", "clear_future"}
Carries(p) ==
    /\ Serves(p)
    /\ p.pc \notin {"index", "enqueue"}
    /\ p.pc = "read" => p.op = "reprocess"

\* The copy is of the content the material was registered with.
Holds(p) == Carries(p) => rec[p.m] # NoRecord /\ p.copy.file = rec[p.m].file
Deletes(p) == p.op = "delete" => "deleted" \in fate[p.m]
GoodThread(p) == WellPlaced(p) /\ Holds(p) /\ Deletes(p)

\* A registered material stays listed until it is deleted.
Registered(m) ==
    IF rec[m] = NoRecord THEN m \notin listed /\ files[m] = {}
    ELSE rec[m].file.hash \in Contents /\ (m \in listed \/ "deleted" \in fate[m])

\* Materials are registered in their order, and where an earlier one has the content a
\* search would have found it, whether it is listed now or was once.
InTurn(m, n) == m < n /\ rec[n] # NoRecord => rec[m] # NoRecord
Apart(m, n) ==
    ParseCache /\ m < n /\ rec[n] # NoRecord /\ rec[m].file.hash = rec[n].file.hash =>
        \/ rec[n].file.module \notin {None, rec[m].file.module}
        \/ "deleted" \in fate[m] \cup fate[n]

\* Threads that owe their material to be settled, parsed, studied.
Settles(p) == Serves(p) /\ p.pc \notin {"list", "index"}
Parses(p) ==
    /\ Serves(p)
    /\ p.pc \in {"enqueue", "save_cleared", "read", "extract", "parse", "files", "fail"}
Studies(p) ==
    \/ Parses(p)
    \/ Serves(p) /\ p.op # "regenerate" /\ p.pc \in {"record", "catalog", "build", "study"}

Queued(m) == \E i \in 1..Len(queue) : queue[i] = m
Untroubled(m) == rec[m] # NoRecord /\ fate[m] = {}

Settling(m) ==
    Settled(m) \/ Queued(m) \/ \E a \in Actors : proc[a].m = m /\ Settles(proc[a])
Parsing(m) ==
    "parsed" \in files[m] \/ Queued(m) \/ \E a \in Actors : proc[a].m = m /\ Parses(proc[a])
Studied(m) == "study" \in files[m] /\ catalog[m] = "study"
Studying(m) ==
    Studied(m) \/ Queued(m) \/ \E a \in Actors : proc[a].m = m /\ Studies(proc[a])

InOrder(m) ==
    Untroubled(m) => "source" \in files[m] /\ Settling(m) /\ Parsing(m) /\ Studying(m)

Good ==
    /\ TypeOK
    /\ \A a \in Actors : GoodThread(proc[a])
    /\ \A m \in Material : Registered(m) /\ InOrder(m)
    /\ \A m, n \in Material : InTurn(m, n) /\ Apart(m, n)

-----------------------------------------------------------------------------
\* One thread moves, the others stay; only one material is touched.

Moves(a, p) ==
    /\ proc' \in [Actors -> Thread]
    /\ p \in Thread
    /\ proc'[a] = p
    /\ \A b \in Actors \ {a} : proc'[b] = proc[b]

\* What a step on material m may do to the stores, m = 0 for none: a registered material
\* keeps its content, and one that is not stays away.
Touches(m) ==
    /\ rec' \in [Material -> Record]
    /\ listed' \in SUBSET Material
    /\ files' \in [Material -> SUBSET File]
    /\ catalog' \in [Material -> {"none", "parsed", "study"}]
    /\ \A n \in Material : n # m =>
           /\ rec'[n] = rec[n] /\ files'[n] = files[n] /\ catalog'[n] = catalog[n]
           /\ n \in listed' <=> n \in listed
    /\ \A n \in Material : n = m =>
           \/ /\ rec[n] = NoRecord /\ rec'[n] = NoRecord
              /\ n \notin listed' /\ files'[n] = {}
           \/ /\ rec[n] # NoRecord /\ rec'[n] # NoRecord /\ rec'[n].file = rec[n].file
              /\ n \in listed => n \in listed' \/ "deleted" \in fate'[n]

Suffering(m) ==
    /\ fate' \in [Material -> SUBSET Fate]
    /\ \A n \in Material : fate[n] \subseteq fate'[n] /\ (n # m => fate'[n] = fate[n])

Bounded ==
    /\ index' \in SUBSET Material
    /\ futures' \in [Material -> {"none", "pending", "running", "done"}]
    /\ queue' \in Seq(Material)
    /\ lock' \in Actors \cup {None}
    /\ ops' \in 0..MaxOp
    /\ kills' \in 0..MaxKill

LEMMA MaterialNotZero == 0 \notin Material /\ \A m \in Material : m # 0
BY BoundsAssumption DEF Material

LEMMA NoRecordType == NoRecord \in Record /\ NoRecord.file.hash = None /\ NoRecord.stage = "failed"
BY DEF NoRecord, NoFile, Record

LEMMA FreeType ==
    /\ Free \in Thread /\ Free.op = "none" /\ Free.pc = "idle" /\ Free.m = 0
    /\ Free.copy = NoRecord /\ Free.docs = {}
BY NoRecordType DEF Free, Thread, Op, Pc

LEMMA FreeGood == GoodThread(Free) /\ GoodThread(Free)' /\ ~Serves(Free)
BY FreeType DEF GoodThread, WellPlaced, Holds, Carries, Serves, Deletes

\* A registered material has a content, so its record cannot be mistaken for none.
LEMMA HashRegisters ==
    ASSUME NEW m, Registered(m) PROVE rec[m] = NoRecord <=> rec[m].file.hash = None
BY NoRecordType, ChoicesAssumption DEF Registered

LEMMA FoundIsRegistered ==
    ASSUME NEW m, Registered(m), Found(m) PROVE rec[m] # NoRecord
BY DEF Registered, Found

LEMMA MoveThreads ==
    ASSUME Good, NEW a \in Actors, NEW p, NEW m, Moves(a, p), Touches(m), Suffering(m),
           GoodThread(p)'
    PROVE  \A b \in Actors : GoodThread(proc[b])'
<1> SUFFICES ASSUME NEW b \in Actors PROVE GoodThread(proc[b])'
  OBVIOUS
<1>1. CASE b = a
  BY <1>1 DEF Moves, GoodThread, WellPlaced, Holds, Carries, Serves, Deletes
<1>2. CASE b # a
  <2>1. proc'[b] = proc[b] /\ GoodThread(proc[b])
    BY <1>2 DEF Moves, Good
  <2>2. PICK r : r = proc[b] /\ GoodThread(r)
    BY <2>1
  <2>3. ASSUME Carries(r) PROVE rec'[r.m] # NoRecord /\ r.copy.file = rec'[r.m].file
    <3>1. r.m \in Material /\ rec[r.m] # NoRecord /\ r.copy.file = rec[r.m].file
      BY <2>2, <2>3 DEF GoodThread, WellPlaced, Holds, Carries, Serves
    <3> QED
      BY <3>1 DEF Touches
  <2>4. ASSUME r.op = "delete" PROVE "deleted" \in fate'[r.m]
    <3>1. r.m \in Material /\ "deleted" \in fate[r.m]
      BY <2>2, <2>4 DEF GoodThread, WellPlaced, Deletes
    <3> QED
      BY <3>1 DEF Suffering
  <2>5. GoodThread(r)'
    BY <2>2, <2>3, <2>4 DEF GoodThread, WellPlaced, Holds, Carries, Serves, Deletes
  <2> QED
    BY <2>1, <2>2, <2>5 DEF GoodThread, WellPlaced, Holds, Carries, Serves, Deletes
<1> QED
  BY <1>1, <1>2

LEMMA TouchedRegistered ==
    ASSUME Good, NEW m, Touches(m), Suffering(m)
    PROVE  /\ \A n \in Material : Registered(n)'
           /\ \A k, n \in Material : InTurn(k, n)' /\ Apart(k, n)'
<1>1. ASSUME NEW n \in Material PROVE Registered(n)'
  <2>1. Registered(n) /\ fate[n] \subseteq fate'[n]
    BY DEF Good, Suffering
  <2>2. CASE n = m
    BY <2>1, <2>2 DEF Touches, Registered
  <2>3. CASE n # m
    BY <2>1, <2>3 DEF Touches, Registered
  <2> QED
    BY <2>2, <2>3
<1>2. \A n \in Material :
          /\ fate[n] \subseteq fate'[n]
          /\ rec'[n] # NoRecord <=> rec[n] # NoRecord
          /\ rec[n] # NoRecord => rec'[n].file = rec[n].file
  BY DEF Touches, Suffering
<1>3. ASSUME NEW k \in Material, NEW n \in Material PROVE InTurn(k, n)' /\ Apart(k, n)'
  <2>1. InTurn(k, n) /\ Apart(k, n)
    BY DEF Good
  <2>2. InTurn(k, n)'
    BY <1>2, <2>1 DEF InTurn
  <2>3. CASE k < n /\ rec'[n] # NoRecord
    <3>1. rec'[k].file = rec[k].file /\ rec'[n].file = rec[n].file /\ rec[n] # NoRecord
      BY <1>2, <2>1, <2>3 DEF InTurn
    <3> QED
      BY <1>2, <2>1, <2>2, <3>1 DEF Apart
  <2> QED
    BY <2>2, <2>3 DEF Apart
<1> QED
  BY <1>1, <1>3

\* What is owed to a material after a step of thread a: either the step paid, or the
\* thread owes it now, or the step left things as they were and the thread owed nothing.
LEMMA OrderKept ==
    ASSUME Good, NEW a \in Actors, NEW p, Moves(a, p), NEW n \in Material,
           Untroubled(n)' => Untroubled(n) /\ "source" \in files'[n],
           Queued(n) => Queued(n)' \/ (p.m = n /\ Settles(p) /\ Parses(p)),
           \/ Settled(n)'
           \/ p.m = n /\ Settles(p)
           \/ (Settled(n) => Settled(n)') /\ ~(proc[a].m = n /\ Settles(proc[a])),
           \/ "parsed" \in files'[n]
           \/ p.m = n /\ Parses(p)
           \/ /\ "parsed" \in files[n] => "parsed" \in files'[n]
              /\ ~(proc[a].m = n /\ Parses(proc[a])),
           \/ Studied(n)'
           \/ p.m = n /\ Studies(p)
           \/ (Studied(n) => Studied(n)') /\ ~(proc[a].m = n /\ Studies(proc[a]))
    PROVE  InOrder(n)'
<1> SUFFICES ASSUME Untroubled(n)'
             PROVE  "source" \in files'[n] /\ Settling(n)' /\ Parsing(n)' /\ Studying(n)'
  BY DEF InOrder
<1>1. "source" \in files'[n] /\ Settling(n) /\ Parsing(n) /\ Studying(n)
  BY DEF Good, InOrder
<1>2. proc'[a] = p /\ \A b \in Actors \ {a} : proc'[b] = proc[b]
  BY DEF Moves
<1>3. p.m = n /\ Settles(p) => Settling(n)'
  BY <1>2 DEF Settling, Settles, Serves
<1>4. p.m = n /\ Parses(p) => Parsing(n)' /\ Studying(n)'
  BY <1>2 DEF Parsing, Parses, Studying, Studies, Serves
<1>5. p.m = n /\ Studies(p) => Studying(n)'
  BY <1>2 DEF Studying, Studies, Parses, Serves
<1>6. Queued(n)' => Settling(n)' /\ Parsing(n)' /\ Studying(n)'
  BY DEF Settling, Parsing, Studying
<1>7. ASSUME NEW b \in Actors, b # a, proc[b].m = n
      PROVE  /\ Settles(proc[b]) => Settling(n)'
             /\ Parses(proc[b]) => Parsing(n)'
             /\ Studies(proc[b]) => Studying(n)'
  <2>1. proc'[b] = proc[b]
    BY <1>2, <1>7
  <2> QED
    BY <1>7, <2>1 DEF Settling, Parsing, Studying, Settles, Parses, Studies, Serves
<1>8. Settling(n)'
  <2>1. Settled(n)' => Settling(n)'
    BY DEF Settling
  <2> QED
    BY <1>1, <1>3, <1>6, <1>7, <2>1 DEF Settling
<1>9. Parsing(n)'
  <2>1. "parsed" \in files'[n] => Parsing(n)'
    BY DEF Parsing
  <2> QED
    BY <1>1, <1>4, <1>6, <1>7, <2>1 DEF Parsing
<1>10. Studying(n)'
  <2>1. Studied(n)' => Studying(n)'
    BY DEF Studying
  <2> QED
    BY <1>1, <1>4, <1>5, <1>6, <1>7, <2>1 DEF Studying
<1> QED
  BY <1>1, <1>8, <1>9, <1>10

LEMMA StepGood ==
    ASSUME Good, NEW a \in Actors, NEW p, NEW m \in Material \cup {0},
           Moves(a, p), Touches(m), Suffering(m), Bounded, GoodThread(p)',
           \A n \in Material : n # m => (Queued(n) => Queued(n)'),
           Serves(proc[a]) => proc[a].m = m,
           m \in Material => InOrder(m)'
    PROVE  Good'
<1>1. TypeOK'
  BY DEF Moves, Touches, Suffering, Bounded, TypeOK
<1>2. ASSUME NEW n \in Material PROVE InOrder(n)'
  <2>1. CASE n = m
    BY <2>1
  <2>2. CASE n # m
    <3>1. /\ rec'[n] = rec[n] /\ files'[n] = files[n] /\ catalog'[n] = catalog[n]
          /\ fate'[n] = fate[n]
      BY <2>2 DEF Touches, Suffering
    <3>2. ~(proc[a].m = n /\ Serves(proc[a]))
      BY <2>2
    <3>3. Untroubled(n)' => Untroubled(n) /\ "source" \in files'[n]
      BY <3>1 DEF Untroubled, Good, InOrder
    <3>4. (Settled(n) => Settled(n)') /\ (Studied(n) => Studied(n)')
      BY <3>1 DEF Settled, Studied
    <3>5. /\ ~(proc[a].m = n /\ Settles(proc[a]))
          /\ ~(proc[a].m = n /\ Parses(proc[a]))
          /\ ~(proc[a].m = n /\ Studies(proc[a]))
      BY <3>2 DEF Settles, Parses, Studies
    <3> QED
      BY <2>2, <3>1, <3>3, <3>4, <3>5, OrderKept
  <2> QED
    BY <2>1, <2>2
<1> QED
  BY <1>1, <1>2, MoveThreads, TouchedRegistered DEF Good

-----------------------------------------------------------------------------
\* What the operators the steps are made of do to the stores and to the thread.

LEMMA ThreadGood ==
    ASSUME Good, NEW a \in Actors
    PROVE  /\ proc[a] \in Thread /\ GoodThread(proc[a])
           /\ Serves(proc[a]) => proc[a].m \in Material
           /\ Carries(proc[a]) => Serves(proc[a]) /\ rec[proc[a].m] # NoRecord
                                  /\ proc[a].copy.file = rec[proc[a].m].file
BY DEF Good, TypeOK, GoodThread, WellPlaced, Holds, Carries, Serves

LEMMA StoresKept ==
    ASSUME Good, NEW m, UNCHANGED <<rec, listed, files, catalog>> PROVE Touches(m)
<1>1. \A n \in Material : Registered(n)
  BY DEF Good
<1>2. \A n \in Material :
          \/ rec[n] = NoRecord /\ n \notin listed /\ files[n] = {}
          \/ rec[n] # NoRecord
  BY <1>1 DEF Registered
<1> QED
  BY <1>2 DEF Good, TypeOK, Touches

LEMMA FateKept == ASSUME Good, NEW m, UNCHANGED fate PROVE Suffering(m)
BY DEF Good, TypeOK, Suffering

LEMMA SuffersMore ==
    ASSUME Good, NEW m \in Material, NEW what \in Fate, Suffers(m, what)
    PROVE  Suffering(m) /\ what \in fate'[m] /\ ~Untroubled(m)'
BY DEF Good, TypeOK, Suffers, Suffering, Untroubled

LEMMA RunnerKept ==
    ASSUME Good, UNCHANGED <<queue, ops, kills>>, index' \in SUBSET Material,
           futures' \in [Material -> {"none", "pending", "running", "done"}],
           lock' \in Actors \cup {None}
    PROVE  Bounded /\ \A n \in Material : Queued(n) => Queued(n)'
BY DEF Good, TypeOK, Bounded, Queued

LEMMA SaveTouches ==
    ASSUME Good, NEW m \in Material, NEW r \in Record, Save(m, r), UNCHANGED catalog,
           rec[m] # NoRecord, r.file = rec[m].file
    PROVE  /\ Touches(m) /\ rec'[m] = r /\ files'[m] = files[m] \cup {"record"}
           /\ Studied(m) => Studied(m)'
           /\ "source" \in files[m] => "source" \in files'[m]
           /\ "parsed" \in files'[m] <=> "parsed" \in files[m]
<1>1. /\ rec \in [Material -> Record] /\ listed \in SUBSET Material
      /\ files \in [Material -> SUBSET File] /\ catalog \in [Material -> {"none", "parsed", "study"}]
  BY DEF Good, TypeOK
<1>2. /\ rec' = [rec EXCEPT ![m] = r]
      /\ files' = [files EXCEPT ![m] = files[m] \cup {"record"}]
      /\ listed' = listed \cup {m}
  BY DEF Save
<1>3. "record" \in File
  BY DEF File
<1>4. /\ rec' \in [Material -> Record] /\ rec'[m] = r
      /\ \A n \in Material : n # m => rec'[n] = rec[n]
  BY <1>1, <1>2
<1>5. /\ files' \in [Material -> SUBSET File] /\ files'[m] = files[m] \cup {"record"}
      /\ \A n \in Material : n # m => files'[n] = files[n]
  BY <1>1, <1>2, <1>3
<1>6. /\ listed' \in SUBSET Material /\ m \in listed'
      /\ \A n \in Material : n # m => (n \in listed' <=> n \in listed)
  BY <1>1, <1>2
<1>7. r # NoRecord
  <2>1. Registered(m)
    BY DEF Good
  <2> QED
    BY <2>1, NoRecordType, ChoicesAssumption DEF Registered
<1>8. Touches(m)
  BY <1>1, <1>4, <1>5, <1>6, <1>7 DEF Touches
<1> QED
  BY <1>4, <1>5, <1>8 DEF Studied

LEMMA GoOnMoves ==
    ASSUME Good, NEW a \in Actors, NEW pc \in Pc, GoOn(a, pc)
    PROVE  \E p : /\ Moves(a, p) /\ p.pc = pc /\ p.op = proc[a].op
                  /\ p.m = proc[a].m /\ p.copy = proc[a].copy
<1> DEFINE p == [proc[a] EXCEPT !.pc = pc]
<1>1. proc[a] \in Thread
  BY DEF Good, TypeOK
<1>2. /\ p \in Thread /\ p.pc = pc /\ p.op = proc[a].op
      /\ p.m = proc[a].m /\ p.copy = proc[a].copy
  BY <1>1 DEF Thread
<1>3. proc' = [proc EXCEPT ![a] = p]
  BY DEF GoOn
<1> HIDE DEF p
<1>4. Moves(a, p)
  BY <1>2, <1>3 DEF Moves, Good, TypeOK
<1> QED
  BY <1>2, <1>4

LEMMA PutMoves ==
    ASSUME Good, NEW a \in Actors, NEW p \in Thread, proc' = [proc EXCEPT ![a] = p]
    PROVE  Moves(a, p)
BY DEF Moves, Good, TypeOK

LEMMA LeaveMoves ==
    ASSUME Good, NEW a \in Actors, NEW m, Leave(a, m),
           proc[a].op = "job" => m \in Material
    PROVE  \E p : /\ Moves(a, p) /\ GoodThread(p) /\ GoodThread(p)' /\ ~Serves(p)
                  /\ p.op = "none" \/ p.pc = "return"
<1> DEFINE p == [Free EXCEPT !.op = "job", !.pc = "return", !.m = m]
<1>1. CASE proc[a].op = "job"
  <2>1. p \in Thread /\ p.op = "job" /\ p.pc = "return" /\ p.m = m
    BY <1>1, FreeType DEF Thread, Op, Pc
  <2>2. proc' = [proc EXCEPT ![a] = p]
    BY <1>1 DEF Leave
  <2> HIDE DEF p
  <2>3. GoodThread(p) /\ GoodThread(p)' /\ ~Serves(p)
    BY <1>1, <2>1 DEF GoodThread, WellPlaced, Holds, Carries, Serves, Deletes
  <2> QED
    BY <2>1, <2>2, <2>3, PutMoves
<1>2. CASE proc[a].op # "job"
  <2>1. proc' = [proc EXCEPT ![a] = Free]
    BY <1>2 DEF Leave, Return
  <2> QED
    BY <2>1, FreeType, FreeGood, PutMoves
<1> QED
  BY <1>1, <1>2

\* Whatever was done to the material of a thread before, its step may end with an exception.
LEMMA RaiseGood ==
    ASSUME Good, NEW a \in Actors, NEW m \in Material, proc[a].m = m, Raise(a, m), Touches(m),
           Carries(proc[a]) \/ proc[a].op # "reprocess",
           UNCHANGED <<index, futures, queue, lock, ops, kills>>
    PROVE  Good'
<1> DEFINE q == proc[a]
<1>1. Suffering(m) /\ ~Untroubled(m)'
  BY SuffersMore DEF Raise, Fate
<1>2. InOrder(m)'
  BY <1>1 DEF InOrder
<1>3. CASE q.op = "reprocess"
  <2>1. GoOn(a, "mark") /\ "mark" \in Pc
    BY <1>3 DEF Raise, Pc
  <2>2. PICK p : /\ Moves(a, p) /\ p.pc = "mark" /\ p.op = q.op
                 /\ p.m = q.m /\ p.copy = q.copy
    BY <2>1, GoOnMoves
  <2>3. Bounded /\ \A n \in Material : Queued(n) => Queued(n)'
    BY <2>1, RunnerKept DEF Good, TypeOK
  <2>4. rec[m] # NoRecord /\ q.copy.file = rec[m].file
    BY <1>3, ThreadGood
  <2>5. rec'[m] # NoRecord /\ rec'[m].file = rec[m].file
    BY <2>4 DEF Touches
  <2>6. GoodThread(p)'
    BY <1>3, <2>2, <2>4, <2>5 DEF GoodThread, WellPlaced, Holds, Deletes, PipelinePcs
  <2> QED
    BY <1>1, <1>2, <2>2, <2>3, <2>6, StepGood
<1>4. CASE q.op # "reprocess"
  <2>1. Leave(a, m)
    BY <1>4 DEF Raise
  <2>2. PICK p : Moves(a, p) /\ GoodThread(p)'
    BY <2>1, LeaveMoves
  <2>3. Bounded /\ \A n \in Material : Queued(n) => Queued(n)'
    BY RunnerKept DEF Good, TypeOK
  <2> QED
    BY <1>1, <1>2, <2>2, <2>3, StepGood
<1> QED
  BY <1>3, <1>4

-----------------------------------------------------------------------------
\* Steps of the pipeline.

\* A step that leaves the stores, the queue and the fates as they are.
LEMMA CalmStepGood ==
    ASSUME Good, NEW a \in Actors, NEW p, Moves(a, p), GoodThread(p)', Bounded,
           UNCHANGED <<rec, listed, files, catalog, queue, fate>>,
           Serves(proc[a]) => p.m = proc[a].m \/ ~Settles(proc[a]),
           Settles(proc[a]) => Settles(p),
           Parses(proc[a]) => Parses(p),
           Studies(proc[a]) => Studies(p) \/ Studied(p.m)
    PROVE  Good'
<1>1. PICK m \in Material \cup {0} : m = proc[a].m
  BY ThreadGood DEF Thread
<1>2. Touches(m) /\ Suffering(m)
  BY StoresKept, FateKept
<1>3. \A n \in Material : Queued(n) => Queued(n)'
  BY DEF Queued
<1>4. ASSUME m \in Material PROVE InOrder(m)'
  <2>1. Untroubled(m)' => Untroubled(m) /\ "source" \in files'[m]
    BY <1>4 DEF Good, InOrder, Untroubled
  <2>2. (Settled(m) => Settled(m)') /\ (Studied(m) => Studied(m)')
    BY DEF Settled, Studied
  <2>3. Parses(proc[a]) \/ Studies(proc[a]) => Settles(proc[a])
    BY DEF Settles, Parses, Studies
  <2>4. Settles(proc[a]) => p.m = m
    BY <1>1 DEF Settles
  <2> QED
    BY <1>3, <1>4, <2>1, <2>2, <2>3, <2>4, OrderKept
<1> QED
  BY <1>1, <1>2, <1>3, <1>4, StepGood

LEMMA QuietStepGood ==
    ASSUME Good, NEW a \in Actors, NEW p, Moves(a, p), GoodThread(p)',
           UNCHANGED <<rec, listed, files, catalog, index, futures, queue, lock, fate, ops, kills>>,
           Serves(proc[a]) => p.m = proc[a].m \/ ~Settles(proc[a]),
           Settles(proc[a]) => Settles(p),
           Parses(proc[a]) => Parses(p),
           Studies(proc[a]) => Studies(p) \/ Studied(p.m)
    PROVE  Good'
<1>1. Bounded
  BY RunnerKept DEF Good, TypeOK
<1> QED
  BY <1>1, CalmStepGood

\* A step that saves the record, with the content it has.
LEMMA SaveStepGood ==
    ASSUME Good, NEW a \in Actors, NEW p, Moves(a, p), Carries(proc[a]),
           WellPlaced(p), p.op # "delete", Serves(p) => p.m = proc[a].m,
           Carries(p) => p.copy.file = proc[a].copy.file,
           NEW r \in Record, Save(proc[a].m, r), r.file = proc[a].copy.file,
           UNCHANGED <<catalog, index, futures, queue, lock, fate, ops, kills>>,
           r.stage \in {"ready", "failed"} \/ Settles(p),
           Parses(proc[a]) => Parses(p),
           Studies(proc[a]) => Studies(p)
    PROVE  Good'
<1>1. PICK m \in Material :
          /\ m = proc[a].m /\ Serves(proc[a])
          /\ rec[m] # NoRecord /\ proc[a].copy.file = rec[m].file
  BY ThreadGood
<1>2. /\ Touches(m) /\ rec'[m] = r
      /\ Studied(m) => Studied(m)'
      /\ "source" \in files[m] => "source" \in files'[m]
      /\ "parsed" \in files'[m] <=> "parsed" \in files[m]
      /\ files'[m] = files[m] \cup {"record"}
  BY <1>1, SaveTouches
<1>3. Suffering(m)
  BY FateKept
<1>4. Bounded /\ \A n \in Material : Queued(n) => Queued(n)'
  BY RunnerKept DEF Good, TypeOK
<1>5. GoodThread(p)'
  <2>1. Carries(p) => rec'[p.m] # NoRecord /\ p.copy.file = rec'[p.m].file
    BY <1>1, <1>2 DEF Carries, Touches
  <2> QED
    BY <2>1 DEF GoodThread, WellPlaced, Holds, Carries, Serves, Deletes
<1>6. InOrder(m)'
  <2>1. Untroubled(m)' => Untroubled(m) /\ "source" \in files'[m]
    BY <1>1, <1>2 DEF Good, InOrder, Untroubled
  <2>2. Settled(m)' \/ (p.m = m /\ Settles(p))
    BY <1>1, <1>2 DEF Settled, Settles
  <2>3. \/ "parsed" \in files'[m]
        \/ p.m = m /\ Parses(p)
        \/ "parsed" \notin files[m] /\ ~Parses(proc[a])
    BY <1>1, <1>2 DEF Parses
  <2>4. \/ p.m = m /\ Studies(p)
        \/ ~Studies(proc[a])
    BY <1>1 DEF Studies, Parses
  <2> QED
    BY <1>1, <1>2, <1>4, <2>1, <2>2, <2>3, <2>4, OrderKept
<1> QED
  BY <1>1, <1>2, <1>3, <1>4, <1>5, <1>6, StepGood

LEMMA ExtractingType ==
    ASSUME NEW r \in Record
    PROVE  Extracting(r) \in Record /\ Extracting(r).file = r.file
BY DEF Extracting, Record

LEMMA ReadGood == ASSUME Good, NEW a \in Actors, ReadMaterial(a) PROVE Good'
<1>1. PICK m \in Material : m = proc[a].m
  BY ThreadGood DEF ReadMaterial, GoodThread, WellPlaced
<1>2. /\ proc[a] \in Thread /\ GoodThread(proc[a]) /\ proc[a].pc = "read"
      /\ UNCHANGED <<rec, listed, files, catalog, index, futures, queue, lock, ops, kills>>
  BY ThreadGood DEF ReadMaterial, stores, runner, counts
<1>3. proc[a].op \in {"upload", "job", "reprocess"}
  BY <1>2 DEF GoodThread, WellPlaced, Thread, Op
<1>4. CASE /\ Found(m)
           /\ proc' = [proc EXCEPT ![a].pc = "extract", ![a].copy = Extracting(rec[m])]
           /\ UNCHANGED fate
  <2> DEFINE next == [proc[a] EXCEPT !.pc = "extract", !.copy = Extracting(rec[m])]
  <2>1. /\ rec[m] \in Record /\ Registered(m)
        /\ Extracting(rec[m]) \in Record /\ Extracting(rec[m]).file = rec[m].file
    BY ExtractingType DEF Good, TypeOK
  <2>2. /\ next \in Thread /\ next.pc = "extract" /\ next.op = proc[a].op /\ next.m = m
        /\ next.copy.file = rec[m].file
    BY <1>1, <1>2, <2>1 DEF Thread, Pc, PipelinePcs
  <2>3. proc' = [proc EXCEPT ![a] = next]
    BY <1>4
  <2> HIDE DEF next
  <2>4. PICK p : /\ Moves(a, p) /\ p.pc = "extract" /\ p.op = proc[a].op /\ p.m = m
                 /\ p.copy.file = rec[m].file
    BY <2>2, <2>3, PutMoves
  <2>5. rec'[m] # NoRecord /\ p.copy.file = rec'[m].file
    BY <1>2, <1>4, <2>1, <2>4, FoundIsRegistered
  <2>6. GoodThread(p)'
    BY <1>3, <2>4, <2>5 DEF GoodThread, WellPlaced, Holds, Deletes, PipelinePcs
  <2>7. Settles(p) /\ Parses(p) /\ Studies(p)
    BY <1>3, <2>4 DEF Settles, Parses, Studies, Serves
  <2> QED
    BY <1>1, <1>2, <1>4, <2>4, <2>6, <2>7, QuietStepGood
<1>5. CASE Raise(a, m)
  <2>1. Carries(proc[a]) \/ proc[a].op # "reprocess"
    BY <1>2 DEF Carries, Serves
  <2> QED
    BY <1>1, <1>2, <1>5, <2>1, RaiseGood, StoresKept
<1> QED
  BY <1>1, <1>4, <1>5 DEF ReadMaterial

LEMMA SaveExtractingGood == ASSUME Good, NEW a \in Actors, SaveExtracting(a) PROVE Good'
<1>1. /\ proc[a] \in Thread /\ GoodThread(proc[a]) /\ proc[a].pc = "extract"
      /\ UNCHANGED <<catalog, index, futures, queue, lock, fate, ops, kills>>
  BY ThreadGood DEF SaveExtracting, runner, counts
<1>2. GoOn(a, "parse") /\ "parse" \in Pc
  BY DEF SaveExtracting, Pc, PipelinePcs
<1>3. PICK p : /\ Moves(a, p) /\ p.pc = "parse" /\ p.op = proc[a].op
               /\ p.m = proc[a].m /\ p.copy = proc[a].copy
  BY <1>2, GoOnMoves
<1>4. proc[a].op \in {"upload", "job", "reprocess"}
  BY <1>1 DEF GoodThread, WellPlaced, Thread, Op
<1>5. WellPlaced(p)
  BY <1>1, <1>3, <1>4 DEF GoodThread, WellPlaced, PipelinePcs
<1>6. Carries(proc[a]) /\ Settles(p) /\ Parses(p) /\ Studies(p)
  BY <1>1, <1>3, <1>4 DEF Carries, Settles, Parses, Studies, Serves
<1>7. proc[a].copy \in Record /\ Save(proc[a].m, proc[a].copy)
  BY <1>1 DEF Thread, SaveExtracting
<1> QED
  BY <1>1, <1>3, <1>4, <1>5, <1>6, <1>7, SaveStepGood

LEMMA ParseGood == ASSUME Good, NEW a \in Actors, Parse(a) PROVE Good'
<1>1. /\ proc[a] \in Thread /\ GoodThread(proc[a]) /\ proc[a].pc = "parse"
      /\ UNCHANGED <<catalog, index, futures, queue, lock, ops, kills>>
  BY ThreadGood DEF Parse, runner, counts
<1>2. proc[a].op \in {"upload", "job", "reprocess"}
  BY <1>1 DEF GoodThread, WellPlaced, Thread, Op
<1>3. PICK m \in Material : m = proc[a].m
  BY <1>1, <1>2 DEF GoodThread, WellPlaced
<1>4. Carries(proc[a])
  BY <1>1, <1>2 DEF Carries, Serves
<1>5. CASE Save(m, proc[a].copy) /\ GoOn(a, "files") /\ UNCHANGED fate
  <2>1. PICK p : /\ Moves(a, p) /\ p.pc = "files" /\ p.op = proc[a].op
                 /\ p.m = proc[a].m /\ p.copy = proc[a].copy
    BY <1>5, GoOnMoves DEF Pc, PipelinePcs
  <2>2. WellPlaced(p)
    BY <1>1, <1>2, <2>1 DEF GoodThread, WellPlaced, PipelinePcs
  <2>3. Settles(p) /\ Parses(p) /\ Studies(p)
    BY <1>2, <2>1 DEF Settles, Parses, Studies, Serves
  <2>4. proc[a].copy \in Record
    BY <1>1 DEF Thread
  <2> QED
    BY <1>1, <1>2, <1>3, <1>4, <1>5, <2>1, <2>2, <2>3, <2>4, SaveStepGood
<1>6. CASE GoOn(a, "fail") /\ UNCHANGED <<rec, files, listed, fate>>
  <2>1. PICK p : /\ Moves(a, p) /\ p.pc = "fail" /\ p.op = proc[a].op
                 /\ p.m = proc[a].m /\ p.copy = proc[a].copy
    BY <1>6, GoOnMoves DEF Pc, PipelinePcs
  <2>2. rec'[p.m] # NoRecord /\ p.copy.file = rec'[p.m].file
    BY <1>4, <1>6, <2>1, ThreadGood
  <2>3. GoodThread(p)'
    BY <1>1, <1>2, <2>1, <2>2 DEF GoodThread, WellPlaced, Holds, Deletes, PipelinePcs
  <2>4. Settles(p) /\ Parses(p) /\ Studies(p)
    BY <1>2, <2>1 DEF Settles, Parses, Studies, Serves
  <2> QED
    BY <1>1, <1>6, <2>1, <2>3, <2>4, QuietStepGood
<1>7. CASE Raise(a, m) /\ UNCHANGED <<rec, files, listed>>
  BY <1>1, <1>3, <1>4, <1>7, RaiseGood, StoresKept
<1> QED
  BY <1>3, <1>5, <1>6, <1>7 DEF Parse

LEMMA WriteParsedGood == ASSUME Good, NEW a \in Actors, WriteParsed(a) PROVE Good'
<1>1. /\ proc[a] \in Thread /\ GoodThread(proc[a]) /\ proc[a].pc = "files"
      /\ UNCHANGED <<rec, listed, catalog, index, futures, queue, lock, fate, ops, kills>>
  BY ThreadGood DEF WriteParsed, runner, counts
<1>2. proc[a].op \in {"upload", "job", "reprocess"}
  BY <1>1 DEF GoodThread, WellPlaced, Thread, Op
<1>3. PICK m \in Material : m = proc[a].m
  BY <1>1, <1>2 DEF GoodThread, WellPlaced
<1>4. rec[m] # NoRecord /\ proc[a].copy.file = rec[m].file
  BY <1>1, <1>2, <1>3, ThreadGood DEF Carries, Serves
<1>5. PICK p : /\ Moves(a, p) /\ p.pc = "record" /\ p.op = proc[a].op
               /\ p.m = proc[a].m /\ p.copy = proc[a].copy
  BY GoOnMoves DEF WriteParsed, Pc, PipelinePcs
<1>6. /\ files' \in [Material -> SUBSET File]
      /\ files'[m] = files[m] \cup {"source", "parsed"}
      /\ \A n \in Material : n # m => files'[n] = files[n]
  <2>1. files \in [Material -> SUBSET File] /\ {"source", "parsed"} \subseteq File
    BY DEF Good, TypeOK, File
  <2>2. files' = [files EXCEPT ![m] = files[m] \cup {"source", "parsed"}]
    BY <1>3 DEF WriteParsed
  <2> QED
    BY <2>1, <2>2
<1>7. Touches(m)
  BY <1>1, <1>4, <1>6 DEF Good, TypeOK, Touches
<1>8. Suffering(m) /\ Bounded /\ \A n \in Material : Queued(n) => Queued(n)'
  BY <1>1, FateKept, RunnerKept DEF Good, TypeOK
<1>9. GoodThread(p)'
  BY <1>1, <1>2, <1>3, <1>4, <1>5 DEF GoodThread, WellPlaced, Holds, Deletes, PipelinePcs
<1>10. InOrder(m)'
  <2>1. Settles(p) /\ Studies(p)
    BY <1>2, <1>5 DEF Settles, Studies, Serves
  <2>2. "parsed" \in files'[m] /\ (Untroubled(m)' => Untroubled(m) /\ "source" \in files'[m])
    BY <1>1, <1>6 DEF Untroubled
  <2> QED
    BY <1>3, <1>5, <1>8, <2>1, <2>2, OrderKept
<1> QED
  BY <1>3, <1>5, <1>7, <1>8, <1>9, <1>10, StepGood

LEMMA SaveCompletedGood == ASSUME Good, NEW a \in Actors, SaveCompleted(a) PROVE Good'
<1>1. /\ proc[a] \in Thread /\ GoodThread(proc[a]) /\ proc[a].pc = "record"
      /\ UNCHANGED <<catalog, index, futures, queue, lock, fate, ops, kills>>
  BY ThreadGood DEF SaveCompleted, runner, counts
<1>2. PICK p : /\ Moves(a, p) /\ p.pc = "catalog" /\ p.op = proc[a].op
               /\ p.m = proc[a].m /\ p.copy = proc[a].copy
  BY GoOnMoves DEF SaveCompleted, Pc, PipelinePcs
<1>3. proc[a].op \in {"upload", "job", "reprocess"}
  BY <1>1 DEF GoodThread, WellPlaced, Thread, Op
<1>4. WellPlaced(p)
  BY <1>1, <1>2, <1>3 DEF GoodThread, WellPlaced, PipelinePcs
<1>5. Carries(proc[a]) /\ Settles(p) /\ Studies(p) /\ ~Parses(proc[a])
  BY <1>1, <1>2, <1>3 DEF Carries, Settles, Parses, Studies, Serves
<1>6. PICK r \in Record : Save(proc[a].m, r) /\ r.file = proc[a].copy.file
  <2> DEFINE r == [proc[a].copy EXCEPT !.status = "completed", !.stage = "enriching"]
  <2>1. r \in Record /\ r.file = proc[a].copy.file
    BY <1>1 DEF Thread, Record
  <2>2. Save(proc[a].m, r)
    BY DEF SaveCompleted
  <2> HIDE DEF r
  <2> QED
    BY <2>1, <2>2
<1> QED
  BY <1>1, <1>2, <1>3, <1>4, <1>5, <1>6, SaveStepGood

LEMMA ReplaceSectionsGood == ASSUME Good, NEW a \in Actors, ReplaceSections(a) PROVE Good'
<1>1. /\ proc[a] \in Thread /\ GoodThread(proc[a]) /\ proc[a].pc = "catalog"
      /\ UNCHANGED <<rec, listed, files, index, futures, queue, lock, fate, ops, kills>>
  BY ThreadGood DEF ReplaceSections, runner, counts
<1>2. proc[a].op \in {"upload", "job", "reprocess"}
  BY <1>1 DEF GoodThread, WellPlaced, Thread, Op
<1>3. PICK m \in Material : m = proc[a].m
  BY <1>1, <1>2 DEF GoodThread, WellPlaced
<1>4. rec[m] # NoRecord /\ proc[a].copy.file = rec[m].file
  BY <1>1, <1>2, <1>3, ThreadGood DEF Carries, Serves
<1>5. PICK p : /\ Moves(a, p) /\ p.pc = "build" /\ p.op = proc[a].op
               /\ p.m = proc[a].m /\ p.copy = proc[a].copy
  BY GoOnMoves DEF ReplaceSections, Pc, PipelinePcs
<1>6. /\ catalog' \in [Material -> {"none", "parsed", "study"}]
      /\ \A n \in Material : n # m => catalog'[n] = catalog[n]
  BY <1>3 DEF ReplaceSections, Good, TypeOK
<1>7. Touches(m)
  BY <1>1, <1>4, <1>6 DEF Good, TypeOK, Touches
<1>8. Suffering(m) /\ Bounded /\ \A n \in Material : Queued(n) => Queued(n)'
  BY <1>1, FateKept, RunnerKept DEF Good, TypeOK
<1>9. GoodThread(p)'
  BY <1>1, <1>2, <1>3, <1>4, <1>5 DEF GoodThread, WellPlaced, Holds, Deletes, PipelinePcs
<1>10. InOrder(m)'
  <2>1. Settles(p) /\ Studies(p) /\ ~Parses(proc[a])
    BY <1>1, <1>2, <1>5 DEF Settles, Parses, Studies, Serves
  <2>2. Untroubled(m)' => Untroubled(m) /\ "source" \in files'[m]
    BY <1>1 DEF Good, InOrder, Untroubled
  <2> QED
    BY <1>1, <1>3, <1>5, <1>8, <2>1, <2>2, OrderKept
<1> QED
  BY <1>3, <1>5, <1>7, <1>8, <1>9, <1>10, StepGood

LEMMA BuildStudyGood == ASSUME Good, NEW a \in Actors, BuildStudy(a) PROVE Good'
<1>1. /\ proc[a] \in Thread /\ GoodThread(proc[a]) /\ proc[a].pc = "build"
      /\ UNCHANGED <<rec, listed, files, catalog, index, futures, queue, lock, ops, kills>>
  BY ThreadGood DEF BuildStudy, stores, runner, counts
<1>2. proc[a].op \in {"upload", "job", "reprocess", "regenerate"}
  BY <1>1 DEF GoodThread, WellPlaced, Thread, Op
<1>3. PICK m \in Material : m = proc[a].m
  BY <1>1, <1>2 DEF GoodThread, WellPlaced
<1>4. Carries(proc[a]) /\ ~Parses(proc[a])
  BY <1>1, <1>2 DEF Carries, Parses, Serves
<1>5. ASSUME NEW pc \in {"study", "reread"}, GoOn(a, pc), UNCHANGED fate,
             pc = "reread" => proc[a].op = "regenerate"
      PROVE  Good'
  <2>1. PICK p : /\ Moves(a, p) /\ p.pc = pc /\ p.op = proc[a].op
                 /\ p.m = proc[a].m /\ p.copy = proc[a].copy
    BY <1>5, GoOnMoves DEF Pc, PipelinePcs
  <2>2. rec'[p.m] # NoRecord /\ p.copy.file = rec'[p.m].file
    BY <1>1, <1>4, <2>1, ThreadGood
  <2>3. GoodThread(p)'
    BY <1>1, <1>2, <2>1, <2>2 DEF GoodThread, WellPlaced, Holds, Deletes, PipelinePcs
  <2>4. Settles(p) /\ (Studies(proc[a]) => Studies(p))
    BY <1>2, <1>4, <1>5, <2>1 DEF Settles, Parses, Studies, Serves
  <2> QED
    BY <1>1, <1>4, <1>5, <2>1, <2>3, <2>4, QuietStepGood
<1>6. CASE Raise(a, m)
  BY <1>1, <1>3, <1>4, <1>6, RaiseGood, StoresKept
<1> QED
  BY <1>3, <1>5, <1>6 DEF BuildStudy

LEMMA SaveStudyGood == ASSUME Good, NEW a \in Actors, SaveStudy(a) PROVE Good'
<1>1. /\ proc[a] \in Thread /\ GoodThread(proc[a]) /\ proc[a].pc = "study"
      /\ UNCHANGED <<rec, listed, index, futures, queue, lock, ops, kills>>
  BY ThreadGood DEF SaveStudy, runner, counts
<1>2. proc[a].op \in {"upload", "job", "reprocess", "regenerate"}
  BY <1>1 DEF GoodThread, WellPlaced, Thread, Op
<1>3. PICK m \in Material : m = proc[a].m
  BY <1>1, <1>2 DEF GoodThread, WellPlaced
<1>4. /\ Carries(proc[a]) /\ ~Parses(proc[a])
      /\ rec[m] # NoRecord /\ proc[a].copy.file = rec[m].file
  BY <1>1, <1>2, <1>3, ThreadGood DEF Carries, Parses, Serves
<1>5. CASE /\ files' = [files EXCEPT ![m] = @ \cup {"study"}]
           /\ catalog' = [catalog EXCEPT ![m] = "study"]
           /\ GoOn(a, "reread")
           /\ UNCHANGED fate
  <2>1. PICK p : /\ Moves(a, p) /\ p.pc = "reread" /\ p.op = proc[a].op
                 /\ p.m = proc[a].m /\ p.copy = proc[a].copy
    BY <1>5, GoOnMoves DEF Pc, PipelinePcs
  <2>2. /\ files' \in [Material -> SUBSET File]
        /\ files'[m] = files[m] \cup {"study"}
        /\ \A n \in Material : n # m => files'[n] = files[n]
    BY <1>5 DEF Good, TypeOK, File
  <2>3. /\ catalog' \in [Material -> {"none", "parsed", "study"}]
        /\ catalog'[m] = "study"
        /\ \A n \in Material : n # m => catalog'[n] = catalog[n]
    BY <1>5 DEF Good, TypeOK
  <2>4. Touches(m)
    BY <1>1, <1>4, <2>2, <2>3 DEF Good, TypeOK, Touches
  <2>5. Suffering(m) /\ Bounded /\ \A n \in Material : Queued(n) => Queued(n)'
    BY <1>1, <1>5, FateKept, RunnerKept DEF Good, TypeOK
  <2>6. GoodThread(p)'
    BY <1>1, <1>2, <1>3, <1>4, <2>1 DEF GoodThread, WellPlaced, Holds, Deletes, PipelinePcs
  <2>7. InOrder(m)'
    <3>1. Settles(p) /\ Studied(m)'
      BY <1>2, <2>1, <2>2, <2>3 DEF Settles, Studied, Serves
    <3>2. Untroubled(m)' => Untroubled(m) /\ "source" \in files'[m]
      BY <1>1, <1>5, <2>2 DEF Good, InOrder, Untroubled
    <3> QED
      BY <1>3, <1>4, <2>1, <2>2, <2>5, <3>1, <3>2, OrderKept
  <2> QED
    BY <1>3, <2>1, <2>4, <2>5, <2>6, <2>7, StepGood
<1>6. CASE Raise(a, m) /\ UNCHANGED <<files, catalog>>
  BY <1>1, <1>3, <1>4, <1>6, RaiseGood, StoresKept
<1> QED
  BY <1>3, <1>5, <1>6 DEF SaveStudy

LEMMA RereadGood == ASSUME Good, NEW a \in Actors, RereadRecord(a) PROVE Good'
<1>1. /\ proc[a] \in Thread /\ GoodThread(proc[a]) /\ proc[a].pc = "reread"
      /\ UNCHANGED <<rec, listed, files, catalog, index, futures, queue, lock, fate, ops, kills>>
  BY ThreadGood DEF RereadRecord, stores, runner, counts
<1>2. proc[a].op \in {"upload", "job", "reprocess", "regenerate"}
  BY <1>1 DEF GoodThread, WellPlaced, Thread, Op
<1>3. PICK m \in Material : m = proc[a].m
  BY <1>1, <1>2 DEF GoodThread, WellPlaced
<1>4. rec[m] # NoRecord /\ proc[a].copy.file = rec[m].file
  BY <1>1, <1>2, <1>3, ThreadGood DEF Carries, Serves
<1>5. PICK r \in Record :
          /\ r.file = rec[m].file
          /\ proc' = [proc EXCEPT ![a].pc = "ready", ![a].copy = r]
  <2> DEFINE done == [proc[a].copy EXCEPT !.status = "completed"]
             fallback == IF proc[a].op = "regenerate" THEN proc[a].copy ELSE done
             r == IF Found(m) THEN rec[m] ELSE fallback
  <2>1. done \in Record /\ done.file = rec[m].file
    BY <1>1, <1>4 DEF Thread, Record
  <2>2. r \in Record /\ r.file = rec[m].file
    BY <1>1, <1>4, <2>1 DEF Good, TypeOK, Thread
  <2>3. proc' = [proc EXCEPT ![a].pc = "ready", ![a].copy = r]
    BY <1>3 DEF RereadRecord
  <2> HIDE DEF r
  <2> QED
    BY <2>2, <2>3
<1>6. PICK p : /\ Moves(a, p) /\ p.pc = "ready" /\ p.op = proc[a].op
               /\ p.m = m /\ p.copy = r
  <2> DEFINE next == [proc[a] EXCEPT !.pc = "ready", !.copy = r]
  <2>1. /\ next \in Thread /\ next.pc = "ready" /\ next.op = proc[a].op
        /\ next.m = m /\ next.copy = r
    BY <1>1, <1>3 DEF Thread, Pc, PipelinePcs
  <2>2. proc' = [proc EXCEPT ![a] = next]
    BY <1>5
  <2> HIDE DEF next
  <2> QED
    BY <2>1, <2>2, PutMoves
<1>7. GoodThread(p)'
  BY <1>1, <1>2, <1>4, <1>5, <1>6 DEF GoodThread, WellPlaced, Holds, Deletes, PipelinePcs
<1>8. Settles(p) /\ ~Parses(proc[a]) /\ ~Studies(proc[a])
  BY <1>1, <1>2, <1>6 DEF Settles, Parses, Studies, Serves
<1> QED
  BY <1>1, <1>3, <1>6, <1>7, <1>8, QuietStepGood

LEMMA SaveReadyGood == ASSUME Good, NEW a \in Actors, SaveReady(a) PROVE Good'
<1>1. /\ proc[a] \in Thread /\ GoodThread(proc[a]) /\ proc[a].pc = "ready"
      /\ UNCHANGED <<catalog, index, futures, queue, lock, fate, ops, kills>>
  BY ThreadGood DEF SaveReady, runner, counts
<1>2. proc[a].op \in {"upload", "job", "reprocess", "regenerate"}
  BY <1>1 DEF GoodThread, WellPlaced, Thread, Op
<1>3. Carries(proc[a]) /\ ~Parses(proc[a]) /\ ~Studies(proc[a])
  BY <1>1, <1>2 DEF Carries, Parses, Studies, Serves
<1>4. PICK r \in Record :
          Save(proc[a].m, r) /\ r.file = proc[a].copy.file /\ r.stage = "ready"
  <2> DEFINE r == [proc[a].copy EXCEPT !.stage = "ready"]
  <2>1. r \in Record /\ r.file = proc[a].copy.file /\ r.stage = "ready"
    BY <1>1 DEF Thread, Record
  <2>2. Save(proc[a].m, r)
    BY DEF SaveReady
  <2> HIDE DEF r
  <2> QED
    BY <2>1, <2>2
<1>5. CASE proc[a].op = "regenerate"
  <2>1. proc' = [proc EXCEPT ![a] = Free]
    BY <1>5 DEF SaveReady, Return
  <2>2. Moves(a, Free) /\ WellPlaced(Free) /\ ~Serves(Free) /\ ~Carries(Free)
    BY <2>1, FreeType, FreeGood, PutMoves DEF GoodThread, Carries
  <2> QED
    BY <1>1, <1>3, <1>4, <2>2, FreeType, SaveStepGood
<1>6. CASE proc[a].op # "regenerate"
  <2> DEFINE next == [proc[a] EXCEPT !.pc = "list", !.copy = Extracting(proc[a].copy)]
  <2>1. /\ next \in Thread /\ next.pc = "list" /\ next.op = proc[a].op
        /\ next.m = proc[a].m /\ next.copy.file = proc[a].copy.file
    BY <1>1, ExtractingType DEF Thread, Pc, PipelinePcs
  <2>2. proc' = [proc EXCEPT ![a] = next]
    BY <1>6 DEF SaveReady
  <2> HIDE DEF next
  <2>3. PICK p : /\ Moves(a, p) /\ p.pc = "list" /\ p.op = proc[a].op
                 /\ p.m = proc[a].m /\ p.copy.file = proc[a].copy.file
    BY <2>1, <2>2, PutMoves
  <2>4. WellPlaced(p)
    BY <1>1, <1>2, <1>6, <2>3 DEF GoodThread, WellPlaced, PipelinePcs
  <2> QED
    BY <1>1, <1>2, <1>3, <1>4, <2>3, <2>4, SaveStepGood
<1> QED
  BY <1>5, <1>6

LEMMA SaveFailedGood == ASSUME Good, NEW a \in Actors, SaveFailed(a) PROVE Good'
<1>1. /\ proc[a] \in Thread /\ GoodThread(proc[a]) /\ proc[a].pc = "fail"
      /\ UNCHANGED <<catalog, index, futures, queue, lock, ops, kills>>
  BY ThreadGood DEF SaveFailed, runner, counts
<1>2. proc[a].op \in {"upload", "job", "reprocess"}
  BY <1>1 DEF GoodThread, WellPlaced, Thread, Op
<1>3. PICK m \in Material : m = proc[a].m
  BY <1>1, <1>2 DEF GoodThread, WellPlaced
<1>4. /\ Carries(proc[a])
      /\ rec[m] # NoRecord /\ proc[a].copy.file = rec[m].file
  BY <1>1, <1>2, <1>3, ThreadGood DEF Carries, Serves
<1>5. PICK r \in Record : Save(m, r) /\ r.file = proc[a].copy.file
  <2> DEFINE r == [proc[a].copy EXCEPT !.status = "failed", !.stage = "failed"]
  <2>1. r \in Record /\ r.file = proc[a].copy.file
    BY <1>1 DEF Thread, Record
  <2>2. Save(m, r)
    BY <1>3 DEF SaveFailed
  <2> HIDE DEF r
  <2> QED
    BY <2>1, <2>2
<1>6. Touches(m)
  BY <1>1, <1>4, <1>5, SaveTouches
<1>7. Raise(a, m)
  BY <1>3 DEF SaveFailed
<1> QED
  BY <1>1, <1>3, <1>4, <1>6, <1>7, RaiseGood

LEMMA ListGood == ASSUME Good, NEW a \in Actors, ListDocuments(a) PROVE Good'
<1>1. /\ proc[a] \in Thread /\ GoodThread(proc[a]) /\ proc[a].pc = "list"
      /\ UNCHANGED <<rec, listed, files, catalog, index, futures, queue, lock, fate, ops, kills>>
  BY ThreadGood DEF ListDocuments, stores, runner, counts
<1>2. proc[a].op \in {"upload", "job", "reprocess", "delete", "search"}
  BY <1>1 DEF GoodThread, WellPlaced, Thread, Op
<1>3. ~Settles(proc[a]) /\ ~Parses(proc[a]) /\ ~Studies(proc[a])
  BY <1>1 DEF Settles, Parses, Studies
<1>4. CASE ParsedDocs # {}
  <2> DEFINE next == [proc[a] EXCEPT !.pc = "index", !.docs = ParsedDocs, !.copy = NoRecord]
  <2>1. /\ next \in Thread /\ next.pc = "index" /\ next.op = proc[a].op /\ next.m = proc[a].m
    BY <1>1, NoRecordType DEF Thread, Pc, PipelinePcs, ParsedDocs
  <2>2. proc' = [proc EXCEPT ![a] = next]
    BY <1>4 DEF ListDocuments
  <2> HIDE DEF next
  <2>3. PICK p : /\ Moves(a, p) /\ p.pc = "index" /\ p.op = proc[a].op /\ p.m = proc[a].m
    BY <2>1, <2>2, PutMoves
  <2>4. GoodThread(p)'
    BY <1>1, <1>2, <2>3 DEF GoodThread, WellPlaced, Holds, Carries, Deletes, PipelinePcs
  <2> QED
    BY <1>1, <1>3, <2>3, <2>4, QuietStepGood
<1>5. CASE ParsedDocs = {} /\ proc[a].op \in {"delete", "search"}
  <2>1. Moves(a, Free)
    BY <1>5, FreeType, PutMoves DEF ListDocuments, Return
  <2> QED
    BY <1>1, <1>3, <2>1, FreeGood, QuietStepGood
<1>6. CASE ParsedDocs = {} /\ proc[a].op \notin {"delete", "search"}
  <2>1. GoOn(a, "fail") /\ "fail" \in Pc
    BY <1>6 DEF ListDocuments, Pc, PipelinePcs
  <2>2. PICK p : /\ Moves(a, p) /\ p.pc = "fail" /\ p.op = proc[a].op
                 /\ p.m = proc[a].m /\ p.copy = proc[a].copy
    BY <2>1, GoOnMoves
  <2>3. rec'[p.m] # NoRecord /\ p.copy.file = rec'[p.m].file
    BY <1>1, <1>2, <1>6, <2>2, ThreadGood DEF Carries, Serves
  <2>4. GoodThread(p)'
    BY <1>1, <1>2, <1>6, <2>2, <2>3
       DEF GoodThread, WellPlaced, Holds, Deletes, PipelinePcs
  <2> QED
    BY <1>1, <1>3, <2>2, <2>4, QuietStepGood
<1> QED
  BY <1>4, <1>5, <1>6

LEMMA SaveIndexGood == ASSUME Good, NEW a \in Actors, SaveIndex(a) PROVE Good'
<1>1. /\ proc[a] \in Thread /\ GoodThread(proc[a]) /\ proc[a].pc = "index"
      /\ index' = proc[a].docs /\ Leave(a, proc[a].m)
      /\ UNCHANGED <<rec, listed, files, catalog, futures, queue, lock, fate, ops, kills>>
  BY ThreadGood DEF SaveIndex, runner, counts
<1>2. ~Settles(proc[a]) /\ ~Parses(proc[a]) /\ ~Studies(proc[a])
  BY <1>1 DEF Settles, Parses, Studies
<1>3. proc[a].op = "job" => proc[a].m \in Material
  BY <1>1 DEF GoodThread, WellPlaced
<1>4. PICK p : Moves(a, p) /\ GoodThread(p)'
  BY <1>1, <1>3, LeaveMoves
<1>5. Bounded
  BY <1>1, RunnerKept DEF Good, TypeOK, Thread
<1> QED
  BY <1>1, <1>2, <1>4, <1>5, CalmStepGood

-----------------------------------------------------------------------------
\* Uploading, and the worker's queue.

LEMMA UploadGood ==
    ASSUME Good, NEW k \in Contents, NEW x \in Modules \cup {None}, Upload(k, x) PROVE Good'
<1>1. PICK m \in Fresh, next \in {"enqueue", "read"} :
          /\ \A n \in Fresh : m <= n
          /\ rec' = [rec EXCEPT ![m] = [file |-> [hash |-> k, module |-> x],
                                        status |-> "pending", stage |-> "registered"]]
          /\ files' = [files EXCEPT ![m] = {"record", "source"}]
          /\ listed' = listed \cup {m}
          /\ proc' = [proc EXCEPT ![Loop] = [Free EXCEPT !.op = "upload", !.pc = next, !.m = m]]
  BY DEF Upload
<1>2. /\ proc[Loop].pc = "idle" /\ (ParseCache => Stored(k, x) = {}) /\ Loop \in Actors
      /\ UNCHANGED <<catalog, index, futures, queue, lock, fate, ops, kills>>
  BY DEF Upload, runner, counts, Actors
<1>3. m \in Material /\ rec[m] = NoRecord
  BY <1>1 DEF Fresh
<1>4. PICK p \in Thread : /\ Moves(Loop, p) /\ p.op = "upload" /\ p.pc = next /\ p.m = m
                          /\ p.pc \in {"enqueue", "read"}
  <2> DEFINE q == [Free EXCEPT !.op = "upload", !.pc = next, !.m = m]
  <2>1. q \in Thread /\ q.op = "upload" /\ q.pc = next /\ q.m = m
    BY <1>3, FreeType DEF Thread, Op, Pc, PipelinePcs
  <2>2. proc' = [proc EXCEPT ![Loop] = q]
    BY <1>1
  <2> HIDE DEF q
  <2> QED
    BY <1>2, <2>1, <2>2, PutMoves
<1>5. PICK r \in Record : /\ r.file.hash = k /\ r.file.module = x
                          /\ rec' = [rec EXCEPT ![m] = r]
  <2> DEFINE r == [file |-> [hash |-> k, module |-> x], status |-> "pending",
                   stage |-> "registered"]
  <2>1. r \in Record /\ r.file.hash = k /\ r.file.module = x
    BY DEF Record
  <2>2. rec' = [rec EXCEPT ![m] = r]
    BY <1>1
  <2> HIDE DEF r
  <2> QED
    BY <2>1, <2>2
<1>6. /\ rec' \in [Material -> Record] /\ rec'[m] = r /\ r # NoRecord
      /\ \A n \in Material : n # m => rec'[n] = rec[n]
  BY <1>3, <1>5, NoRecordType, ChoicesAssumption DEF Good, TypeOK
<1>7. /\ files' \in [Material -> SUBSET File] /\ files'[m] = {"record", "source"}
      /\ \A n \in Material : n # m => files'[n] = files[n]
  BY <1>1, <1>3 DEF Good, TypeOK, File
<1>8. /\ listed' \in SUBSET Material /\ m \in listed'
      /\ \A n \in Material : n # m => (n \in listed' <=> n \in listed)
  BY <1>1, <1>3 DEF Good, TypeOK
<1>9. TypeOK'
  BY <1>2, <1>4, <1>6, <1>7, <1>8 DEF Moves, Good, TypeOK
<1>10. ASSUME NEW b \in Actors PROVE GoodThread(proc[b])'
  <2>1. CASE b = Loop
    BY <1>3, <1>4, <2>1
       DEF Moves, GoodThread, WellPlaced, Holds, Carries, Deletes, PipelinePcs
  <2>2. CASE b # Loop
    <3>1. proc'[b] = proc[b] /\ GoodThread(proc[b])
      BY <1>4, <2>2 DEF Moves, Good
    <3>2. PICK q : q = proc[b] /\ GoodThread(q)
      BY <3>1
    <3>3. ASSUME Carries(q) PROVE rec'[q.m] # NoRecord /\ q.copy.file = rec'[q.m].file
      <4>1. q.m \in Material /\ rec[q.m] # NoRecord /\ q.copy.file = rec[q.m].file
        BY <3>2, <3>3 DEF GoodThread, WellPlaced, Holds, Carries, Serves
      <4> QED
        BY <1>3, <1>6, <4>1
    <3>4. GoodThread(q)'
      BY <1>2, <3>2, <3>3 DEF GoodThread, WellPlaced, Holds, Carries, Serves, Deletes
    <3> QED
      BY <3>1, <3>2, <3>4 DEF GoodThread, WellPlaced, Holds, Carries, Serves, Deletes
  <2> QED
    BY <2>1, <2>2
<1>11. ASSUME NEW n \in Material PROVE Registered(n)'
  <2>1. CASE n = m
    BY <1>5, <1>6, <1>8, <2>1 DEF Registered
  <2>2. CASE n # m
    BY <1>2, <1>6, <1>7, <1>8, <2>2 DEF Good, Registered
  <2> QED
    BY <2>1, <2>2
<1>12. ASSUME ParseCache, NEW n \in Material, n # m, rec[n] # NoRecord, rec[n].file.hash = k,
             x = None \/ rec[n].file.module = x
       PROVE  "deleted" \in fate[n]
  BY <1>2, <1>12 DEF Stored, Good, Registered
<1>13. ASSUME NEW i \in Material, NEW j \in Material PROVE InTurn(i, j)' /\ Apart(i, j)'
  <2>1. InTurn(i, j) /\ Apart(i, j)
    BY DEF Good
  <2>2. CASE j = m
    <3>1. i < j => i \notin Fresh
      BY <1>1, <1>3, <2>2 DEF Material
    <3>2. i < j => rec[i] # NoRecord /\ rec'[i] = rec[i] /\ i # m
      BY <1>3, <1>6, <2>2, <3>1 DEF Fresh, Material
    <3>3. InTurn(i, j)'
      BY <3>2 DEF InTurn
    <3>4. Apart(i, j)'
      BY <1>2, <1>5, <1>6, <1>12, <2>2, <3>2 DEF Apart
    <3> QED
      BY <3>3, <3>4
  <2>3. CASE j # m
    <3>1. rec'[j] = rec[j] /\ (i # m => rec'[i] = rec[i]) /\ rec'[m] # NoRecord
      BY <1>6, <2>3
    <3>2. i = m => rec[i] = NoRecord
      BY <1>3
    <3> QED
      BY <1>2, <2>1, <3>1, <3>2 DEF InTurn, Apart
  <2> QED
    BY <2>2, <2>3
<1>14. ASSUME NEW n \in Material PROVE InOrder(n)'
  <2>1. \A l \in Material : Queued(l) => Queued(l)'
    BY <1>2 DEF Queued
  <2>2. CASE n = m
    <3>1. proc'[Loop] = p /\ p.m = n /\ Settles(p) /\ Parses(p) /\ Studies(p)
      BY <1>4, <2>2 DEF Moves, Settles, Parses, Studies, Serves
    <3>2. Settling(n)'
      BY <1>2, <3>1 DEF Settling, Settles, Serves
    <3>3. Parsing(n)'
      BY <1>2, <3>1 DEF Parsing, Parses, Serves
    <3>4. Studying(n)'
      BY <1>2, <3>1 DEF Studying, Studies, Parses, Serves
    <3> QED
      BY <1>7, <2>2, <3>2, <3>3, <3>4 DEF InOrder
  <2>3. CASE n # m
    <3>1. proc[Loop].op = "none"
      BY <1>2 DEF Good, GoodThread, WellPlaced
    <3>2. /\ ~Settles(proc[Loop]) /\ ~Parses(proc[Loop]) /\ ~Studies(proc[Loop])
      BY <3>1 DEF Settles, Parses, Studies, Serves
    <3>3. Untroubled(n)' => Untroubled(n) /\ "source" \in files'[n]
      BY <1>2, <1>6, <1>7, <2>3 DEF Good, InOrder, Untroubled
    <3>4. (Settled(n) => Settled(n)') /\ (Studied(n) => Studied(n)')
      BY <1>2, <1>6, <1>7, <2>3 DEF Settled, Studied
    <3>5. "parsed" \in files[n] => "parsed" \in files'[n]
      BY <1>7, <2>3
    <3> QED
      BY <1>2, <1>4, <2>1, <3>2, <3>3, <3>4, <3>5, OrderKept
  <2> QED
    BY <2>2, <2>3
<1> QED
  BY <1>9, <1>10, <1>11, <1>13, <1>14 DEF Good

LEMMA EnqueueGood == ASSUME Good, NEW a \in Actors, Enqueue(a) PROVE Good'
<1>1. /\ proc[a] \in Thread /\ GoodThread(proc[a]) /\ proc[a].pc \in {"enqueue", "requeue"}
      /\ UNCHANGED <<rec, listed, files, catalog, index, ops, kills>>
  BY ThreadGood DEF Enqueue, stores, counts
<1>2. proc[a].op \in {"upload", "retry"}
  BY <1>1 DEF GoodThread, WellPlaced, PipelinePcs, Thread, Op
<1>3. PICK m \in Material : m = proc[a].m
  BY <1>1, <1>2 DEF GoodThread, WellPlaced
<1>4. Touches(m)
  BY <1>1, StoresKept
<1>5. CASE Return(a) /\ Suffers(m, "dropped") /\ UNCHANGED runner
  <2>1. Suffering(m) /\ InOrder(m)'
    BY <1>5, SuffersMore DEF InOrder, Fate
  <2>2. Bounded /\ \A n \in Material : Queued(n) => Queued(n)'
    BY <1>1, <1>5, RunnerKept DEF Good, TypeOK, runner
  <2>3. Moves(a, Free)
    BY <1>5, FreeType, PutMoves DEF Return
  <2> QED
    BY <1>3, <1>4, <2>1, <2>2, <2>3, FreeGood, StepGood
<1>6. CASE /\ futures' = [futures EXCEPT ![m] = "pending"]
           /\ queue' = Append(queue, m)
           /\ lock' = a
           /\ GoOn(a, "add_callback")
           /\ UNCHANGED fate
  <2>1. queue \in Seq(Material) /\ futures \in [Material -> {"none", "pending", "running", "done"}]
    BY DEF Good, TypeOK
  <2>2. /\ queue' \in Seq(Material) /\ Len(queue') = Len(queue) + 1
        /\ queue'[Len(queue) + 1] = m /\ \A i \in 1..Len(queue) : queue'[i] = queue[i]
    BY <1>6, <2>1
  <2>3. Queued(m)' /\ \A n \in Material : Queued(n) => Queued(n)'
    BY <2>1, <2>2 DEF Queued
  <2>4. Bounded
    BY <1>1, <1>6, <2>1, <2>2 DEF Good, TypeOK, Bounded
  <2>5. Suffering(m)
    BY <1>6, FateKept
  <2>6. InOrder(m)'
    BY <1>1, <1>6, <2>3 DEF Good, InOrder, Untroubled, Settling, Parsing, Studying
  <2>7. PICK p : /\ Moves(a, p) /\ p.pc = "add_callback" /\ p.op = proc[a].op /\ p.m = m
    BY <1>3, <1>6, GoOnMoves DEF Pc
  <2>8. GoodThread(p)'
    BY <1>2, <2>7 DEF GoodThread, WellPlaced, Holds, Carries, Serves, Deletes
  <2> QED
    BY <1>3, <1>4, <2>3, <2>4, <2>5, <2>6, <2>7, <2>8, StepGood
<1> QED
  BY <1>3, <1>5, <1>6 DEF Enqueue

LEMMA AddCallbackGood == ASSUME Good, NEW a \in Actors, AddCallback(a) PROVE Good'
<1>1. /\ proc[a] \in Thread /\ GoodThread(proc[a]) /\ proc[a].pc = "add_callback"
      /\ UNCHANGED <<rec, listed, files, catalog, index, futures, queue, fate, ops, kills>>
  BY ThreadGood DEF AddCallback, stores, counts
<1>2. proc[a].op \in {"upload", "retry"} /\ proc[a].m \in Material
  BY <1>1 DEF GoodThread, WellPlaced, PipelinePcs, Thread, Op
<1>3. ~Serves(proc[a]) /\ ~Settles(proc[a]) /\ ~Parses(proc[a]) /\ ~Studies(proc[a])
  BY <1>1 DEF Serves, Settles, Parses, Studies
<1>4. Bounded
  BY <1>1, RunnerKept DEF AddCallback, Good, TypeOK
<1>5. CASE GoOn(a, "clear_future")
  <2>1. PICK p : /\ Moves(a, p) /\ p.pc = "clear_future" /\ p.op = proc[a].op
                 /\ p.m = proc[a].m
    BY <1>5, GoOnMoves DEF Pc
  <2>2. GoodThread(p)'
    BY <1>2, <2>1 DEF GoodThread, WellPlaced, Holds, Carries, Serves, Deletes
  <2> QED
    BY <1>1, <1>3, <1>4, <2>1, <2>2, CalmStepGood
<1>6. CASE Return(a)
  <2>1. Moves(a, Free)
    BY <1>6, FreeType, PutMoves DEF Return
  <2> QED
    BY <1>1, <1>3, <1>4, <2>1, FreeGood, CalmStepGood
<1> QED
  BY <1>5, <1>6 DEF AddCallback

LEMMA TakeJobGood == ASSUME Good, TakeJob PROVE Good'
<1>1. /\ Worker \in Actors /\ proc[Worker].pc = "idle" /\ queue # <<>>
      /\ queue \in Seq(Material) /\ queue' = Tail(queue)
      /\ UNCHANGED <<rec, listed, files, catalog, index, lock, fate, ops, kills>>
  BY DEF TakeJob, Good, TypeOK, stores, counts, Actors
<1>2. PICK m \in Material : m = Head(queue)
  BY <1>1
<1>3. /\ Len(queue) \in Nat /\ Len(queue) > 0
      /\ queue' \in Seq(Material) /\ Len(queue') = Len(queue) - 1
      /\ queue[1] = m /\ \A i \in 1..Len(queue') : queue'[i] = queue[i + 1]
  BY <1>1, <1>2
<1>4. \A n \in Material : n # m => (Queued(n) => Queued(n)')
  <2> SUFFICES ASSUME NEW n \in Material, n # m, Queued(n) PROVE Queued(n)'
    OBVIOUS
  <2>1. PICK i \in 1..Len(queue) : queue[i] = n
    BY DEF Queued
  <2>2. i # 1 /\ i - 1 \in 1..Len(queue') /\ queue'[i - 1] = queue[(i - 1) + 1]
    BY <1>3, <2>1
  <2>3. queue'[i - 1] = n
    BY <1>3, <2>1, <2>2
  <2> QED
    BY <2>2, <2>3 DEF Queued
<1>5. PICK p : Moves(Worker, p) /\ p.op = "job" /\ p.pc = "read" /\ p.m = m
  <2> DEFINE q == [Free EXCEPT !.op = "job", !.pc = "read", !.m = m]
  <2>1. q \in Thread /\ q.op = "job" /\ q.pc = "read" /\ q.m = m
    BY FreeType DEF Thread, Op, Pc, PipelinePcs
  <2>2. proc' = [proc EXCEPT ![Worker] = q]
    BY <1>2 DEF TakeJob
  <2> HIDE DEF q
  <2> QED
    BY <1>1, <2>1, <2>2, PutMoves
<1>6. futures' \in [Material -> {"none", "pending", "running", "done"}]
  <2> DEFINE younger == \E i \in 2..Len(queue) : queue[i] = m
             f == IF futures[m] = "pending" /\ ~younger THEN "running" ELSE futures[m]
  <2>1. futures \in [Material -> {"none", "pending", "running", "done"}]
    BY DEF Good, TypeOK
  <2>2. futures' = [futures EXCEPT ![m] = f]
    BY <1>2 DEF TakeJob
  <2>3. f \in {"none", "pending", "running", "done"}
    BY <2>1
  <2> HIDE DEF f
  <2> QED
    BY <2>1, <2>2, <2>3
<1>7. Bounded /\ Touches(m) /\ Suffering(m)
  BY <1>1, <1>3, <1>6, StoresKept, FateKept DEF Good, TypeOK, Bounded
<1>8. Settles(p) /\ Parses(p) /\ Studies(p) /\ GoodThread(p)'
  BY <1>5 DEF Settles, Parses, Studies, Serves, GoodThread, WellPlaced, Holds, Carries,
              Deletes, PipelinePcs
<1>9. ~Serves(proc[Worker])
  BY <1>1 DEF Good, GoodThread, WellPlaced, Serves
<1>10. InOrder(m)'
  <2>1. Untroubled(m)' => Untroubled(m) /\ "source" \in files'[m]
    BY <1>1 DEF Good, InOrder, Untroubled
  <2> QED
    BY <1>1, <1>5, <1>8, <2>1, OrderKept
<1> QED
  BY <1>1, <1>4, <1>5, <1>7, <1>8, <1>9, <1>10, StepGood

LEMMA EndJobGood == ASSUME Good, EndJob PROVE Good'
<1>1. /\ Worker \in Actors /\ proc[Worker] \in Thread /\ GoodThread(proc[Worker])
      /\ proc[Worker].pc = "return"
      /\ UNCHANGED <<rec, listed, files, catalog, index, queue, lock, fate, ops, kills>>
  BY ThreadGood DEF EndJob, stores, counts, Actors
<1>2. PICK m \in Material : m = proc[Worker].m /\ proc[Worker].op = "job"
  BY <1>1 DEF GoodThread, WellPlaced, PipelinePcs, Thread, Op
<1>3. ~Serves(proc[Worker]) /\ ~Settles(proc[Worker]) /\ ~Parses(proc[Worker])
      /\ ~Studies(proc[Worker])
  BY <1>1 DEF Serves, Settles, Parses, Studies
<1>4. Bounded
  <2> DEFINE f == IF futures[m] = "running" THEN "done" ELSE futures[m]
  <2>1. futures \in [Material -> {"none", "pending", "running", "done"}]
    BY DEF Good, TypeOK
  <2>2. futures' = [futures EXCEPT ![m] = f]
    BY <1>2 DEF EndJob
  <2>3. f \in {"none", "pending", "running", "done"}
    BY <2>1
  <2> HIDE DEF f
  <2>4. futures' \in [Material -> {"none", "pending", "running", "done"}]
    BY <2>1, <2>2, <2>3
  <2> QED
    BY <1>1, <2>4, RunnerKept DEF Good, TypeOK
<1>5. CASE GoOn(Worker, "clear_future")
  <2>1. PICK p : /\ Moves(Worker, p) /\ p.pc = "clear_future" /\ p.op = "job" /\ p.m = m
    BY <1>1, <1>2, <1>5, GoOnMoves DEF Pc
  <2>2. GoodThread(p)'
    BY <2>1 DEF GoodThread, WellPlaced, Holds, Carries, Serves, Deletes
  <2> QED
    BY <1>1, <1>3, <1>4, <2>1, <2>2, CalmStepGood
<1>6. CASE Return(Worker)
  <2>1. Moves(Worker, Free)
    BY <1>1, <1>6, FreeType, PutMoves DEF Return
  <2> QED
    BY <1>1, <1>3, <1>4, <2>1, FreeGood, CalmStepGood
<1> QED
  BY <1>5, <1>6 DEF EndJob

LEMMA ClearFutureGood == ASSUME Good, ClearFuture PROVE Good'
<1>1. /\ Worker \in Actors /\ proc[Worker].pc = "clear_future"
      /\ UNCHANGED <<rec, listed, files, catalog, index, queue, lock, fate, ops, kills>>
  BY DEF ClearFuture, stores, counts, Actors
<1>2. Moves(Worker, Free)
  BY <1>1, FreeType, PutMoves DEF ClearFuture, Return
<1>3. Bounded
  <2>1. futures' \in [Material -> {"none", "pending", "running", "done"}]
    BY DEF ClearFuture, Good, TypeOK
  <2> QED
    BY <1>1, <2>1, RunnerKept DEF Good, TypeOK
<1>4. ~Settles(proc[Worker]) /\ ~Parses(proc[Worker]) /\ ~Studies(proc[Worker])
  BY <1>1 DEF Settles, Parses, Studies, Serves
<1> QED
  BY <1>1, <1>2, <1>3, <1>4, FreeGood, CalmStepGood

-----------------------------------------------------------------------------
\* Requests.

LEMMA AskMoves ==
    ASSUME Good, NEW c \in Clients, NEW op, NEW m, NEW pc \in Pc, Ask(c, op, m, pc),
           m \in Material \/ (m = 0 /\ op = "search")
    PROVE  /\ c \in Actors /\ proc[c].pc = "idle"
           /\ ~Serves(proc[c]) /\ ~Settles(proc[c]) /\ ~Parses(proc[c]) /\ ~Studies(proc[c])
           /\ op \in Ops /\ ops' \in 0..MaxOp
           /\ \E p : /\ Moves(c, p) /\ p.op = op /\ p.pc = pc /\ p.m = m
                     /\ op \notin {"delete", "search"} => p.copy.file = rec[m].file
<1> DEFINE r == IF op \in {"delete", "search"} THEN NoRecord
                ELSE IF op = "regenerate" THEN rec[m] ELSE Extracting(rec[m])
           p == [Free EXCEPT !.op = op, !.pc = pc, !.m = m, !.copy = r]
<1>1. /\ c \in Actors /\ proc[c].pc = "idle" /\ op \in Ops /\ ops' \in 0..MaxOp
  BY BoundsAssumption DEF Ask, Actors, Good, TypeOK
<1>2. proc[c].op = "none"
  BY <1>1 DEF Good, GoodThread, WellPlaced
<1>3. ~Serves(proc[c]) /\ ~Settles(proc[c]) /\ ~Parses(proc[c]) /\ ~Studies(proc[c])
  BY <1>2 DEF Serves, Settles, Parses, Studies
<1>4. r \in Record /\ (op \notin {"delete", "search"} => r.file = rec[m].file)
  <2>1. CASE op \in {"delete", "search"}
    BY <2>1, NoRecordType
  <2>2. CASE op \notin {"delete", "search"}
    <3>1. rec[m] \in Record
      BY <2>2 DEF Good, TypeOK
    <3> QED
      BY <2>2, <3>1, ExtractingType
  <2> QED
    BY <2>1, <2>2
<1>5. proc' = [proc EXCEPT ![c] = p]
  BY DEF Ask
<1>6. op \in Op
  BY <1>1, ChoicesAssumption DEF Op
<1> HIDE DEF r
<1>7. /\ p \in Thread /\ p.op = op /\ p.pc = pc /\ p.m = m /\ p.copy = r
  BY <1>4, <1>6, FreeType DEF Thread
<1> HIDE DEF p
<1> QED
  BY <1>1, <1>3, <1>4, <1>5, <1>7, PutMoves

\* A request to work on a material starts with the record it found.
LEMMA AskToWorkGood ==
    ASSUME Good, NEW c \in Clients, NEW m \in Material, NEW op, NEW pc, Found(m),
           <<op, pc>> \in {<<"retry", "save_queued">>, <<"reprocess", "clear">>,
                           <<"regenerate", "enrich">>},
           Ask(c, op, m, pc),
           UNCHANGED <<rec, listed, files, catalog, index, futures, queue, lock, fate, kills>>
    PROVE  Good'
<1>1. /\ op \notin {"delete", "search"} /\ pc \in Pc
      /\ \/ op = "retry" /\ pc = "save_queued"
         \/ op = "reprocess" /\ pc = "clear"
         \/ op = "regenerate" /\ pc = "enrich"
  BY DEF Pc
<1>2. PICK p : /\ Moves(c, p) /\ p.op = op /\ p.pc = pc /\ p.m = m
               /\ p.copy.file = rec[m].file
  BY <1>1, AskMoves
<1>3. rec[m] # NoRecord
  BY FoundIsRegistered DEF Good
<1>4. /\ c \in Actors /\ ops' \in 0..MaxOp
      /\ ~Serves(proc[c]) /\ ~Settles(proc[c]) /\ ~Parses(proc[c]) /\ ~Studies(proc[c])
  BY <1>1, AskMoves
<1>5. Bounded
  BY <1>4 DEF Good, TypeOK, Bounded
<1>6. GoodThread(p)'
  BY <1>1, <1>2, <1>3 DEF GoodThread, WellPlaced, Holds, Deletes
<1> QED
  BY <1>2, <1>4, <1>5, <1>6, CalmStepGood

LEMMA RetryGood == ASSUME Good, NEW c \in Clients, NEW m \in Material, Retry(c, m) PROVE Good'
BY AskToWorkGood DEF Retry, stores, runner

LEMMA ReprocessGood ==
    ASSUME Good, NEW c \in Clients, NEW m \in Material, Reprocess(c, m) PROVE Good'
BY AskToWorkGood DEF Reprocess, stores, runner

LEMMA RegenerateGood ==
    ASSUME Good, NEW c \in Clients, NEW m \in Material, Regenerate(c, m) PROVE Good'
BY AskToWorkGood DEF Regenerate, stores, runner

LEMMA SearchGood == ASSUME Good, NEW c \in Clients, Search(c) PROVE Good'
<1>1. PICK p : Moves(c, p) /\ p.op = "search" /\ p.pc = "list"
  BY AskMoves DEF Search, Pc, PipelinePcs
<1>2. /\ UNCHANGED <<rec, listed, files, catalog, index, futures, queue, lock, fate, kills>>
      /\ c \in Actors /\ ops' \in 0..MaxOp
      /\ ~Serves(proc[c]) /\ ~Settles(proc[c]) /\ ~Parses(proc[c]) /\ ~Studies(proc[c])
  BY AskMoves DEF Search, stores, runner, Pc, PipelinePcs
<1>3. Bounded
  BY <1>2 DEF Good, TypeOK, Bounded
<1>4. GoodThread(p)'
  BY <1>1 DEF GoodThread, WellPlaced, Holds, Carries, Serves, Deletes
<1> QED
  BY <1>1, <1>2, <1>3, <1>4, CalmStepGood

LEMMA SaveQueuedGood == ASSUME Good, NEW c \in Actors, SaveQueued(c) PROVE Good'
<1>1. /\ proc[c] \in Thread /\ GoodThread(proc[c]) /\ proc[c].pc = "save_queued"
      /\ Save(proc[c].m, proc[c].copy) /\ proc[c].copy \in Record
      /\ UNCHANGED <<catalog, index, futures, queue, lock, fate, ops, kills>>
  BY ThreadGood DEF SaveQueued, runner, counts, Thread
<1>2. proc[c].op = "retry"
  BY <1>1 DEF GoodThread, WellPlaced, PipelinePcs, Thread, Op
<1>3. PICK p : /\ Moves(c, p) /\ p.pc = "requeue" /\ p.op = proc[c].op
               /\ p.m = proc[c].m /\ p.copy = proc[c].copy
  BY GoOnMoves DEF SaveQueued, Pc
<1>4. WellPlaced(p)
  BY <1>1, <1>2, <1>3 DEF GoodThread, WellPlaced
<1>5. Carries(proc[c]) /\ Settles(p) /\ ~Parses(proc[c]) /\ ~Studies(proc[c])
  BY <1>1, <1>2, <1>3 DEF Carries, Settles, Parses, Studies, Serves
<1> QED
  BY <1>1, <1>2, <1>3, <1>4, <1>5, SaveStepGood

LEMMA ClearGood == ASSUME Good, NEW c \in Actors, ClearArtifacts(c) PROVE Good'
<1>1. /\ proc[c] \in Thread /\ GoodThread(proc[c]) /\ proc[c].pc = "clear"
      /\ UNCHANGED <<rec, listed, index, futures, queue, lock, fate, ops, kills>>
  BY ThreadGood DEF ClearArtifacts, runner, counts
<1>2. proc[c].op = "reprocess"
  BY <1>1 DEF GoodThread, WellPlaced, PipelinePcs, Thread, Op
<1>3. PICK m \in Material : m = proc[c].m
  BY <1>1, <1>2 DEF GoodThread, WellPlaced
<1>4. rec[m] # NoRecord /\ proc[c].copy.file = rec[m].file
  BY <1>1, <1>2, <1>3, ThreadGood DEF Carries, Serves
<1>5. PICK p : /\ Moves(c, p) /\ p.pc = "save_cleared" /\ p.op = proc[c].op
               /\ p.m = proc[c].m /\ p.copy = proc[c].copy
  BY GoOnMoves DEF ClearArtifacts, Pc
<1>6. /\ files' \in [Material -> SUBSET File]
      /\ files'[m] = files[m] \ {"parsed", "study"}
      /\ \A n \in Material : n # m => files'[n] = files[n]
  BY <1>3 DEF ClearArtifacts, Good, TypeOK
<1>7. /\ catalog' \in [Material -> {"none", "parsed", "study"}]
      /\ \A n \in Material : n # m => catalog'[n] = catalog[n]
  BY <1>3 DEF ClearArtifacts, Good, TypeOK
<1>8. Touches(m)
  BY <1>1, <1>4, <1>6, <1>7 DEF Good, TypeOK, Touches
<1>9. Suffering(m) /\ Bounded /\ \A n \in Material : Queued(n) => Queued(n)'
  BY <1>1, FateKept, RunnerKept DEF Good, TypeOK
<1>10. GoodThread(p)'
  BY <1>1, <1>2, <1>3, <1>4, <1>5 DEF GoodThread, WellPlaced, Holds, Deletes
<1>11. InOrder(m)'
  <2>1. Settles(p) /\ Parses(p) /\ Studies(p)
    BY <1>2, <1>5 DEF Settles, Parses, Studies, Serves
  <2>2. Untroubled(m)' => Untroubled(m) /\ "source" \in files'[m]
    BY <1>1, <1>6 DEF Good, InOrder, Untroubled
  <2> QED
    BY <1>3, <1>5, <1>9, <2>1, <2>2, OrderKept
<1> QED
  BY <1>3, <1>5, <1>8, <1>9, <1>10, <1>11, StepGood

LEMMA SaveClearedGood == ASSUME Good, NEW c \in Actors, SaveCleared(c) PROVE Good'
<1>1. /\ proc[c] \in Thread /\ GoodThread(proc[c]) /\ proc[c].pc = "save_cleared"
      /\ Save(proc[c].m, proc[c].copy) /\ proc[c].copy \in Record
      /\ UNCHANGED <<catalog, index, futures, queue, lock, fate, ops, kills>>
  BY ThreadGood DEF SaveCleared, runner, counts, Thread
<1>2. proc[c].op = "reprocess"
  BY <1>1 DEF GoodThread, WellPlaced, PipelinePcs, Thread, Op
<1>3. PICK p : /\ Moves(c, p) /\ p.pc = "read" /\ p.op = proc[c].op
               /\ p.m = proc[c].m /\ p.copy = proc[c].copy
  BY GoOnMoves DEF SaveCleared, Pc, PipelinePcs
<1>4. WellPlaced(p)
  BY <1>1, <1>2, <1>3 DEF GoodThread, WellPlaced, PipelinePcs
<1>5. Carries(proc[c]) /\ Settles(p) /\ Parses(p) /\ Studies(p)
  BY <1>1, <1>2, <1>3 DEF Carries, Settles, Parses, Studies, Serves
<1> QED
  BY <1>1, <1>2, <1>3, <1>4, <1>5, SaveStepGood

LEMMA MarkFailedGood == ASSUME Good, NEW c \in Actors, MarkFailed(c) PROVE Good'
<1>1. /\ proc[c] \in Thread /\ GoodThread(proc[c]) /\ proc[c].pc = "mark"
      /\ UNCHANGED <<catalog, index, futures, queue, lock, fate, ops, kills>>
  BY ThreadGood DEF MarkFailed, runner, counts
<1>2. proc[c].op = "reprocess"
  BY <1>1 DEF GoodThread, WellPlaced, PipelinePcs, Thread, Op
<1>3. Carries(proc[c]) /\ ~Parses(proc[c]) /\ ~Studies(proc[c])
  BY <1>1, <1>2 DEF Carries, Parses, Studies, Serves
<1>4. PICK r \in Record :
          Save(proc[c].m, r) /\ r.file = proc[c].copy.file /\ r.stage = "failed"
  <2> DEFINE r == [proc[c].copy EXCEPT !.status = "failed", !.stage = "failed"]
  <2>1. r \in Record /\ r.file = proc[c].copy.file /\ r.stage = "failed"
    BY <1>1 DEF Thread, Record
  <2>2. Save(proc[c].m, r)
    BY DEF MarkFailed
  <2> HIDE DEF r
  <2> QED
    BY <2>1, <2>2
<1>5. Moves(c, Free) /\ WellPlaced(Free) /\ ~Serves(Free) /\ ~Carries(Free)
  BY FreeType, FreeGood, PutMoves DEF MarkFailed, Return, GoodThread, Carries
<1> QED
  BY <1>1, <1>3, <1>4, <1>5, FreeType, SaveStepGood

LEMMA SaveEnrichingGood == ASSUME Good, NEW c \in Actors, SaveEnriching(c) PROVE Good'
<1>1. /\ proc[c] \in Thread /\ GoodThread(proc[c]) /\ proc[c].pc = "enrich"
      /\ UNCHANGED <<catalog, index, futures, queue, lock, fate, ops, kills>>
  BY ThreadGood DEF SaveEnriching, runner, counts
<1>2. proc[c].op = "regenerate"
  BY <1>1 DEF GoodThread, WellPlaced, PipelinePcs, Thread, Op
<1>3. PICK p : /\ Moves(c, p) /\ p.pc = "build" /\ p.op = proc[c].op
               /\ p.m = proc[c].m /\ p.copy = proc[c].copy
  BY GoOnMoves DEF SaveEnriching, Pc, PipelinePcs
<1>4. WellPlaced(p)
  BY <1>1, <1>2, <1>3 DEF GoodThread, WellPlaced
<1>5. Carries(proc[c]) /\ Settles(p) /\ ~Parses(proc[c]) /\ ~Studies(proc[c])
  BY <1>1, <1>2, <1>3 DEF Carries, Settles, Parses, Studies, Serves
<1>6. PICK r \in Record : Save(proc[c].m, r) /\ r.file = proc[c].copy.file
  <2> DEFINE r == [proc[c].copy EXCEPT !.stage = "enriching"]
  <2>1. r \in Record /\ r.file = proc[c].copy.file
    BY <1>1 DEF Thread, Record
  <2>2. Save(proc[c].m, r)
    BY DEF SaveEnriching
  <2> HIDE DEF r
  <2> QED
    BY <2>1, <2>2
<1> QED
  BY <1>1, <1>2, <1>3, <1>4, <1>5, <1>6, SaveStepGood

LEMMA DeleteGood == ASSUME Good, NEW c \in Clients, NEW m \in Material, Delete(c, m) PROVE Good'
<1>1. /\ Ask(c, "delete", m, "rmtree") /\ Found(m)
      /\ listed' = listed \ {m} /\ catalog' = [catalog EXCEPT ![m] = "none"]
      /\ Suffers(m, "deleted") /\ UNCHANGED <<rec, files, index, futures, queue, lock, kills>>
  BY DEF Delete, runner
<1>2. PICK p : Moves(c, p) /\ p.op = "delete" /\ p.pc = "rmtree" /\ p.m = m
  BY <1>1, AskMoves DEF Pc
<1>3. c \in Actors /\ ops' \in 0..MaxOp /\ ~Serves(proc[c])
  BY <1>1, AskMoves DEF Pc
<1>4. Suffering(m) /\ "deleted" \in fate'[m] /\ ~Untroubled(m)'
  BY <1>1, SuffersMore DEF Fate
<1>5. Touches(m)
  <2>1. rec[m] # NoRecord
    BY <1>1, FoundIsRegistered DEF Good
  <2>2. /\ catalog' \in [Material -> {"none", "parsed", "study"}]
        /\ \A n \in Material : n # m => catalog'[n] = catalog[n]
    BY <1>1 DEF Good, TypeOK
  <2>3. /\ listed' \in SUBSET Material
        /\ \A n \in Material : n # m => (n \in listed' <=> n \in listed)
    BY <1>1 DEF Good, TypeOK
  <2> QED
    BY <1>1, <1>4, <2>1, <2>2, <2>3 DEF Good, TypeOK, Touches
<1>6. Bounded /\ \A n \in Material : Queued(n) => Queued(n)'
  BY <1>1, <1>3 DEF Good, TypeOK, Bounded, Queued
<1>7. GoodThread(p)'
  BY <1>2, <1>4 DEF GoodThread, WellPlaced, Holds, Carries, Serves, Deletes
<1>8. InOrder(m)'
  BY <1>4 DEF InOrder
<1> QED
  BY <1>2, <1>3, <1>4, <1>5, <1>6, <1>7, <1>8, StepGood

LEMMA RemoveGood == ASSUME Good, NEW c \in Actors, RemoveDirectory(c) PROVE Good'
<1>1. /\ proc[c] \in Thread /\ GoodThread(proc[c]) /\ proc[c].pc = "rmtree"
      /\ UNCHANGED <<rec, listed, catalog, index, futures, queue, lock, fate, ops, kills>>
  BY ThreadGood DEF RemoveDirectory, runner, counts
<1>2. proc[c].op = "delete"
  BY <1>1 DEF GoodThread, WellPlaced, PipelinePcs, Thread, Op
<1>3. PICK m \in Material : m = proc[c].m
  BY <1>1, <1>2 DEF GoodThread, WellPlaced
<1>4. "deleted" \in fate[m] /\ ~Serves(proc[c])
  BY <1>1, <1>2, <1>3 DEF GoodThread, Deletes, Serves
<1>5. PICK p : /\ Moves(c, p) /\ p.pc = "remaining" /\ p.op = proc[c].op /\ p.m = m
  BY <1>3, GoOnMoves DEF RemoveDirectory, Pc
<1>6. /\ files' \in [Material -> SUBSET File] /\ files'[m] = {}
      /\ \A n \in Material : n # m => files'[n] = files[n]
  BY <1>3 DEF RemoveDirectory, Good, TypeOK
<1>7. Touches(m)
  <2>1. Registered(m)
    BY DEF Good
  <2> QED
    BY <1>1, <1>6, <2>1 DEF Good, TypeOK, Touches, Registered
<1>8. Suffering(m) /\ Bounded /\ \A n \in Material : Queued(n) => Queued(n)'
  BY <1>1, FateKept, RunnerKept DEF Good, TypeOK
<1>9. GoodThread(p)'
  BY <1>1, <1>2, <1>4, <1>5 DEF GoodThread, WellPlaced, Holds, Carries, Serves, Deletes
<1>10. InOrder(m)'
  BY <1>1, <1>4 DEF InOrder, Untroubled
<1> QED
  BY <1>4, <1>5, <1>7, <1>8, <1>9, <1>10, StepGood

LEMMA RemainingGood == ASSUME Good, NEW c \in Actors, ListRemaining(c) PROVE Good'
<1>1. /\ proc[c] \in Thread /\ GoodThread(proc[c]) /\ proc[c].pc = "remaining"
      /\ UNCHANGED <<rec, listed, files, catalog, futures, queue, lock, fate, ops, kills>>
  BY ThreadGood DEF ListRemaining, runner, counts
<1>2. proc[c].op = "delete"
  BY <1>1 DEF GoodThread, WellPlaced, PipelinePcs, Thread, Op
<1>3. /\ ~Serves(proc[c]) /\ ~Settles(proc[c]) /\ ~Parses(proc[c]) /\ ~Studies(proc[c])
  BY <1>2 DEF Serves, Settles, Parses, Studies
<1>4. Bounded
  <2>1. index' \in SUBSET Material
    BY DEF ListRemaining, Good, TypeOK
  <2> QED
    BY <1>1, <2>1, RunnerKept DEF Good, TypeOK
<1>5. CASE GoOn(c, "list")
  <2>1. PICK p : /\ Moves(c, p) /\ p.pc = "list" /\ p.op = proc[c].op /\ p.m = proc[c].m
    BY <1>5, GoOnMoves DEF Pc, PipelinePcs
  <2>2. GoodThread(p)'
    BY <1>1, <1>2, <2>1 DEF GoodThread, WellPlaced, Holds, Carries, Serves, Deletes
  <2> QED
    BY <1>1, <1>3, <1>4, <2>1, <2>2, CalmStepGood
<1>6. CASE Return(c)
  <2>1. Moves(c, Free)
    BY <1>6, FreeType, PutMoves DEF Return
  <2> QED
    BY <1>1, <1>3, <1>4, <2>1, FreeGood, CalmStepGood
<1> QED
  BY <1>5, <1>6 DEF ListRemaining

-----------------------------------------------------------------------------
\* Every behaviour.

LEMMA KillGood == ASSUME Good, Kill PROVE Good'
<1>1. /\ UNCHANGED <<rec, listed, files, catalog, index, ops>>
      /\ kills' \in 0..MaxKill /\ proc' = [a \in Actors |-> Free]
      /\ futures' = [m \in Material |-> "none"] /\ queue' = <<>> /\ lock' = None
      /\ fate' = [m \in Material |-> IF InHand(m) THEN fate[m] \cup {"killed"} ELSE fate[m]]
  BY BoundsAssumption DEF Kill, stores, Good, TypeOK
<1>2. \A m \in Material : fate'[m] = IF InHand(m) THEN fate[m] \cup {"killed"} ELSE fate[m]
  BY <1>1
<1>3. fate' \in [Material -> SUBSET Fate]
  <2>1. fate \in [Material -> SUBSET Fate] /\ "killed" \in Fate
    BY DEF Good, TypeOK, Fate
  <2> QED
    BY <1>1, <2>1
<1>4. TypeOK'
  BY <1>1, <1>3, FreeType DEF Good, TypeOK
<1>5. \A a \in Actors : GoodThread(proc[a])'
  BY <1>1, FreeType DEF GoodThread, WellPlaced, Holds, Carries, Serves, Deletes
<1>6. ASSUME NEW m \in Material PROVE Registered(m)'
  BY <1>1, <1>2 DEF Good, Registered
<1>7. ASSUME NEW m \in Material, NEW n \in Material PROVE InTurn(m, n)' /\ Apart(m, n)'
  <2>1. InTurn(m, n) /\ Apart(m, n) /\ fate[m] \subseteq fate'[m] /\ fate[n] \subseteq fate'[n]
    BY <1>2 DEF Good
  <2> QED
    BY <1>1, <2>1 DEF InTurn, Apart
<1>8. ASSUME NEW m \in Material PROVE InOrder(m)'
  <2> SUFFICES ASSUME Untroubled(m)'
               PROVE  "source" \in files'[m] /\ Settling(m)' /\ Parsing(m)' /\ Studying(m)'
    BY DEF InOrder
  <2>1. ~InHand(m) /\ Untroubled(m)
    BY <1>1, <1>2 DEF Untroubled
  <2>2. ~Queued(m) /\ \A a \in Actors : proc[a].m = m => ~Serves(proc[a])
    BY <2>1 DEF InHand, Working, Queued, Serves
  <2>3. "source" \in files[m] /\ Settled(m) /\ "parsed" \in files[m] /\ Studied(m)
    BY <2>1, <2>2 DEF Good, InOrder, Settling, Parsing, Studying, Settles, Parses, Studies
  <2> QED
    BY <1>1, <2>3 DEF Settling, Parsing, Studying, Settled, Studied
<1> QED
  BY <1>4, <1>5, <1>6, <1>7, <1>8 DEF Good

LEMMA InitGood == Init => Good
<1> SUFFICES ASSUME Init PROVE Good
  OBVIOUS
<1>1. TypeOK
  BY NoRecordType, FreeType, BoundsAssumption DEF Init, TypeOK
<1>2. \A a \in Actors : GoodThread(proc[a])
  BY FreeGood DEF Init
<1>3. \A m \in Material : rec[m] = NoRecord /\ m \notin listed /\ files[m] = {}
  BY DEF Init
<1> QED
  BY <1>1, <1>2, <1>3 DEF Good, Registered, InOrder, Untroubled, InTurn, Apart

LEMMA ProcessGood == ASSUME Good, NEW a \in Actors, Process(a) PROVE Good'
BY ReadGood, SaveExtractingGood, ParseGood, WriteParsedGood, SaveCompletedGood,
   ReplaceSectionsGood, BuildStudyGood, SaveStudyGood, RereadGood, SaveReadyGood,
   SaveFailedGood, ListGood, SaveIndexGood DEF Process

LEMMA AnswerGood == ASSUME Good, NEW c \in Clients, Answer(c) PROVE Good'
<1>1. c \in Actors
  BY DEF Actors
<1> QED
  BY <1>1, ProcessGood, SaveQueuedGood, EnqueueGood, AddCallbackGood, ClearGood, SaveClearedGood,
     MarkFailedGood, SaveEnrichingGood, RemoveGood, RemainingGood DEF Answer

LEMMA NextGood == Good /\ [Next]_vars => Good'
<1> SUFFICES ASSUME Good, [Next]_vars PROVE Good'
  OBVIOUS
<1>1. Loop \in Actors /\ Worker \in Actors
  BY DEF Actors
<1>2. ASSUME NEW c \in Clients, Request(c) PROVE Good'
  BY <1>2, SearchGood, RetryGood, ReprocessGood, RegenerateGood, DeleteGood DEF Request
<1>3. CASE UNCHANGED vars
  BY <1>3 DEF vars, stores, runner, counts, Good, TypeOK, GoodThread, WellPlaced, Holds,
     Carries, Serves, Deletes, Registered, InOrder, Untroubled, Settling, Settled, Settles,
     Parsing, Parses, Studying, Studied, Studies, Queued, InTurn, Apart
<1> QED
  BY <1>1, <1>2, <1>3, UploadGood, EnqueueGood, AddCallbackGood, ProcessGood, TakeJobGood, EndJobGood,
     ClearFutureGood, AnswerGood, KillGood DEF Next, Work

LEMMA Invariance == Spec => []Good
<1> QED
  BY InitGood, NextGood, PTL DEF Spec

\* Every store holds values of its type, and every thread is where its request can be.
THEOREM TypeCorrect == Spec => []TypeOK
<1>1. Good => TypeOK
  BY DEF Good
<1> QED
  BY <1>1, Invariance, PTL

\* With the parse cache on, a listed material has the content of an earlier listed one
\* only if it was uploaded for another module or one of the two was deleted: the search of
\* _find_existing_upload is enough, although it and the registering are no transaction
\* with the saves of other threads.
THEOREM ContentsAreListedOnce == Spec => []ContentListedOnce
<1>1. Good => ContentListedOnce
  <2> SUFFICES ASSUME Good, ParseCache, NEW m \in listed, NEW n \in listed, m < n,
                      rec[m].file.hash = rec[n].file.hash
               PROVE  \/ rec[n].file.module \notin {None, rec[m].file.module}
                      \/ "deleted" \in fate[m] \cup fate[n]
    BY DEF ContentListedOnce
  <2>1. m \in Material /\ n \in Material
    BY DEF Good, TypeOK
  <2> QED
    BY <2>1 DEF Good, Registered, Apart
<1> QED
  BY <1>1, Invariance, PTL

\* No material is left behind unsettled without a thread or a queued job that settles it,
\* unless something happened to it: a save that is overtaken by another thread's is
\* always followed by one of the thread that unsettled the record.
THEOREM UnsettledMaterialsAreInHand == Spec => []UnsettledIsInHand
<1>1. Good => UnsettledIsInHand
  <2> SUFFICES ASSUME Good, NEW m \in listed, ~Settled(m), fate[m] = {} PROVE InHand(m)
    BY DEF UnsettledIsInHand
  <2>1. m \in Material
    BY DEF Good, TypeOK
  <2>2. Settling(m)
    BY <2>1 DEF Good, Registered, InOrder, Untroubled
  <2> QED
    BY <2>2 DEF Settling, Queued, InHand, Working, Settles, Serves
<1> QED
  BY <1>1, Invariance, PTL

\* A ready material nobody works on has its files and the rows of its study document,
\* however many threads processed, cleared and regenerated it at once.
THEOREM ReadyMaterialsAreStudied == Spec => []ReadyIsStudied
<1>1. Good => ReadyIsStudied
  <2> SUFFICES ASSUME Good, NEW m \in listed, ~InHand(m), fate[m] = {}
               PROVE  {"source", "parsed", "study"} \subseteq files[m] /\ catalog[m] = "study"
    BY DEF ReadyIsStudied
  <2>1. m \in Material
    BY DEF Good, TypeOK
  <2>2. "source" \in files[m] /\ Parsing(m) /\ Studying(m)
    BY <2>1 DEF Good, Registered, InOrder, Untroubled
  <2>3. ~Queued(m) /\ \A a \in Actors : proc[a].m = m => ~Serves(proc[a])
    BY DEF InHand, Working, Queued, Serves
  <2> QED
    BY <2>2, <2>3 DEF Parsing, Parses, Studying, Studied, Studies
<1> QED
  BY <1>1, Invariance, PTL

-----------------------------------------------------------------------------
\* A deleted material is not brought back.

\* A thread goes on with the material it had, and touches no other; a thread that does
\* not serve its material only takes things away.
OwnThread(a) ==
    /\ \A b \in Actors \ {a} : proc'[b] = proc[b]
    /\ Serves(proc'[a]) => Serves(proc[a]) /\ proc'[a].m = proc[a].m
OwnStores(a) ==
    \A n \in Material : n # proc[a].m \/ ~Serves(proc[a]) =>
        rec'[n] = rec[n] /\ (n \in listed' => n \in listed) /\ files'[n] \subseteq files[n]

\* A thread that can still work on a deleted material without saving its record.
Harmless(p) ==
    \/ p.pc \in {"enqueue", "requeue"}
    \/ p.pc = "read" /\ p.op # "reprocess"

LEMMA GoneMeans ==
    ASSUME Good, NEW m \in Material
    PROVE  Gone(m) <=> /\ rec[m] # NoRecord /\ m \notin listed /\ "record" \notin files[m]
                       /\ \A a \in Actors : Serves(proc[a]) /\ proc[a].m = m => Harmless(proc[a])
BY DEF Gone, Found, Working, Serves, Harmless

LEMMA GoneKept ==
    ASSUME Good, Good', NEW m \in Material, Gone(m), NEW a \in Actors,
           rec'[m] = rec[m], m \in listed' => m \in listed, files'[m] \subseteq files[m],
           \A b \in Actors \ {a} : proc'[b] = proc[b],
           Serves(proc'[a]) /\ proc'[a].m = m => Harmless(proc'[a])
    PROVE  Gone(m)'
<1>1. /\ rec[m] # NoRecord /\ m \notin listed /\ "record" \notin files[m]
      /\ \A b \in Actors : Serves(proc[b]) /\ proc[b].m = m => Harmless(proc[b])
  BY GoneMeans
<1>2. rec'[m] # NoRecord /\ m \notin listed' /\ "record" \notin files'[m]
  BY <1>1
<1>3. ASSUME NEW b \in Actors, Serves(proc'[b]), proc'[b].m = m PROVE Harmless(proc'[b])
  <2>1. CASE b = a
    BY <1>3, <2>1
  <2>2. CASE b # a
    BY <1>1, <1>3, <2>2
  <2> QED
    BY <2>1, <2>2
<1> QED
  BY <1>2, <1>3 DEF Gone, Found, Working, Serves, Harmless

LEMMA OwnStepKeepsGone ==
    ASSUME Good, Good', NEW a \in Actors, OwnThread(a), OwnStores(a),
           NEW m \in Material, Gone(m), ~(Serves(proc[a]) /\ Harmless(proc[a]))
    PROVE  Gone(m)'
<1>1. ~(Serves(proc[a]) /\ proc[a].m = m)
  BY GoneMeans
<1> QED
  BY <1>1, GoneKept DEF OwnThread, OwnStores

LEMMA GoOnOwn ==
    ASSUME Good, NEW a \in Actors, NEW pc, GoOn(a, pc),
           proc[a].pc \notin {"add_callback", "return", "clear_future"}
    PROVE  OwnThread(a)
<1> DEFINE p == [proc[a] EXCEPT !.pc = pc]
<1>1. p.op = proc[a].op /\ p.m = proc[a].m
  BY ThreadGood DEF Thread
<1>2. proc' = [proc EXCEPT ![a] = p]
  BY DEF GoOn
<1> HIDE DEF p
<1> QED
  BY <1>1, <1>2 DEF OwnThread, Serves, Good, TypeOK

LEMMA ReturnOwn == ASSUME Good, NEW a \in Actors, Return(a) PROVE OwnThread(a)
BY FreeGood DEF Return, OwnThread, Good, TypeOK

LEMMA LeaveOwn == ASSUME Good, NEW a \in Actors, Leave(a, proc[a].m) PROVE OwnThread(a)
<1> DEFINE p == [Free EXCEPT !.op = "job", !.pc = "return", !.m = proc[a].m]
<1>1. CASE proc[a].op = "job"
  <2>1. p.pc = "return"
    BY FreeType DEF Thread
  <2>2. proc' = [proc EXCEPT ![a] = p]
    BY <1>1 DEF Leave
  <2> HIDE DEF p
  <2> QED
    BY <1>1, <2>1, <2>2 DEF OwnThread, Serves, Good, TypeOK
<1>2. CASE proc[a].op # "job"
  BY <1>2, ReturnOwn DEF Leave
<1> QED
  BY <1>1, <1>2

LEMMA RaiseOwn ==
    ASSUME Good, NEW a \in Actors, Raise(a, proc[a].m),
           proc[a].pc \notin {"add_callback", "return", "clear_future"}
    PROVE  OwnThread(a)
BY GoOnOwn, LeaveOwn DEF Raise

LEMMA SaveOwn == ASSUME Good, NEW a \in Actors, NEW r, Serves(proc[a]), Save(proc[a].m, r)
                 PROVE  OwnStores(a)
BY DEF Save, OwnStores, Good, TypeOK

LEMMA StoresOwn == ASSUME Good, NEW a, UNCHANGED <<rec, listed, files>> PROVE OwnStores(a)
BY DEF OwnStores

\* Which threads of a pipeline work for a request.
LEMMA PipelineServes ==
    ASSUME Good, NEW a \in Actors,
           proc[a].pc \in {"extract", "parse", "files", "record", "build", "study", "reread",
                           "ready", "fail", "save_queued", "clear", "save_cleared", "mark",
                           "enrich"}
    PROVE  Serves(proc[a])
BY ThreadGood DEF GoodThread, WellPlaced, Serves, Thread, Op

LEMMA ProcessOwn ==
    ASSUME Good, NEW a \in Actors, Process(a), ~ReadMaterial(a)
    PROVE  OwnThread(a) /\ OwnStores(a)
<1>1. CASE SaveExtracting(a)
  BY <1>1, GoOnOwn, SaveOwn, PipelineServes DEF SaveExtracting
<1>2. CASE Parse(a)
  BY <1>2, GoOnOwn, RaiseOwn, SaveOwn, StoresOwn, PipelineServes DEF Parse
<1>3. CASE WriteParsed(a)
  <2>1. Serves(proc[a]) /\ UNCHANGED <<rec, listed>>
        /\ files' = [files EXCEPT ![proc[a].m] = @ \cup {"source", "parsed"}]
    BY <1>3, PipelineServes DEF WriteParsed
  <2> QED
    BY <1>3, <2>1, GoOnOwn DEF WriteParsed, OwnStores, Good, TypeOK
<1>4. CASE SaveCompleted(a)
  BY <1>4, GoOnOwn, SaveOwn, PipelineServes DEF SaveCompleted
<1>5. CASE ReplaceSections(a)
  BY <1>5, GoOnOwn, StoresOwn DEF ReplaceSections
<1>6. CASE BuildStudy(a)
  BY <1>6, GoOnOwn, RaiseOwn, StoresOwn DEF BuildStudy, stores
<1>7. CASE SaveStudy(a)
  <2>1. Serves(proc[a]) /\ UNCHANGED <<rec, listed>>
    BY <1>7, PipelineServes DEF SaveStudy
  <2>2. OwnThread(a)
    BY <1>7, GoOnOwn, RaiseOwn DEF SaveStudy
  <2>3. files' = files \/ files' = [files EXCEPT ![proc[a].m] = @ \cup {"study"}]
    BY <1>7 DEF SaveStudy
  <2> QED
    BY <2>1, <2>2, <2>3 DEF OwnStores, Good, TypeOK
<1>8. CASE RereadRecord(a)
  <2>1. UNCHANGED <<rec, listed, files>> /\ proc[a].pc = "reread"
    BY <1>8 DEF RereadRecord, stores
  <2>2. PICK r : proc' = [proc EXCEPT ![a].pc = "ready", ![a].copy = r]
    BY <1>8 DEF RereadRecord
  <2> DEFINE p == [proc[a] EXCEPT !.pc = "ready", !.copy = r]
  <2>3. p.op = proc[a].op /\ p.m = proc[a].m
    BY ThreadGood DEF Thread
  <2>4. proc' = [proc EXCEPT ![a] = p]
    BY <2>2
  <2> HIDE DEF p
  <2> QED
    BY <2>1, <2>3, <2>4, StoresOwn DEF OwnThread, Serves, Good, TypeOK
<1>9. CASE SaveReady(a)
  <2>1. OwnStores(a)
    BY <1>9, SaveOwn, PipelineServes DEF SaveReady
  <2>2. CASE proc[a].op = "regenerate"
    BY <1>9, <2>1, <2>2, ReturnOwn DEF SaveReady
  <2>3. CASE proc[a].op # "regenerate"
    <3> DEFINE p == [proc[a] EXCEPT !.pc = "list", !.copy = Extracting(proc[a].copy)]
    <3>1. p.op = proc[a].op /\ p.m = proc[a].m
      BY ThreadGood DEF Thread
    <3>2. proc' = [proc EXCEPT ![a] = p]
      BY <1>9, <2>3 DEF SaveReady
    <3> HIDE DEF p
    <3> QED
      BY <1>9, <2>1, <3>1, <3>2 DEF SaveReady, OwnThread, Serves, Good, TypeOK
  <2> QED
    BY <2>2, <2>3
<1>10. CASE SaveFailed(a)
  BY <1>10, RaiseOwn, SaveOwn, PipelineServes DEF SaveFailed
<1>11. CASE ListDocuments(a)
  <2>1. UNCHANGED <<rec, listed, files>> /\ proc[a].pc = "list"
    BY <1>11 DEF ListDocuments, stores
  <2>2. CASE ParsedDocs # {}
    <3> DEFINE p == [proc[a] EXCEPT !.pc = "index", !.docs = ParsedDocs, !.copy = NoRecord]
    <3>1. p.op = proc[a].op /\ p.m = proc[a].m
      BY ThreadGood DEF Thread
    <3>2. proc' = [proc EXCEPT ![a] = p]
      BY <1>11, <2>2 DEF ListDocuments
    <3> HIDE DEF p
    <3> QED
      BY <2>1, <3>1, <3>2, StoresOwn DEF OwnThread, Serves, Good, TypeOK
  <2>3. CASE ParsedDocs = {}
    BY <1>11, <2>1, <2>3, GoOnOwn, ReturnOwn, StoresOwn DEF ListDocuments
  <2> QED
    BY <2>2, <2>3
<1>12. CASE SaveIndex(a)
  BY <1>12, LeaveOwn, StoresOwn DEF SaveIndex
<1> QED
  BY <1>1, <1>2, <1>3, <1>4, <1>5, <1>6, <1>7, <1>8, <1>9, <1>10, <1>11, <1>12 DEF Process

LEMMA AnswerOwn ==
    ASSUME Good, NEW c \in Clients, Answer(c), ~ReadMaterial(c), ~Enqueue(c), ~AddCallback(c)
    PROVE  OwnThread(c) /\ OwnStores(c)
<1> c \in Actors
  BY DEF Actors
<1>1. CASE SaveQueued(c)
  BY <1>1, GoOnOwn, SaveOwn, PipelineServes DEF SaveQueued
<1>2. CASE ClearArtifacts(c)
  <2>1. UNCHANGED <<rec, listed>>
        /\ files' = [files EXCEPT ![proc[c].m] = @ \ {"parsed", "study"}]
    BY <1>2 DEF ClearArtifacts
  <2> QED
    BY <1>2, <2>1, GoOnOwn DEF ClearArtifacts, OwnStores, Good, TypeOK
<1>3. CASE SaveCleared(c)
  BY <1>3, GoOnOwn, SaveOwn, PipelineServes DEF SaveCleared
<1>4. CASE MarkFailed(c)
  BY <1>4, ReturnOwn, SaveOwn, PipelineServes DEF MarkFailed
<1>5. CASE SaveEnriching(c)
  BY <1>5, GoOnOwn, SaveOwn, PipelineServes DEF SaveEnriching
<1>6. CASE RemoveDirectory(c)
  <2>1. UNCHANGED <<rec, listed>> /\ files' = [files EXCEPT ![proc[c].m] = {}]
    BY <1>6 DEF RemoveDirectory
  <2> QED
    BY <1>6, <2>1, GoOnOwn DEF RemoveDirectory, OwnStores, Good, TypeOK
<1>7. CASE ListRemaining(c)
  BY <1>7, GoOnOwn, ReturnOwn, StoresOwn DEF ListRemaining
<1> QED
  BY <1>1, <1>2, <1>3, <1>4, <1>5, <1>6, <1>7, ProcessOwn DEF Answer

\* The steps a thread can take with a material that is gone.
LEMMA ReadKeepsGone ==
    ASSUME Good, Good', NEW a \in Actors, ReadMaterial(a), NEW m \in Material, Gone(m)
    PROVE  Gone(m)'
<1>1. UNCHANGED <<rec, listed, files>>
  BY DEF ReadMaterial, stores
<1>2. CASE proc[a].m = m /\ Serves(proc[a])
  <2>1. ~Found(m) /\ proc[a].op # "reprocess"
    BY <1>2, GoneMeans DEF ReadMaterial, Found, Harmless
  <2>2. Leave(a, m)
    BY <1>2, <2>1 DEF ReadMaterial, Raise
  <2>3. proc[a].op = "job" => m \in Material
    OBVIOUS
  <2>4. PICK p : Moves(a, p) /\ ~Serves(p)
    BY <2>2, <2>3, LeaveMoves
  <2> QED
    BY <1>1, <2>4, GoneKept DEF Moves
<1>3. CASE ~(proc[a].m = m /\ Serves(proc[a]))
  <2>1. OwnThread(a)
    <3>1. CASE Raise(a, proc[a].m)
      BY <3>1, RaiseOwn DEF ReadMaterial
    <3>2. ASSUME NEW r, proc' = [proc EXCEPT ![a].pc = "extract", ![a].copy = r]
          PROVE  OwnThread(a)
      <4> DEFINE p == [proc[a] EXCEPT !.pc = "extract", !.copy = r]
      <4>1. p.op = proc[a].op /\ p.m = proc[a].m
        BY ThreadGood DEF Thread
      <4>2. proc' = [proc EXCEPT ![a] = p]
        BY <3>2
      <4> HIDE DEF p
      <4> QED
        BY <4>1, <4>2 DEF ReadMaterial, OwnThread, Serves, Good, TypeOK
    <3> QED
      BY <3>1, <3>2 DEF ReadMaterial
  <2> QED
    BY <1>1, <1>3, <2>1, GoneKept DEF OwnThread
<1> QED
  BY <1>2, <1>3

\* Whoever is done with a material no longer works on it.
LEMMA ReleaseKeepsGone ==
    ASSUME Good, Good', NEW a \in Actors, NEW m \in Material, Gone(m),
           UNCHANGED <<rec, listed, files>>,
           Return(a) \/ GoOn(a, "add_callback") \/ GoOn(a, "clear_future")
    PROVE  Gone(m)'
<1>1. PICK p : Moves(a, p) /\ ~Serves(p)
  <2>1. CASE Return(a)
    BY <2>1, FreeType, FreeGood, PutMoves DEF Return
  <2>2. ASSUME NEW pc \in {"add_callback", "clear_future"}, GoOn(a, pc)
        PROVE  \E p : Moves(a, p) /\ ~Serves(p)
    BY <2>2, GoOnMoves DEF Pc, Serves
  <2> QED
    BY <2>1, <2>2
<1> QED
  BY <1>1, GoneKept DEF Moves

LEMMA RunnerKeepsGone ==
    ASSUME Good, Good', NEW a \in Actors, Enqueue(a) \/ AddCallback(a),
           NEW m \in Material, Gone(m)
    PROVE  Gone(m)'
<1>1. UNCHANGED <<rec, listed, files>>
  BY DEF Enqueue, AddCallback, stores
<1> QED
  BY <1>1, ReleaseKeepsGone DEF Enqueue, AddCallback

LEMMA WorkerKeepsGone ==
    ASSUME Good, Good', TakeJob \/ EndJob \/ ClearFuture, NEW m \in Material, Gone(m)
    PROVE  Gone(m)'
<1>1. Worker \in Actors /\ UNCHANGED <<rec, listed, files>>
  BY DEF TakeJob, EndJob, ClearFuture, stores, Actors
<1>2. CASE TakeJob
  <2> DEFINE p == [Free EXCEPT !.op = "job", !.pc = "read", !.m = Head(queue)]
  <2>1. p.op = "job" /\ p.pc = "read"
    BY FreeType DEF Thread
  <2>2. proc' = [proc EXCEPT ![Worker] = p]
    BY <1>2 DEF TakeJob
  <2> HIDE DEF p
  <2>3. proc'[Worker] = p /\ \A b \in Actors \ {Worker} : proc'[b] = proc[b]
    BY <1>1, <2>2 DEF Good, TypeOK
  <2> QED
    BY <1>1, <2>1, <2>3, GoneKept DEF Harmless
<1>3. CASE EndJob \/ ClearFuture
  BY <1>1, <1>3, ReleaseKeepsGone DEF EndJob, ClearFuture
<1> QED
  BY <1>2, <1>3

LEMMA UploadKeepsGone ==
    ASSUME Good, Good', NEW k \in Contents, NEW x \in Modules \cup {None}, Upload(k, x),
           NEW m \in Material, Gone(m)
    PROVE  Gone(m)'
<1>1. PICK n \in Fresh, next \in {"enqueue", "read"} :
          /\ rec' = [rec EXCEPT ![n] = [file |-> [hash |-> k, module |-> x],
                                        status |-> "pending", stage |-> "registered"]]
          /\ files' = [files EXCEPT ![n] = {"record", "source"}]
          /\ listed' = listed \cup {n}
          /\ proc' = [proc EXCEPT ![Loop] = [Free EXCEPT !.op = "upload", !.pc = next, !.m = n]]
  BY DEF Upload
<1>2. n # m /\ Loop \in Actors
  BY GoneMeans DEF Fresh, Actors
<1> DEFINE p == [Free EXCEPT !.op = "upload", !.pc = next, !.m = n]
<1>3. p.m = n
  BY FreeType DEF Thread
<1> HIDE DEF p
<1>4. proc' = [proc EXCEPT ![Loop] = p]
  BY <1>1 DEF p
<1>5. proc'[Loop] = p /\ \A b \in Actors \ {Loop} : proc'[b] = proc[b]
  BY <1>2, <1>4 DEF Good, TypeOK
<1>6. rec'[m] = rec[m] /\ files'[m] = files[m] /\ (m \in listed' => m \in listed)
  BY <1>1, <1>2 DEF Good, TypeOK
<1> QED
  BY <1>2, <1>3, <1>5, <1>6, GoneKept

LEMMA RequestKeepsGone ==
    ASSUME Good, Good', NEW c \in Clients, Request(c), NEW m \in Material, Gone(m)
    PROVE  Gone(m)'
<1>1. c \in Actors
  BY DEF Actors
<1>2. PICK op, n, pc : /\ Ask(c, op, n, pc)
                       /\ op = "search" \/ (n \in Material /\ Found(n))
                       /\ UNCHANGED <<rec, files>> /\ listed' \subseteq listed
  BY DEF Request, Search, Retry, Reprocess, Regenerate, Delete, stores
<1>3. n # m \/ op = "search"
  BY <1>2, GoneMeans DEF Found
<1>4. PICK r : proc' = [proc EXCEPT ![c] = [Free EXCEPT !.op = op, !.pc = pc, !.m = n,
                                                        !.copy = r]]
  BY <1>2 DEF Ask
<1> DEFINE p == [Free EXCEPT !.op = op, !.pc = pc, !.m = n, !.copy = r]
<1>5. p.op = op /\ p.m = n
  BY FreeType DEF Thread
<1>6. proc' = [proc EXCEPT ![c] = p]
  BY <1>4
<1> HIDE DEF p
<1>7. proc'[c] = p /\ \A b \in Actors \ {c} : proc'[b] = proc[b]
  BY <1>1, <1>6 DEF Good, TypeOK
<1>8. ~(Serves(p) /\ p.m = m)
  BY <1>3, <1>5 DEF Serves
<1> QED
  BY <1>1, <1>2, <1>7, <1>8, GoneKept

LEMMA KillKeepsGone == ASSUME Good, Kill, NEW m \in Material, Gone(m) PROVE Gone(m)'
<1>1. UNCHANGED <<rec, listed, files>> /\ proc' = [a \in Actors |-> Free]
  BY DEF Kill, stores
<1>2. \A a \in Actors : ~Working(a, m)'
  BY <1>1, FreeType DEF Working
<1> QED
  BY <1>1, <1>2 DEF Gone, Found

\* Once a material is deleted and every thread that could save its record has left, no
\* step brings it back: queued jobs find no record, and requests are refused.
THEOREM DeletedMaterialsStayGone == Spec => GoneStaysGone
<1>1. ASSUME Good, Good', [Next]_vars PROVE [\A m \in Material : Gone(m) => Gone(m)']_vars
  <2> SUFFICES ASSUME Next, NEW m \in Material, Gone(m) PROVE Gone(m)'
    BY <1>1
  <2>1. Loop \in Actors /\ Worker \in Actors /\ Clients \subseteq Actors
    BY DEF Actors
  <2>2. ASSUME NEW a \in Actors, Process(a) PROVE Gone(m)'
    <3>1. CASE ReadMaterial(a)
      BY <1>1, <3>1, ReadKeepsGone
    <3>2. CASE ~ReadMaterial(a)
      <4>1. OwnThread(a) /\ OwnStores(a)
        BY <1>1, <2>2, <3>2, ProcessOwn
      <4>2. proc[a].pc \notin {"enqueue", "requeue", "read"}
        BY <2>2, <3>2 DEF Process, SaveExtracting, Parse, WriteParsed, SaveCompleted,
           ReplaceSections, BuildStudy, SaveStudy, RereadRecord, SaveReady, SaveFailed,
           ListDocuments, SaveIndex
      <4> QED
        BY <1>1, <4>1, <4>2, OwnStepKeepsGone DEF Harmless
    <3> QED
      BY <3>1, <3>2
  <2>3. ASSUME NEW c \in Clients, Answer(c), ~Process(c) PROVE Gone(m)'
    <3>1. CASE Enqueue(c) \/ AddCallback(c)
      BY <1>1, <2>1, <3>1, RunnerKeepsGone
    <3>2. CASE ~Enqueue(c) /\ ~AddCallback(c)
      <4>1. OwnThread(c) /\ OwnStores(c)
        BY <1>1, <2>3, <3>2, AnswerOwn DEF Process
      <4>2. proc[c].pc \notin {"enqueue", "requeue", "read"}
        BY <2>3, <3>2 DEF Answer, SaveQueued, ClearArtifacts, SaveCleared, MarkFailed,
           SaveEnriching, RemoveDirectory, ListRemaining
      <4> QED
        BY <1>1, <2>1, <4>1, <4>2, OwnStepKeepsGone DEF Harmless
    <3> QED
      BY <3>1, <3>2
  <2> QED
    BY <1>1, <2>1, <2>2, <2>3, UploadKeepsGone, RunnerKeepsGone, WorkerKeepsGone,
       RequestKeepsGone, KillKeepsGone DEF Next, Work
<1> QED
  BY <1>1, Invariance, PTL DEF Spec, GoneStaysGone
=============================================================================
