--------------------------- MODULE QuizJobsProofs ---------------------------
(***************************************************************************)
(* Proofs about QuizJobs, for every number of clients, keys, questions,    *)
(* tries, jobs and mishaps.                                                *)
(*                                                                         *)
(* Good is the inductive invariant behind the safety of the tables:        *)
(* Working says, position by position, what the worker has done so far.    *)
(* Request threads, the main thread and restarts change at most the rows   *)
(* of jobs that are not running, so ThreadsKept covers all their steps.    *)
(***************************************************************************)
EXTENDS QuizJobs, TLAPS

\* Where a thread uses the job it carries.
HoldPcs == {"enqueue", "add_callback", "clear_future", "save_cancel"}

\* Where the worker is before, in and after the loop over the questions.
EarlyPcs == {"check_cancel", "mark_cancelled", "mark_running", "plan"}
LoopPcs == {"question", "append_result", "update_progress"}
SavePcs == {"save_session", "record_event"}

\* Threads and the worker carry jobs where they use one; only a job that exists
\* is asked to be cancelled.
Carried ==
    /\ \A a \in Threads : proc[a].pc \in HoldPcs => proc[a].job \in Job
    /\ \A a \in Threads :
           proc[a].pc = "save_cancel" => jobs[proc[a].job].status # "absent"
    /\ \A j \in Job : jobs[j].status = "absent" => ~jobs[j].cancel
    /\ work.pc # "idle" => work.job \in Job

\* The worker is about to make its job completed or partial.
Delivers ==
    \/ work.pc \in SavePcs
    \/ work.pc = "mark_completed" /\ work.outcome \in Delivered

\* What the worker has done when it is at a position of its code.
Working ==
    /\ work.pc \in EarlyPcs => work.made = {} /\ work.outcome = "completed"
    /\ work.pc \in {"plan", "mark_completed"} \cup LoopPcs \cup SavePcs =>
           jobs[work.job].status = "running"
    /\ work.pc \in LoopPcs => work.index \in 1..Asked /\ work.outcome \in Delivered
    /\ work.pc = "question" =>
           work.made \subseteq results[work.job] /\ Ordinals(work.made) = 1..(work.index - 1)
    /\ work.pc = "append_result" =>
           /\ {q \in work.made : q[1] # work.index} \subseteq results[work.job]
           /\ Ordinals(work.made) = 1..work.index
    /\ work.pc = "update_progress" =>
           work.made \subseteq results[work.job] /\ Ordinals(work.made) = 1..work.index
    /\ work.pc \in SavePcs => work.outcome \in Delivered
    /\ Delivers => /\ work.made \subseteq results[work.job]
                   /\ Ordinals(work.made) = 1..Asked
                   /\ jobs[work.job].completed = Asked
    /\ Delivers /\ work.pc # "save_session" => session[work.job] = work.made
    /\ Delivers /\ work.pc = "mark_completed" => work.job \in events

Good ==
    /\ TypeOK
    /\ Carried
    /\ Working
    /\ CompletedIsDelivered
    /\ ProgressIsFetchable

-----------------------------------------------------------------------------
\* What the assignments of the actions do to a thread and to the worker.

LEMMA PcEffect ==
    ASSUME proc \in [Threads -> Thread], NEW a \in Threads, NEW pc \in ThreadPc,
           proc' = [proc EXCEPT ![a].pc = pc]
    PROVE  /\ proc' \in [Threads -> Thread]
           /\ proc'[a].pc = pc
           /\ proc'[a].job = proc[a].job
           /\ \A b \in Threads \ {a} : proc'[b] = proc[b]
BY DEF Thread

LEMMA JobEffect ==
    ASSUME proc \in [Threads -> Thread], NEW a \in Threads, NEW pc \in ThreadPc, NEW j \in Job,
           proc' = [proc EXCEPT ![a].pc = pc, ![a].job = j]
    PROVE  /\ proc' \in [Threads -> Thread]
           /\ proc'[a].pc = pc
           /\ proc'[a].job = j
           /\ \A b \in Threads \ {a} : proc'[b] = proc[b]
BY DEF Thread

LEMMA ReturnEffect ==
    ASSUME proc \in [Threads -> Thread], NEW a \in Threads, Return(a)
    PROVE  /\ proc' \in [Threads -> Thread]
           /\ proc'[a].pc \in {"resume", "idle"}
           /\ \A b \in Threads \ {a} : proc'[b] = proc[b]
<1>1. \A pc \in {"resume", "idle"} : [Free EXCEPT !.pc = pc] \in Thread /\ [Free EXCEPT !.pc = pc].pc = pc
  BY DEF Free, Thread, ThreadPc
<1> QED
  BY <1>1 DEF Return

LEMMA FreeType == Free \in Thread /\ Free.pc = "idle"
BY DEF Free, Thread, ThreadPc

LEMMA GoOnEffect ==
    ASSUME work \in Work, NEW pc \in WorkPc, GoOn(pc)
    PROVE  /\ work' \in Work
           /\ work'.pc = pc
           /\ work'.job = work.job
           /\ work'.index = work.index
           /\ work'.outcome = work.outcome
           /\ work'.made = work.made
BY DEF GoOn, Work

LEMMA RestType ==
    /\ Rest \in Work
    /\ Rest.pc = "idle" /\ Rest.job = 0 /\ Rest.made = {} /\ Rest.outcome = "completed"
<1>1. {} \in SUBSET Question /\ 0 \in 0..Asked /\ "completed" \in Delivered \cup {"cancelled"}
  BY BoundsAssumption DEF Delivered
<1> QED
  BY <1>1 DEF Rest, Work, WorkPc

LEMMA AwakeEffect ==
    ASSUME NEW pc \in WorkPc, NEW j \in Job, work' = [Rest EXCEPT !.pc = pc, !.job = j]
    PROVE  /\ work' \in Work
           /\ work'.pc = pc
           /\ work'.job = j
           /\ work'.made = {}
           /\ work'.outcome = "completed"
<1>1. Rest \in Work
  BY RestType
<1>2. work' \in Work /\ work'.pc = pc /\ work'.job = j
  BY <1>1 DEF Work
<1>3. work'.made = Rest.made /\ work'.outcome = Rest.outcome
  BY <1>1 DEF Work
<1> QED
  BY <1>2, <1>3, RestType

LEMMA OrdinalsAdd ==
    ASSUME NEW qs, NEW i, NEW t
    PROVE  Ordinals(qs \cup {<<i, t>>}) = Ordinals(qs) \cup {i}
<1>1. \A q \in qs \cup {<<i, t>>} : q[1] \in Ordinals(qs) \cup {i}
  BY DEF Ordinals
<1>2. \A q \in qs : q[1] \in Ordinals(qs \cup {<<i, t>>})
  BY DEF Ordinals
<1>3. <<i, t>>[1] \in Ordinals(qs \cup {<<i, t>>})
  BY DEF Ordinals
<1> QED
  BY <1>1, <1>2, <1>3 DEF Ordinals

LEMMA OrdinalsMonotone ==
    ASSUME NEW qs, NEW rs, qs \subseteq rs
    PROVE  Ordinals(qs) \subseteq Ordinals(rs)
<1> SUFFICES ASSUME NEW q \in qs PROVE q[1] \in {r[1] : r \in rs}
  BY DEF Ordinals
<1> QED
  BY ZenonT(20)

-----------------------------------------------------------------------------
\* The steps of request threads, of the main thread, and restarts.

\* Such a step inserts jobs and asks for cancellations, nothing else.
RowsKept ==
    /\ jobs' \in [Job -> Row]
    /\ \A j \in Job : jobs[j].status # "absent" =>
           jobs'[j].status = jobs[j].status /\ jobs'[j].completed = jobs[j].completed
    /\ \A j \in Job : jobs[j].status = "absent" =>
           /\ jobs'[j].status \in {"absent", "queued"}
           /\ jobs'[j].completed \in {0, jobs[j].completed}
           /\ jobs'[j].status = "absent" => ~jobs'[j].cancel

LEMMA RowsUnchanged == ASSUME Good, UNCHANGED jobs PROVE RowsKept
BY DEF Good, TypeOK, Carried, RowsKept, Row, Status

LEMMA ThreadsKept ==
    ASSUME Good, RowsKept, UNCHANGED <<results, session, events>>,
           work' \in {work, Rest},
           proc' \in [Threads -> Thread],
           \A a \in Threads : proc'[a].pc \in HoldPcs => proc'[a].job \in Job,
           \A a \in Threads :
               proc'[a].pc = "save_cancel" => jobs[proc'[a].job].status # "absent",
           futures' \in [Job -> FutureState], queue' \in Seq(Job),
           lock' \in Threads \cup {NoOne}, todo' \subseteq Job, mishaps' \in 0..MaxMishap
    PROVE  Good'
<1>1. work' = work \/ work'.pc = "idle"
  BY RestType
<1>2. TypeOK'
  BY RestType DEF Good, TypeOK, RowsKept
<1>3. Carried'
  <2>1. \A a \in Threads : proc'[a].pc = "save_cancel" => jobs'[proc'[a].job].status # "absent"
    BY DEF RowsKept, HoldPcs
  <2>2. \A j \in Job : jobs'[j].status = "absent" => ~jobs'[j].cancel
    BY DEF RowsKept
  <2> QED
    BY <1>1, <2>1, <2>2 DEF Good, Carried
<1>4. Working'
  <2>1. CASE work'.pc = "idle"
    BY <2>1 DEF Working, Delivers, EarlyPcs, LoopPcs, SavePcs
  <2>2. CASE work' = work
    <3>1. jobs[work.job].status = "running" /\ work.job \in Job =>
              jobs'[work.job].status = "running" /\ jobs'[work.job].completed = jobs[work.job].completed
      BY DEF RowsKept
    <3>2. work.pc \in {"plan", "mark_completed"} \cup LoopPcs \cup SavePcs =>
              jobs[work.job].status = "running" /\ work.job \in Job
      BY DEF Good, Working, Carried, LoopPcs, SavePcs
    <3>3. Delivers => work.pc \in {"mark_completed"} \cup SavePcs
      BY DEF Delivers
    <3>4. Delivers' <=> Delivers
      BY <2>2 DEF Delivers
    <3> QED
      BY <2>2, <3>1, <3>2, <3>3, <3>4 DEF Good, Working
  <2> QED
    BY <1>1, <2>1, <2>2
<1>5. CompletedIsDelivered'
  <2>1. \A j \in Job : jobs'[j].status \in Delivered =>
            jobs[j].status \in Delivered /\ jobs'[j].completed = jobs[j].completed
    BY DEF RowsKept, Delivered
  <2> QED
    BY <2>1 DEF Good, CompletedIsDelivered
<1>6. ProgressIsFetchable'
  <2>1. \A j \in Job : jobs'[j].completed \in {0, jobs[j].completed}
    BY DEF RowsKept
  <2>2. 1..0 = {}
    OBVIOUS
  <2> QED
    BY <2>1, <2>2 DEF Good, ProgressIsFetchable
<1> QED
  BY <1>2, <1>3, <1>4, <1>5, <1>6 DEF Good

\* A thread that is back from its request or job.
LEMMA ReturnKept ==
    ASSUME Good, RowsKept, UNCHANGED <<results, session, events, todo, work>>,
           NEW a \in Threads, Return(a),
           futures' \in [Job -> FutureState], queue' \in Seq(Job),
           lock' \in Threads \cup {NoOne}, mishaps' \in 0..MaxMishap
    PROVE  Good'
<1>1. /\ proc' \in [Threads -> Thread]
      /\ proc'[a].pc \in {"resume", "idle"}
      /\ \A b \in Threads \ {a} : proc'[b] = proc[b]
  BY ReturnEffect DEF Good, TypeOK
<1>2. \A b \in Threads : proc'[b].pc \in HoldPcs => proc'[b].job \in Job
  BY <1>1 DEF Good, Carried, HoldPcs
<1>3. \A b \in Threads : proc'[b].pc = "save_cancel" => jobs[proc'[b].job].status # "absent"
  BY <1>1 DEF Good, Carried
<1> QED
  BY <1>1, <1>2, <1>3, ThreadsKept DEF Good, TypeOK

\* A thread that goes on with a job.
LEMMA HoldKept ==
    ASSUME Good, RowsKept, UNCHANGED <<results, session, events, work>>,
           NEW a \in Threads, proc' \in [Threads -> Thread], proc'[a].job \in Job,
           proc'[a].pc = "save_cancel" => jobs[proc'[a].job].status # "absent",
           \A b \in Threads \ {a} : proc'[b] = proc[b],
           futures' \in [Job -> FutureState], queue' \in Seq(Job),
           lock' \in Threads \cup {NoOne}, todo' \subseteq Job, mishaps' \in 0..MaxMishap
    PROVE  Good'
<1>1. \A b \in Threads : proc'[b].pc \in HoldPcs => proc'[b].job \in Job
  BY DEF Good, Carried
<1>2. \A b \in Threads : proc'[b].pc = "save_cancel" => jobs[proc'[b].job].status # "absent"
  BY DEF Good, Carried
<1> QED
  BY <1>1, <1>2, ThreadsKept

LEMMA FindActiveGood ==
    ASSUME Good, NEW c \in Clients, NEW k \in Keys, FindActive(c, k)
    PROVE  Good'
<1>1. RowsKept
  BY RowsUnchanged DEF FindActive, tables
<1>2. c \in Threads
  BY DEF Threads
<1>3. CASE \E j \in ActiveWith(k) : proc' = [proc EXCEPT ![c] = [pc |-> "enqueue", job |-> j, key |-> k]]
  <2>1. PICK j \in Job : proc' = [proc EXCEPT ![c] = [pc |-> "enqueue", job |-> j, key |-> k]]
    BY <1>3 DEF ActiveWith
  <2>2. [pc |-> "enqueue", job |-> j, key |-> k] \in Thread
    BY DEF Thread, ThreadPc
  <2>3. /\ proc' \in [Threads -> Thread]
        /\ proc'[c].pc = "enqueue" /\ proc'[c].job \in Job
        /\ \A b \in Threads \ {c} : proc'[b] = proc[b]
    BY <1>2, <2>1, <2>2 DEF Good, TypeOK
  <2> QED
    BY <1>1, <1>2, <2>3, HoldKept DEF FindActive, tables, runner, Good, TypeOK
<1>4. CASE proc' = [proc EXCEPT ![c] = [pc |-> "create", job |-> 0, key |-> k]]
  <2>1. [pc |-> "create", job |-> 0, key |-> k] \in Thread
    BY DEF Thread, ThreadPc
  <2>2. /\ proc' \in [Threads -> Thread]
        /\ proc'[c].pc = "create"
        /\ \A b \in Threads \ {c} : proc'[b] = proc[b]
    BY <1>2, <1>4, <2>1 DEF Good, TypeOK
  <2>3. \A b \in Threads : /\ proc'[b].pc \in HoldPcs => proc'[b].job \in Job
                           /\ proc'[b].pc = "save_cancel" => jobs[proc'[b].job].status # "absent"
    BY <2>2 DEF Good, Carried, HoldPcs
  <2> QED
    BY <1>1, <2>2, <2>3, ThreadsKept DEF FindActive, tables, runner, Good, TypeOK
<1> QED
  BY <1>3, <1>4 DEF FindActive

LEMMA ReadStatusGood ==
    ASSUME Good, NEW c \in Clients, NEW j \in Job, ReadStatus(c, j)
    PROVE  Good'
<1>1. RowsKept
  BY RowsUnchanged DEF ReadStatus, tables
<1>2. /\ proc' \in [Threads -> Thread]
      /\ proc'[c].job = j
      /\ \A b \in Threads \ {c} : proc'[b] = proc[b]
  BY JobEffect DEF ReadStatus, Good, TypeOK, Threads, ThreadPc
<1>3. jobs[j].status # "absent"
  BY DEF ReadStatus, Active
<1> QED
  BY <1>1, <1>2, <1>3, HoldKept DEF ReadStatus, tables, runner, Threads, Good, TypeOK

LEMMA CreateJobGood == ASSUME Good, NEW c \in Clients, CreateJob(c) PROVE Good'
<1>1. PICK j \in Unused :
          /\ jobs' = [jobs EXCEPT ![j] = [NoRow EXCEPT !.status = "queued", !.key = proc[c].key]]
          /\ proc' = [proc EXCEPT ![c].pc = "enqueue", ![c].job = j]
  BY DEF CreateJob
<1>2. j \in Job /\ jobs[j].status = "absent"
  BY DEF Unused
<1>3. /\ proc' \in [Threads -> Thread]
      /\ proc'[c].pc = "enqueue" /\ proc'[c].job = j
      /\ \A b \in Threads \ {c} : proc'[b] = proc[b]
  BY <1>1, <1>2, JobEffect DEF Good, TypeOK, Threads, ThreadPc
<1>4. RowsKept
  <2> DEFINE row == [NoRow EXCEPT !.status = "queued", !.key = proc[c].key]
  <2>1. proc[c].key \in Keys \cup {NoOne}
    BY DEF Good, TypeOK, Threads, Thread
  <2>2. NoRow \in Row /\ NoRow.completed = 0
    BY BoundsAssumption DEF NoRow, Row, Status
  <2>3. row \in Row /\ row.status = "queued" /\ row.completed = 0
    BY <2>1, <2>2 DEF Row, Status, Active
  <2> HIDE DEF row
  <2>4. /\ jobs' \in [Job -> Row]
        /\ jobs'[j] = row
        /\ \A i \in Job \ {j} : jobs'[i] = jobs[i]
    BY <1>1, <1>2, <2>3 DEF Good, TypeOK, row
  <2>5. \A i \in Job : jobs[i].status # "absent" => i # j
    BY <1>2
  <2> QED
    BY <2>3, <2>4, <2>5 DEF RowsKept, Good, Carried
<1> QED
  BY <1>2, <1>3, <1>4, HoldKept DEF CreateJob, runner, Threads, Good, TypeOK

LEMMA SaveCancelGood == ASSUME Good, NEW c \in Clients, SaveCancel(c) PROVE Good'
<1> DEFINE j == proc[c].job
<1>1. j \in Job /\ jobs[j].status # "absent"
  BY DEF SaveCancel, Good, Carried, HoldPcs, Threads
<1>2. RowsKept
  <2>1. /\ jobs' \in [Job -> Row]
        /\ jobs'[j].status = jobs[j].status /\ jobs'[j].completed = jobs[j].completed
        /\ \A i \in Job \ {j} : jobs'[i] = jobs[i]
    BY <1>1 DEF SaveCancel, Good, TypeOK, Row
  <2> QED
    BY <1>1, <2>1 DEF RowsKept, Good, Carried
<1> QED
  BY <1>2, ReturnKept DEF SaveCancel, runner, Threads, Good, TypeOK

LEMMA EnqueueGood == ASSUME Good, NEW a \in Threads, Enqueue(a) PROVE Good'
<1>1. RowsKept /\ UNCHANGED <<results, session, events, todo, work, mishaps>>
  BY RowsUnchanged DEF Enqueue, tables
<1>2. proc[a].job \in Job
  BY DEF Enqueue, Good, Carried, HoldPcs
<1>3. CASE Return(a) /\ UNCHANGED runner
  BY <1>1, <1>3, ReturnKept DEF runner, Good, TypeOK
<1>4. CASE /\ futures' = [futures EXCEPT ![proc[a].job] = "pending"]
           /\ queue' = Append(queue, proc[a].job)
           /\ lock' = a
           /\ proc' = [proc EXCEPT ![a].pc = "add_callback"]
  <2>1. /\ proc' \in [Threads -> Thread]
        /\ proc'[a].pc = "add_callback" /\ proc'[a].job = proc[a].job
        /\ \A b \in Threads \ {a} : proc'[b] = proc[b]
    BY <1>4, PcEffect DEF Good, TypeOK, ThreadPc
  <2>2. futures' \in [Job -> FutureState] /\ queue' \in Seq(Job)
    BY <1>2, <1>4 DEF Good, TypeOK, FutureState
  <2> QED
    BY <1>1, <1>2, <1>4, <2>1, <2>2, HoldKept DEF Good, TypeOK
<1> QED
  BY <1>3, <1>4 DEF Enqueue

LEMMA AddCallbackGood == ASSUME Good, NEW a \in Threads, AddCallback(a) PROVE Good'
<1>1. RowsKept /\ UNCHANGED <<results, session, events, futures, queue, todo, work, mishaps>>
  BY RowsUnchanged DEF AddCallback, tables
<1>2. CASE proc' = [proc EXCEPT ![a].pc = "clear_future"] /\ UNCHANGED lock
  <2>1. /\ proc' \in [Threads -> Thread]
        /\ proc'[a].pc = "clear_future" /\ proc'[a].job \in Job
        /\ \A b \in Threads \ {a} : proc'[b] = proc[b]
    BY <1>2, PcEffect DEF AddCallback, Good, TypeOK, Carried, HoldPcs, ThreadPc
  <2> QED
    BY <1>1, <1>2, <2>1, HoldKept DEF Good, TypeOK
<1>3. CASE Return(a) /\ lock' = NoOne
  BY <1>1, <1>3, ReturnKept DEF Good, TypeOK
<1> QED
  BY <1>2, <1>3 DEF AddCallback

LEMMA RequestFaultGood == ASSUME Good, NEW c \in Clients, RequestFault(c) PROVE Good'
<1>1. RowsKept /\ UNCHANGED <<results, session, events, futures, queue, lock, todo, work>>
  BY RowsUnchanged DEF RequestFault, tables, runner
<1>2. mishaps' \in 0..MaxMishap
  BY BoundsAssumption DEF RequestFault, Mishap, Good, TypeOK
<1> QED
  BY <1>1, <1>2, ReturnKept DEF RequestFault, Threads, Good, TypeOK

LEMMA ResumeNextGood == ASSUME Good, ResumeNext PROVE Good'
<1>1. PICK j \in todo : /\ proc' = [proc EXCEPT ![Starter].pc = "enqueue", ![Starter].job = j]
                        /\ todo' = todo \ {j}
  BY DEF ResumeNext
<1>2. j \in Job /\ Starter \in Threads /\ "enqueue" \in ThreadPc
  BY DEF Good, TypeOK, Threads, ThreadPc
<1>3. /\ proc' \in [Threads -> Thread]
      /\ proc'[Starter].pc = "enqueue" /\ proc'[Starter].job \in Job
      /\ \A b \in Threads \ {Starter} : proc'[b] = proc[b]
  BY <1>1, <1>2, JobEffect DEF Good, TypeOK
<1>4. RowsKept
  BY RowsUnchanged DEF ResumeNext, tables
<1> QED
  BY <1>1, <1>2, <1>3, <1>4, HoldKept DEF ResumeNext, tables, runner, Good, TypeOK

LEMMA ServeRequestsGood == ASSUME Good, ServeRequests PROVE Good'
<1>1. /\ proc' \in [Threads -> Thread]
      /\ proc'[Starter].pc = "idle"
      /\ \A b \in Threads \ {Starter} : proc'[b] = proc[b]
  BY FreeType DEF ServeRequests, Good, TypeOK, Threads
<1>2. \A b \in Threads : /\ proc'[b].pc \in HoldPcs => proc'[b].job \in Job
                         /\ proc'[b].pc = "save_cancel" => jobs[proc'[b].job].status # "absent"
  BY <1>1 DEF Good, Carried, HoldPcs
<1>3. RowsKept
  BY RowsUnchanged DEF ServeRequests, tables
<1> QED
  BY <1>1, <1>2, <1>3, ThreadsKept DEF ServeRequests, tables, runner, Good, TypeOK

LEMMA CrashRestartGood == ASSUME Good, CrashRestart PROVE Good'
<1>1. \A b \in Threads : proc'[b] \in Thread /\ proc'[b].pc \in {"resume", "idle"}
  <2>1. [Free EXCEPT !.pc = "resume"] \in Thread /\ [Free EXCEPT !.pc = "resume"].pc = "resume"
    BY DEF Free, Thread, ThreadPc
  <2> QED
    BY <2>1, FreeType DEF CrashRestart
<1>2. proc' \in [Threads -> Thread]
  BY <1>1 DEF CrashRestart
<1>3. \A b \in Threads : proc'[b].pc \notin HoldPcs
  BY <1>1 DEF HoldPcs
<1>4. futures' \in [Job -> FutureState] /\ queue' \in Seq(Job) /\ mishaps' \in 0..MaxMishap
  BY BoundsAssumption DEF CrashRestart, Mishap, FutureState, Good, TypeOK
<1>5. RowsKept /\ UNCHANGED <<results, session, events>>
  BY RowsUnchanged DEF CrashRestart, tables
<1> QED
  BY <1>2, <1>3, <1>4, <1>5, ThreadsKept DEF CrashRestart, IncompleteJobs, HoldPcs, Good, TypeOK

-----------------------------------------------------------------------------
\* The steps of the worker.

\* Such a step leaves the threads alone, withdraws no request to cancel and removes no job.
LEMMA WorkerKept ==
    ASSUME Good, UNCHANGED <<proc, todo>>,
           jobs' \in [Job -> Row],
           \A j \in Job : /\ jobs'[j].cancel = jobs[j].cancel
                          /\ jobs'[j].status = "absent" => jobs[j].status = "absent",
           results' \in [Job -> SUBSET Question], session' \in [Job -> SUBSET Question],
           events' \subseteq Job, futures' \in [Job -> FutureState], queue' \in Seq(Job),
           lock' \in Threads \cup {NoOne}, mishaps' \in 0..MaxMishap,
           work' \in Work, work'.pc # "idle" => work'.job \in Job,
           Working', CompletedIsDelivered', ProgressIsFetchable'
    PROVE  Good'
<1>1. TypeOK'
  BY DEF Good, TypeOK
<1>2. Carried'
  BY DEF Good, Carried, HoldPcs
<1> QED
  BY <1>1, <1>2 DEF Good

\* A step of the worker that writes no table.
LEMMA LocalKept ==
    ASSUME Good, UNCHANGED <<tables, proc, todo>>,
           futures' \in [Job -> FutureState], queue' \in Seq(Job),
           lock' \in Threads \cup {NoOne}, mishaps' \in 0..MaxMishap,
           work' \in Work, work'.pc # "idle" => work'.job \in Job, Working'
    PROVE  Good'
<1>1. UNCHANGED <<jobs, results, session, events>>
  BY DEF tables
<1>2. CompletedIsDelivered' /\ ProgressIsFetchable'
  BY <1>1 DEF Good, CompletedIsDelivered, ProgressIsFetchable
<1> QED
  BY <1>1, <1>2, WorkerKept DEF Good, TypeOK

\* Positions at which nothing is claimed of what the worker has done.
LEMMA WorkingElsewhere ==
    ASSUME work.pc \in {"idle", "return", "clear_future", "mark_failed"}
    PROVE  Working
BY DEF Working, Delivers, EarlyPcs, LoopPcs, SavePcs

LEMMA TakeJobGood == ASSUME Good, TakeJob PROVE Good'
<1>1. Head(queue) \in Job /\ queue' \in Seq(Job)
  BY DEF TakeJob, Good, TypeOK
<1>2. /\ work' \in Work /\ work'.pc = "check_cancel" /\ work'.job \in Job
      /\ work'.made = {} /\ work'.outcome = "completed"
  BY <1>1, AwakeEffect DEF TakeJob, WorkPc, TryPcs
<1>3. futures' \in [Job -> FutureState]
  BY DEF TakeJob, Good, TypeOK, FutureState
<1>4. Working'
  BY <1>2 DEF Working, Delivers, EarlyPcs, LoopPcs, SavePcs
<1> QED
  BY <1>1, <1>2, <1>3, <1>4, LocalKept DEF TakeJob, Good, TypeOK

LEMMA CheckCancelGood == ASSUME Good, CheckCancel PROVE Good'
<1>1. PICK pc \in {"mark_cancelled", "mark_running"} : GoOn(pc)
  BY DEF CheckCancel
<1>2. pc \in WorkPc /\ work \in Work
  BY DEF WorkPc, TryPcs, Good, TypeOK
<1>3. /\ work' \in Work /\ work'.pc = pc /\ work'.job = work.job
      /\ work'.made = work.made /\ work'.outcome = work.outcome
  BY <1>1, <1>2, GoOnEffect
<1>4. work.made = {} /\ work.outcome = "completed" /\ work.job \in Job
  BY DEF CheckCancel, Good, Working, Carried, EarlyPcs
<1>5. Working'
  BY <1>3, <1>4 DEF Working, Delivers, EarlyPcs, LoopPcs, SavePcs
<1> QED
  BY <1>3, <1>4, <1>5, LocalKept DEF CheckCancel, runner, Good, TypeOK

\* Whatever fails for good ends in mark_failed; a call that raises may also end the job.
LEMMA GiveUpGood ==
    ASSUME Good, NEW pc \in {"mark_failed", "return"}, GoOn(pc), work.pc # "idle",
           UNCHANGED <<tables, runner, proc, todo>>, mishaps' \in 0..MaxMishap
    PROVE  Good'
<1>1. work' \in Work /\ work'.pc = pc /\ work'.job = work.job
  BY GoOnEffect DEF Good, TypeOK, WorkPc, LatePcs
<1>2. Working'
  BY <1>1 DEF Working, Delivers, EarlyPcs, LoopPcs, SavePcs
<1> QED
  BY <1>1, <1>2, LocalKept DEF runner, Good, TypeOK, Carried

LEMMA WorkFaultGood == ASSUME Good, WorkFault PROVE Good'
<1>1. mishaps' \in 0..MaxMishap
  BY BoundsAssumption DEF WorkFault, Mishap, Good, TypeOK
<1>2. work.pc # "idle"
  BY DEF WorkFault, TryPcs, LatePcs
<1> QED
  BY <1>1, <1>2, GiveUpGood DEF WorkFault

LEMMA PlanGood == ASSUME Good, Plan PROVE Good'
<1>1. CASE GoOn("mark_failed")
  BY <1>1, GiveUpGood DEF Plan, Good, TypeOK
<1>2. CASE work' = [work EXCEPT !.pc = "question", !.index = 1]
  <2>1. 1 \in 0..Asked /\ 1 \in 1..Asked /\ "question" \in WorkPc
    BY BoundsAssumption DEF WorkPc, TryPcs
  <2>2. /\ work' \in Work /\ work'.pc = "question" /\ work'.index = 1
        /\ work'.job = work.job /\ work'.made = work.made /\ work'.outcome = work.outcome
    BY <1>2, <2>1 DEF Good, TypeOK, Work
  <2>3. /\ work.made = {} /\ work.outcome = "completed" /\ work.job \in Job
        /\ jobs[work.job].status = "running"
    BY DEF Plan, Good, Working, Carried, EarlyPcs
  <2>4. Ordinals({}) = 1..(1 - 1)
    BY DEF Ordinals
  <2>5. Working'
    BY <2>1, <2>2, <2>3, <2>4 DEF Plan, tables, Working, Delivers, EarlyPcs, LoopPcs, SavePcs, Delivered
  <2> QED
    BY <2>2, <2>3, <2>5, LocalKept DEF Plan, runner, Good, TypeOK
<1> QED
  BY <1>1, <1>2 DEF Plan

LEMMA CancelSeenGood == ASSUME Good, CancelSeen PROVE Good'
<1>1. /\ work' \in Work /\ work'.pc = "mark_completed" /\ work'.outcome = "cancelled"
      /\ work'.job = work.job
  BY DEF CancelSeen, Good, TypeOK, Work, WorkPc, LatePcs
<1>2. work.job \in Job /\ jobs[work.job].status = "running"
  BY DEF CancelSeen, Good, Working, Carried, LoopPcs
<1>3. Working'
  BY <1>1, <1>2 DEF CancelSeen, tables, Working, Delivers, Delivered, EarlyPcs, LoopPcs, SavePcs
<1> QED
  BY <1>1, <1>2, <1>3, LocalKept DEF CancelSeen, runner, Good, TypeOK

LEMMA MakeQuestionGood == ASSUME Good, MakeQuestion PROVE Good'
<1>1. CASE GoOn("mark_failed")
  BY <1>1, GiveUpGood DEF MakeQuestion, Good, TypeOK
<1>2. CASE \E late \in BOOLEAN, t \in 1..MaxTry :
              work' = [work EXCEPT !.pc = "append_result",
                                   !.outcome = IF late THEN "partial" ELSE @,
                                   !.made = @ \cup {<<work.index, t>>}]
  <2>1. PICK outcome \in {"partial", work.outcome}, t \in 1..MaxTry :
            work' = [work EXCEPT !.pc = "append_result", !.outcome = outcome,
                                 !.made = @ \cup {<<work.index, t>>}]
    BY <1>2
  <2>2. /\ work.index \in 1..Asked /\ outcome \in Delivered
        /\ work.job \in Job /\ jobs[work.job].status = "running"
        /\ work.made \subseteq results[work.job]
        /\ Ordinals(work.made) = 1..(work.index - 1)
    BY DEF MakeQuestion, Good, Working, Carried, LoopPcs, Delivered
  <2>3. work.made \cup {<<work.index, t>>} \in SUBSET Question
    BY <2>2 DEF Good, TypeOK, Work, Question
  <2>4. /\ work' \in Work /\ work'.pc = "append_result" /\ work'.outcome = outcome
        /\ work'.job = work.job /\ work'.index = work.index
        /\ work'.made = work.made \cup {<<work.index, t>>}
    BY <2>1, <2>2, <2>3 DEF Good, TypeOK, Work, WorkPc, TryPcs
  <2>5. Ordinals(work'.made) = 1..work.index
    <3>1. (1..(work.index - 1)) \cup {work.index} = 1..work.index
      BY <2>2, BoundsAssumption
    <3>2. Ordinals(work.made \cup {<<work.index, t>>}) = Ordinals(work.made) \cup {work.index}
      BY OrdinalsAdd
    <3> QED
      BY <2>2, <2>4, <3>1, <3>2
  <2>6. {q \in work'.made : q[1] # work'.index} \subseteq results[work'.job]
    BY <2>2, <2>4
  <2>7. Working'
    BY <2>2, <2>4, <2>5, <2>6
    DEF MakeQuestion, tables, Working, Delivers, EarlyPcs, LoopPcs, SavePcs
  <2> QED
    BY <2>2, <2>4, <2>7, LocalKept DEF MakeQuestion, runner, Good, TypeOK
<1> QED
  BY <1>1, <1>2 DEF MakeQuestion

LEMMA AppendResultGood == ASSUME Good, AppendResult PROVE Good'
<1> DEFINE j == work.job
           row == {q \in work.made : q[1] = work.index}
<1>1. /\ j \in Job /\ jobs[j].status = "running"
      /\ work.index \in 1..Asked /\ work.outcome \in Delivered
      /\ {q \in work.made : q[1] # work.index} \subseteq results[j]
      /\ Ordinals(work.made) = 1..work.index
      /\ work.made \subseteq Question
  BY DEF AppendResult, Good, TypeOK, Work, Working, Carried, LoopPcs
<1>2. /\ results' \in [Job -> SUBSET Question]
      /\ results'[j] = results[j] \cup row
      /\ \A i \in Job : results[i] \subseteq results'[i]
  BY <1>1 DEF AppendResult, Good, TypeOK
<1>3. work.made \subseteq results'[j]
  BY <1>1, <1>2
<1>4. /\ work' \in Work /\ work'.pc = "update_progress" /\ work'.job = j
      /\ work'.index = work.index /\ work'.outcome = work.outcome /\ work'.made = work.made
  BY GoOnEffect DEF AppendResult, Good, TypeOK, WorkPc, TryPcs
<1>5. Working'
  BY <1>1, <1>3, <1>4 DEF AppendResult, Working, Delivers, EarlyPcs, LoopPcs, SavePcs
<1>6. CompletedIsDelivered'
  BY <1>2 DEF AppendResult, Good, CompletedIsDelivered
<1>7. ProgressIsFetchable'
  <2>1. \A i \in Job : Ordinals(results[i]) \subseteq Ordinals(results'[i])
    BY <1>2, OrdinalsMonotone
  <2> QED
    BY <2>1 DEF AppendResult, Good, ProgressIsFetchable
<1> QED
  BY <1>1, <1>2, <1>4, <1>5, <1>6, <1>7, WorkerKept DEF AppendResult, runner, Good, TypeOK

LEMMA UpdateProgressGood == ASSUME Good, UpdateProgress PROVE Good'
<1> DEFINE j == work.job
<1>1. /\ j \in Job /\ jobs[j].status = "running"
      /\ work.index \in 1..Asked /\ work.outcome \in Delivered
      /\ work.made \subseteq results[j] /\ Ordinals(work.made) = 1..work.index
  BY DEF UpdateProgress, Good, Working, Carried, LoopPcs
<1>2. /\ jobs' \in [Job -> Row]
      /\ jobs'[j].completed = work.index /\ jobs'[j].status = "running"
      /\ \A i \in Job : jobs'[i].status = jobs[i].status /\ jobs'[i].cancel = jobs[i].cancel
      /\ \A i \in Job \ {j} : jobs'[i] = jobs[i]
  <2> DEFINE row == [jobs[j] EXCEPT !.completed = work.index]
  <2>1. work.index \in 0..Asked
    BY <1>1, BoundsAssumption
  <2>2. /\ row \in Row /\ row.completed = work.index
        /\ row.status = jobs[j].status /\ row.cancel = jobs[j].cancel
    BY <1>1, <2>1 DEF Good, TypeOK, Row
  <2>3. jobs' = [jobs EXCEPT ![j] = row]
    BY DEF UpdateProgress
  <2> HIDE DEF row
  <2>4. jobs' \in [Job -> Row] /\ jobs'[j] = row /\ \A i \in Job \ {j} : jobs'[i] = jobs[i]
    BY <1>1, <2>2, <2>3 DEF Good, TypeOK
  <2> QED
    BY <1>1, <2>2, <2>4
<1>3. CompletedIsDelivered'
  <2>1. \A i \in Job : jobs'[i].status \in Delivered => i # j
    BY <1>2 DEF Delivered
  <2> QED
    BY <1>2, <2>1 DEF UpdateProgress, Good, CompletedIsDelivered
<1>4. ProgressIsFetchable'
  BY <1>1, <1>2, OrdinalsMonotone DEF UpdateProgress, Good, ProgressIsFetchable
<1>5. CASE work.index < Asked
  <2>1. work.index + 1 \in 1..Asked /\ work.index + 1 \in 0..Asked
    BY <1>1, <1>5, BoundsAssumption
  <2>2. /\ work' \in Work /\ work'.pc = "question" /\ work'.index = work.index + 1
        /\ work'.job = j /\ work'.outcome = work.outcome /\ work'.made = work.made
    BY <1>5, <2>1 DEF UpdateProgress, NextQuestion, Good, TypeOK, Work, WorkPc, TryPcs
  <2>3. (work.index + 1) - 1 = work.index
    BY <1>1, BoundsAssumption
  <2>4. Working'
    BY <1>1, <1>2, <2>1, <2>2, <2>3
    DEF UpdateProgress, Working, Delivers, EarlyPcs, LoopPcs, SavePcs
  <2> QED
    BY <1>1, <1>2, <1>3, <1>4, <2>2, <2>4, WorkerKept DEF UpdateProgress, runner, Good, TypeOK
<1>6. CASE ~(work.index < Asked)
  <2>1. work.index = Asked
    BY <1>1, <1>6, BoundsAssumption
  <2>2. /\ work' \in Work /\ work'.pc = "save_session"
        /\ work'.job = j /\ work'.outcome = work.outcome /\ work'.made = work.made
    BY <1>6 DEF UpdateProgress, NextQuestion, Good, TypeOK, Work, WorkPc, LatePcs
  <2>3. Working'
    BY <1>1, <1>2, <2>1, <2>2
    DEF UpdateProgress, Working, Delivers, EarlyPcs, LoopPcs, SavePcs
  <2> QED
    BY <1>1, <1>2, <1>3, <1>4, <2>2, <2>3, WorkerKept DEF UpdateProgress, runner, Good, TypeOK
<1> QED
  BY <1>5, <1>6

LEMMA SaveSessionGood == ASSUME Good, SaveSession PROVE Good'
<1> DEFINE j == work.job
<1>1. /\ j \in Job /\ jobs[j].status = "running" /\ jobs[j].completed = Asked
      /\ work.outcome \in Delivered
      /\ work.made \subseteq results[j] /\ Ordinals(work.made) = 1..Asked
      /\ work.made \subseteq Question
  BY DEF SaveSession, Good, TypeOK, Work, Working, Carried, Delivers, SavePcs
<1>2. /\ session' \in [Job -> SUBSET Question]
      /\ session'[j] = work.made
      /\ \A i \in Job \ {j} : session'[i] = session[i]
  BY <1>1 DEF SaveSession, Good, TypeOK
<1>3. /\ work' \in Work /\ work'.pc = "record_event" /\ work'.job = j
      /\ work'.outcome = work.outcome /\ work'.made = work.made
  BY GoOnEffect DEF SaveSession, Good, TypeOK, WorkPc, LatePcs
<1>4. Working'
  BY <1>1, <1>2, <1>3 DEF SaveSession, Working, Delivers, EarlyPcs, LoopPcs, SavePcs
<1>5. CompletedIsDelivered'
  <2>1. \A i \in Job : jobs[i].status \in Delivered => i # j
    BY <1>1 DEF Delivered
  <2> QED
    BY <1>2, <2>1 DEF SaveSession, Good, CompletedIsDelivered
<1>6. ProgressIsFetchable'
  BY DEF SaveSession, Good, ProgressIsFetchable
<1> QED
  BY <1>1, <1>2, <1>3, <1>4, <1>5, <1>6, WorkerKept DEF SaveSession, runner, Good, TypeOK

LEMMA RecordEventGood == ASSUME Good, RecordEvent PROVE Good'
<1> DEFINE j == work.job
<1>1. /\ j \in Job /\ jobs[j].status = "running" /\ jobs[j].completed = Asked
      /\ work.outcome \in Delivered
      /\ work.made \subseteq results[j] /\ Ordinals(work.made) = 1..Asked
      /\ session[j] = work.made
  BY DEF RecordEvent, Good, Working, Carried, Delivers, SavePcs
<1>2. /\ work' \in Work /\ work'.pc = "mark_completed" /\ work'.job = j
      /\ work'.outcome = work.outcome /\ work'.made = work.made
  BY GoOnEffect DEF RecordEvent, Good, TypeOK, WorkPc, LatePcs
<1>3. Working'
  BY <1>1, <1>2 DEF RecordEvent, Working, Delivers, EarlyPcs, LoopPcs, SavePcs
<1>4. CompletedIsDelivered' /\ ProgressIsFetchable'
  BY DEF RecordEvent, Good, CompletedIsDelivered, ProgressIsFetchable
<1> QED
  BY <1>1, <1>2, <1>3, <1>4, WorkerKept DEF RecordEvent, runner, Good, TypeOK

\* Writing the status changes nothing else of the rows.
LEMMA StatusEffect ==
    ASSUME Good, NEW s \in Status, s # "absent", SetStatus(s), work.job \in Job
    PROVE  /\ jobs' \in [Job -> Row]
           /\ jobs'[work.job].status = s
           /\ \A i \in Job : /\ jobs'[i].cancel = jobs[i].cancel
                             /\ jobs'[i].completed = jobs[i].completed
                             /\ jobs'[i].status = "absent" => jobs[i].status = "absent"
           /\ \A i \in Job \ {work.job} : jobs'[i] = jobs[i]
<1> DEFINE row == [jobs[work.job] EXCEPT !.status = s]
<1>1. /\ row \in Row /\ row.status = s
      /\ row.cancel = jobs[work.job].cancel /\ row.completed = jobs[work.job].completed
  BY DEF Good, TypeOK, Row
<1>2. jobs' = [jobs EXCEPT ![work.job] = row]
  BY DEF SetStatus
<1> HIDE DEF row
<1>3. jobs' \in [Job -> Row] /\ jobs'[work.job] = row /\ \A i \in Job \ {work.job} : jobs'[i] = jobs[i]
  BY <1>1, <1>2 DEF Good, TypeOK
<1> QED
  BY <1>1, <1>3

\* A step of the worker that writes its job's status.
LEMMA StatusKept ==
    ASSUME Good, NEW s \in Status, s # "absent", SetStatus(s), work.pc # "idle",
           s \in Delivered => Delivers /\ work.pc = "mark_completed",
           NEW pc \in {"return", "plan"}, GoOn(pc),
           pc = "plan" => s = "running" /\ work.made = {} /\ work.outcome = "completed",
           UNCHANGED <<results, session, events, runner, proc, todo, mishaps>>
    PROVE  Good'
<1> DEFINE j == work.job
<1>1. j \in Job
  BY DEF Good, Carried
<1>2. /\ jobs' \in [Job -> Row] /\ jobs'[j].status = s
      /\ \A i \in Job : /\ jobs'[i].cancel = jobs[i].cancel
                        /\ jobs'[i].completed = jobs[i].completed
                        /\ jobs'[i].status = "absent" => jobs[i].status = "absent"
      /\ \A i \in Job \ {j} : jobs'[i] = jobs[i]
  BY <1>1, StatusEffect
<1>3. pc \in WorkPc /\ work \in Work
  BY DEF WorkPc, TryPcs, Good, TypeOK
<1>4. /\ work' \in Work /\ work'.pc = pc /\ work'.job = j
      /\ work'.outcome = work.outcome /\ work'.made = work.made
  BY <1>3, GoOnEffect
<1>5. Working'
  BY <1>2, <1>4 DEF Working, Delivers, EarlyPcs, LoopPcs, SavePcs
<1>6. CompletedIsDelivered'
  <2>1. CASE s \in Delivered
    <3>1. /\ session[j] = work.made /\ work.made \subseteq results[j]
          /\ Ordinals(work.made) = 1..Asked /\ jobs[j].completed = Asked
          /\ j \in events
      BY <2>1 DEF Good, Working
    <3>2. Ordinals({}) = {}
      BY DEF Ordinals
    <3>3. 1 \in 1..Asked
      BY BoundsAssumption
    <3>4. work.made # {}
      BY <3>1, <3>2, <3>3
    <3> QED
      BY <1>2, <3>1, <3>4 DEF Good, CompletedIsDelivered
  <2>2. CASE s \notin Delivered
    BY <1>2, <2>2 DEF Good, CompletedIsDelivered
  <2> QED
    BY <2>1, <2>2
<1>7. ProgressIsFetchable'
  BY <1>2 DEF Good, ProgressIsFetchable
<1> QED
  BY <1>1, <1>2, <1>4, <1>5, <1>6, <1>7, WorkerKept DEF runner, Good, TypeOK

LEMMA MarkCancelledGood == ASSUME Good, MarkCancelled PROVE Good'
<1>1. "cancelled" \in Status /\ "cancelled" \notin Delivered
  BY DEF Status, Delivered
<1> QED
  BY <1>1, StatusKept DEF MarkCancelled

LEMMA MarkRunningGood == ASSUME Good, MarkRunning PROVE Good'
<1>1. "running" \in Status /\ "running" \notin Delivered
  BY DEF Status, Active, Delivered
<1>2. work.made = {} /\ work.outcome = "completed"
  BY DEF MarkRunning, Good, Working, EarlyPcs
<1> QED
  BY <1>1, <1>2, StatusKept DEF MarkRunning

LEMMA MarkCompletedGood == ASSUME Good, MarkCompleted PROVE Good'
<1>1. work.outcome \in Status /\ work.outcome # "absent"
  BY DEF Good, TypeOK, Work, Status, Delivered
<1>2. work.outcome \in Delivered => Delivers
  BY DEF MarkCompleted, Delivers
<1> QED
  BY <1>1, <1>2, StatusKept DEF MarkCompleted

LEMMA MarkFailedGood == ASSUME Good, MarkFailed PROVE Good'
<1>1. "failed" \in Status /\ "failed" \notin Delivered
  BY DEF Status, Delivered
<1> QED
  BY <1>1, StatusKept DEF MarkFailed

LEMMA EndJobGood == ASSUME Good, EndJob PROVE Good'
<1>1. work.job \in Job
  BY DEF EndJob, Good, Carried
<1>2. /\ work' \in Work /\ work'.pc \in {"idle", "clear_future"}
      /\ work'.pc # "idle" => work'.job \in Job
  <2>1. CASE work' = Rest
    BY <2>1, RestType
  <2>2. CASE work' = [Rest EXCEPT !.pc = "clear_future", !.job = work.job]
    BY <1>1, <2>2, AwakeEffect DEF WorkPc
  <2> QED
    BY <2>1, <2>2 DEF EndJob
<1>3. futures' \in [Job -> FutureState]
  BY DEF EndJob, Good, TypeOK, FutureState
<1>4. Working'
  BY <1>2 DEF Working, Delivers, EarlyPcs, LoopPcs, SavePcs
<1> QED
  BY <1>2, <1>3, <1>4, LocalKept DEF EndJob, Good, TypeOK

LEMMA ClearFutureGood == ASSUME Good, ClearFuture PROVE Good'
<1>1. work' \in Work /\ work'.pc = "idle"
  BY RestType DEF ClearFuture
<1>2. futures' \in [Job -> FutureState]
  BY DEF ClearFuture, Good, TypeOK, FutureState
<1>3. Working'
  BY <1>1 DEF Working, Delivers, EarlyPcs, LoopPcs, SavePcs
<1> QED
  BY <1>1, <1>2, <1>3, LocalKept DEF ClearFuture, Good, TypeOK

-----------------------------------------------------------------------------
\* The invariant.

LEMMA GoodInit == Init => Good
<1> SUFFICES ASSUME Init PROVE Good
  OBVIOUS
<1>1. NoRow \in Row /\ NoRow.status = "absent" /\ NoRow.completed = 0 /\ ~NoRow.cancel
  BY BoundsAssumption DEF NoRow, Row, Status
<1>2. work.pc = "idle" /\ work \in Work
  BY RestType DEF Init
<1>3. proc \in [Threads -> Thread] /\ \A a \in Threads : proc[a].pc = "idle"
  BY FreeType DEF Init
<1>4. TypeOK
  BY <1>1, <1>2, <1>3, BoundsAssumption DEF Init, TypeOK, FutureState
<1>5. Carried
  BY <1>1, <1>2, <1>3 DEF Init, Carried, HoldPcs
<1>6. Working
  BY <1>2 DEF Working, Delivers, EarlyPcs, LoopPcs, SavePcs
<1>7. CompletedIsDelivered
  BY <1>1 DEF Init, CompletedIsDelivered, Delivered
<1>8. ProgressIsFetchable
  <2>1. 1..0 = {}
    OBVIOUS
  <2> QED
    BY <1>1, <2>1 DEF Init, ProgressIsFetchable
<1> QED
  BY <1>4, <1>5, <1>6, <1>7, <1>8 DEF Good

LEMMA GoodStep == Good /\ [Next]_vars => Good'
<1> SUFFICES ASSUME Good, [Next]_vars PROVE Good'
  OBVIOUS
<1>1. ASSUME NEW c \in Clients, Request(c) PROVE Good'
  <2>1. c \in Threads
    BY DEF Threads
  <2> QED
    BY <1>1, <2>1, FindActiveGood, ReadStatusGood, CreateJobGood, SaveCancelGood, EnqueueGood,
       AddCallbackGood DEF Request, Answer
<1>2. CASE RunJob
  BY <1>2, TakeJobGood, CheckCancelGood, MarkCancelledGood, MarkRunningGood, PlanGood,
     CancelSeenGood, MakeQuestionGood, AppendResultGood, UpdateProgressGood, SaveSessionGood,
     RecordEventGood, MarkCompletedGood, MarkFailedGood, EndJobGood, ClearFutureGood DEF RunJob
<1>3. CASE Resume
  BY <1>3, ResumeNextGood, ServeRequestsGood, EnqueueGood, AddCallbackGood DEF Resume, Threads
<1>4. CASE UNCHANGED vars
  BY <1>4 DEF vars, tables, runner, Good, TypeOK, Carried, Working, Delivers, CompletedIsDelivered,
              ProgressIsFetchable
<1> QED
  BY <1>1, <1>2, <1>3, <1>4, RequestFaultGood, WorkFaultGood, CrashRestartGood DEF Next

\* The inductive invariant holds in every reachable state.
THEOREM Invariance == Spec => []Good
BY GoodInit, GoodStep, PTL DEF Spec

\* The tables, the futures, the queue, every thread and the worker keep their types
\* (SQLiteQuizJobStore, QuizJobRunner, _enqueue_quiz_generation).
THEOREM TypeCorrect == Spec => []TypeOK
<1>1. Good => TypeOK
  BY DEF Good
<1> QED
  BY <1>1, Invariance, PTL

\* A job that QuizJobRunner._run_job has marked completed or partial can be taken:
\* session file, rows, progress and event agree, whatever was killed, raised, resumed
\* or enqueued twice.
THEOREM CompletedJobsAreDelivered == Spec => []CompletedIsDelivered
<1>1. Good => CompletedIsDelivered
  BY DEF Good
<1> QED
  BY <1>1, Invariance, PTL

\* update_progress never tells a client of a question that get_job does not return.
THEOREM ProgressIsAlwaysFetchable == Spec => []ProgressIsFetchable
<1>1. Good => ProgressIsFetchable
  BY DEF Good
<1> QED
  BY <1>1, Invariance, PTL

-----------------------------------------------------------------------------
\* A cancellation that is on record before the worker takes the job is final.

\* Where the worker may be with a job that will not be delivered.
DoomedPcs == {"idle", "check_cancel", "mark_cancelled", "mark_failed", "return", "clear_future"}

\* The flag is never taken down, and whoever runs the job sees it first.
Doomed(j) ==
    /\ jobs[j].cancel
    /\ jobs[j].status \notin Delivered \cup {"absent"}
    /\ work.job = j => work.pc \in DoomedPcs

\* Requests, resumption and restarts leave the status of an existing job and take back
\* no cancellation.
LEMMA RowOutlivesThreads ==
    ASSUME Good, NEW j \in Job, jobs[j].status # "absent",
           \/ \E c \in Clients : Request(c) \/ RequestFault(c)
           \/ Resume
           \/ CrashRestart
    PROVE  /\ work' \in {work, Rest}
           /\ jobs'[j].status = jobs[j].status
           /\ jobs[j].cancel => jobs'[j].cancel
<1>1. ASSUME NEW c \in Clients, CreateJob(c)
      PROVE  work' = work /\ jobs'[j] = jobs[j]
  <2>1. PICK i \in Unused :
            jobs' = [jobs EXCEPT ![i] = [NoRow EXCEPT !.status = "queued", !.key = proc[c].key]]
    BY <1>1 DEF CreateJob
  <2>2. i # j
    BY DEF Unused
  <2> QED
    BY <1>1, <2>1, <2>2 DEF CreateJob, Good, TypeOK
<1>2. ASSUME NEW c \in Clients, SaveCancel(c)
      PROVE  work' = work /\ jobs'[j].status = jobs[j].status /\ (jobs[j].cancel => jobs'[j].cancel)
  BY <1>2 DEF SaveCancel, Good, TypeOK, Row
<1>3. ASSUME NEW a \in Threads, Enqueue(a) \/ AddCallback(a) PROVE work' = work /\ jobs' = jobs
  BY <1>3 DEF Enqueue, AddCallback, tables
<1>4. ASSUME NEW c \in Clients, (\E k \in Keys : FindActive(c, k)) \/ (\E i \in Job : ReadStatus(c, i))
      PROVE  work' = work /\ jobs' = jobs
  BY <1>4 DEF FindActive, ReadStatus, tables
<1>5. ASSUME NEW c \in Clients, RequestFault(c) PROVE work' = work /\ jobs' = jobs
  BY <1>5 DEF RequestFault, tables
<1>6. ASSUME ResumeNext \/ ServeRequests PROVE work' = work /\ jobs' = jobs
  BY <1>6 DEF ResumeNext, ServeRequests, tables
<1>7. ASSUME CrashRestart PROVE work' = Rest /\ jobs' = jobs
  BY <1>7 DEF CrashRestart, tables
<1> QED
  BY <1>1, <1>2, <1>3, <1>4, <1>5, <1>6, <1>7 DEF Request, Answer, Resume, Threads

\* The worker writes no row but its own job's, and takes up another job only at the start.
LEMMA WorkerStaysWithJob ==
    ASSUME Good, NEW j \in Job, work.job # j, RunJob \/ WorkFault
    PROVE  /\ jobs'[j] = jobs[j]
           /\ work'.job = j => work'.pc = "check_cancel"
<1>1. work \in Work /\ jobs \in [Job -> Row]
  BY DEF Good, TypeOK
<1>2. \A pc : GoOn(pc) => work'.job = work.job
  BY <1>1 DEF GoOn, Work
<1>3. \A s : SetStatus(s) => jobs'[j] = jobs[j]
  BY <1>1 DEF SetStatus
<1>4. work' = Rest => work'.job # j
  BY RestType DEF Job
<1>5. TakeJob => jobs'[j] = jobs[j] /\ work'.pc = "check_cancel"
  <2> SUFFICES ASSUME TakeJob PROVE jobs'[j] = jobs[j] /\ work'.pc = "check_cancel"
    OBVIOUS
  <2>1. Head(queue) \in Job
    BY DEF TakeJob, Good, TypeOK
  <2> QED
    BY <2>1, AwakeEffect DEF TakeJob, tables, WorkPc, TryPcs
<1>6. ASSUME CheckCancel \/ Plan \/ CancelSeen \/ MakeQuestion \/ WorkFault
      PROVE  jobs'[j] = jobs[j] /\ work'.job = work.job
  BY <1>1, <1>2, <1>6 DEF CheckCancel, Plan, CancelSeen, MakeQuestion, WorkFault, tables, Work
<1>7. ASSUME AppendResult \/ SaveSession \/ RecordEvent
      PROVE  jobs'[j] = jobs[j] /\ work'.job = work.job
  BY <1>1, <1>2, <1>7 DEF AppendResult, SaveSession, RecordEvent
<1>8. ASSUME MarkCancelled \/ MarkRunning \/ MarkCompleted \/ MarkFailed
      PROVE  jobs'[j] = jobs[j] /\ work'.job = work.job
  BY <1>2, <1>3, <1>8 DEF MarkCancelled, MarkRunning, MarkCompleted, MarkFailed
<1>9. ASSUME UpdateProgress PROVE jobs'[j] = jobs[j] /\ work'.job = work.job
  BY <1>1, <1>9 DEF UpdateProgress, NextQuestion, Work
<1>10. ASSUME EndJob PROVE jobs'[j] = jobs[j] /\ work'.job # j
  <2>1. work' = [Rest EXCEPT !.pc = "clear_future", !.job = work.job] => work'.job = work.job
    BY RestType DEF Work
  <2> QED
    BY <1>4, <1>10, <2>1 DEF EndJob, tables
<1>11. ASSUME ClearFuture PROVE jobs'[j] = jobs[j] /\ work'.job # j
  BY <1>4, <1>11 DEF ClearFuture, tables
<1> QED
  BY <1>5, <1>6, <1>7, <1>8, <1>9, <1>10, <1>11 DEF RunJob

LEMMA DoomedStep ==
    ASSUME NEW j \in Job
    PROVE  Good /\ Doomed(j) /\ [Next]_vars => Doomed(j)'
<1> SUFFICES ASSUME Good, Doomed(j), [Next]_vars PROVE Doomed(j)'
  OBVIOUS
<1>1. CASE \/ \E c \in Clients : Request(c) \/ RequestFault(c)
           \/ Resume
           \/ CrashRestart
  <2>1. /\ work' \in {work, Rest}
        /\ jobs'[j].status = jobs[j].status
        /\ jobs'[j].cancel
    BY <1>1, RowOutlivesThreads DEF Doomed
  <2> QED
    BY <2>1, RestType DEF Doomed, Job
<1>2. CASE work.job # j /\ (RunJob \/ WorkFault)
  BY <1>2, WorkerStaysWithJob DEF Doomed, DoomedPcs
<1>3. CASE work.job = j /\ (RunJob \/ WorkFault)
  <2>1. work.pc \in DoomedPcs /\ work \in Work /\ jobs[j].cancel /\ jobs \in [Job -> Row]
    BY <1>3 DEF Doomed, Good, TypeOK
  <2>2. \/ TakeJob \/ CheckCancel \/ MarkCancelled \/ MarkFailed \/ EndJob \/ ClearFuture
        \/ WorkFault
    BY <1>3, <2>1 DEF RunJob, DoomedPcs, MarkRunning, Plan, CancelSeen, MakeQuestion,
                      AppendResult, UpdateProgress, SaveSession, RecordEvent, MarkCompleted
  <2>3. CASE TakeJob
    <3>1. Head(queue) \in Job
      BY <2>3 DEF TakeJob, Good, TypeOK
    <3>2. work'.pc = "check_cancel"
      BY <2>3, <3>1, AwakeEffect DEF TakeJob, WorkPc, TryPcs
    <3> QED
      BY <2>3, <3>2 DEF TakeJob, tables, Doomed, DoomedPcs
  <2>4. CASE CheckCancel
    <3>1. GoOn("mark_cancelled") /\ jobs' = jobs
      BY <1>3, <2>1, <2>4 DEF CheckCancel, tables
    <3>2. work'.pc = "mark_cancelled"
      BY <2>1, <3>1 DEF GoOn, Work
    <3> QED
      BY <3>1, <3>2 DEF Doomed, DoomedPcs
  <2>5. CASE MarkCancelled \/ MarkFailed
    <3>1. PICK s \in {"cancelled", "failed"} : SetStatus(s) /\ GoOn("return")
      BY <2>5 DEF MarkCancelled, MarkFailed
    <3>2. jobs'[j].status = s /\ jobs'[j].cancel = jobs[j].cancel
      BY <1>3, <2>1, <3>1 DEF SetStatus, Row
    <3>3. work'.pc = "return"
      BY <2>1, <3>1 DEF GoOn, Work
    <3> QED
      BY <3>2, <3>3 DEF Doomed, DoomedPcs, Delivered
  <2>6. CASE EndJob \/ ClearFuture
    <3>1. work'.pc \in {"idle", "clear_future"} /\ jobs' = jobs
      BY <1>3, <2>6, RestType, AwakeEffect DEF EndJob, ClearFuture, tables, WorkPc
    <3> QED
      BY <3>1 DEF Doomed, DoomedPcs
  <2>7. CASE WorkFault
    <3>1. \E pc \in {"mark_failed", "return"} : GoOn(pc)
      BY <2>7 DEF WorkFault
    <3>2. work'.pc \in {"mark_failed", "return"} /\ jobs' = jobs
      BY <2>1, <2>7, <3>1 DEF GoOn, Work, WorkFault, tables
    <3> QED
      BY <3>2 DEF Doomed, DoomedPcs
  <2> QED
    BY <2>2, <2>3, <2>4, <2>5, <2>6, <2>7
<1>4. CASE UNCHANGED vars
  BY <1>4 DEF vars, tables, Doomed
<1> QED
  BY <1>1, <1>2, <1>3, <1>4 DEF Next

\* A job whose cancellation request_cancel recorded before _run_job took it is never
\* delivered, however often it is resumed or enqueued again.
THEOREM EarlyCancellationIsFinal == Spec => CancelPreventsDelivery
<1>1. ASSUME NEW j \in Job
      PROVE  Spec => []((jobs[j].cancel /\ work.job # j /\ Undelivered(j)) => []Undelivered(j))
  <2>1. Good /\ (jobs[j].cancel /\ work.job # j /\ Undelivered(j)) => Doomed(j)
    BY DEF Good, Carried, Undelivered, Doomed
  <2>2. Good /\ Doomed(j) /\ [Next]_vars => Doomed(j)'
    BY DoomedStep
  <2>3. Doomed(j) => Undelivered(j)
    BY DEF Doomed, Undelivered
  <2> QED
    BY <2>1, <2>2, <2>3, Invariance, PTL DEF Spec
<1> QED
  BY <1>1 DEF CancelPreventsDelivery

-----------------------------------------------------------------------------
\* No active job is forgotten, as long as no call of the worker raises.

Waiting(j) == \E i \in 1..Len(queue) : queue[i] = j

\* Somebody is about to enqueue the job.
Held(j) ==
    \/ \E a \in Threads : proc[a].pc = "enqueue" /\ proc[a].job = j
    \/ j \in todo

\* What _futures says is so: a pending job waits, a running one is the worker's.
Known ==
    /\ \A j \in Job : jobs[j].status \in Active => Waiting(j) \/ Underway(j) \/ Held(j)
    /\ \A j \in Job : futures[j] = "pending" => Waiting(j)
    /\ \A j \in Job : futures[j] = "running" =>
           work.job = j /\ work.pc \notin {"idle", "clear_future"}
    /\ work.pc = "return" => jobs[work.job].status \notin Active \cup {"absent"}
    /\ work.pc = "idle" => work.job = 0

\* A step of a thread that does not touch the runner.
LEMMA KnownOutside ==
    ASSUME Good, Known, UNCHANGED <<futures, queue, work>>,
           \A j \in Job : jobs[j].status # "absent" => jobs'[j].status = jobs[j].status,
           \A j \in Job : Held(j) => Held(j)',
           \A j \in Job : jobs'[j].status \in Active => jobs[j].status \in Active \/ Held(j)'
    PROVE  Known'
<1>1. \A j \in Job : Waiting(j)' = Waiting(j) /\ Underway(j)' = Underway(j)
  BY DEF Waiting, Underway
<1>2. work.pc = "return" => work.job \in Job
  BY DEF Good, Carried
<1> QED
  BY <1>1, <1>2 DEF Known

\* A thread's step keeps what the others hold, and what it holds itself unless it enqueues.
LEMMA HeldKept ==
    ASSUME NEW a \in Threads, proc[a].pc # "enqueue" \/ proc'[a] = proc[a],
           \A b \in Threads \ {a} : proc'[b] = proc[b], todo \subseteq todo',
           NEW j \in Job, Held(j)
    PROVE  Held(j)'
BY DEF Held

LEMMA EnqueueKnown == ASSUME Good, Known, NEW a \in Threads, Enqueue(a) PROVE Known'
<1>0. proc[a].job \in Job
  BY DEF Enqueue, Good, Carried, HoldPcs
<1> SUFFICES ASSUME NEW j \in Job, proc[a].job = j PROVE Known'
  BY <1>0
<1>1. j \in Job /\ UNCHANGED <<jobs, todo, work>>
  BY DEF Enqueue, tables
<1>2. \A i \in Job \ {j} : Held(i) => Held(i)'
  <2>1. \A b \in Threads \ {a} : proc'[b] = proc[b]
    BY DEF Enqueue, Return, Good, TypeOK
  <2> QED
    BY <1>1, <2>1 DEF Held
<1>3. \A i \in Job : Underway(i)' = Underway(i)
  BY <1>1 DEF Underway
<1>4. CASE futures[j] \in {"pending", "running"} /\ UNCHANGED runner
  <2>1. \A i \in Job : Waiting(i)' = Waiting(i)
    BY <1>4 DEF Waiting, runner
  <2>2. jobs[j].status \in Active => Waiting(j) \/ Underway(j)
    <3>1. CASE futures[j] = "pending"
      BY <1>1, <3>1 DEF Known
    <3>2. CASE futures[j] = "running"
      BY <1>1, <3>2 DEF Known, Underway
    <3> QED
      BY <1>4, <3>1, <3>2
  <2> QED
    BY <1>1, <1>2, <1>3, <1>4, <2>1, <2>2 DEF Known, runner
<1>5. CASE futures' = [futures EXCEPT ![j] = "pending"] /\ queue' = Append(queue, j)
  <2>1. Waiting(j)' /\ \A i \in Job : Waiting(i) => Waiting(i)'
    <3>1. /\ Len(queue) \in Nat /\ Len(queue') = Len(queue) + 1
          /\ queue'[Len(queue) + 1] = j
          /\ \A n \in 1..Len(queue) : queue'[n] = queue[n]
      BY <1>1, <1>5 DEF Good, TypeOK
    <3> QED
      BY <3>1 DEF Waiting
  <2>2. \A i \in Job : futures'[i] = IF i = j THEN "pending" ELSE futures[i]
    BY <1>1, <1>5 DEF Good, TypeOK
  <2>3. \A i \in Job : jobs'[i].status \in Active => Waiting(i)' \/ Underway(i)' \/ Held(i)'
    BY <1>1, <1>2, <1>3, <2>1 DEF Known
  <2>4. \A i \in Job : /\ futures'[i] = "pending" => Waiting(i)'
                       /\ futures'[i] = "running" => work.job = i /\ work.pc \notin {"idle", "clear_future"}
    BY <2>1, <2>2 DEF Known
  <2> QED
    BY <1>1, <2>3, <2>4 DEF Known
<1> QED
  BY <1>4, <1>5 DEF Enqueue

LEMMA RequestKnown == ASSUME Good, Known, NEW c \in Clients, Request(c) PROVE Known'
<1>1. c \in Threads /\ proc \in [Threads -> Thread]
  BY DEF Threads, Good, TypeOK
<1>2. \A j \in Job : jobs[j].status # "absent" => jobs'[j].status = jobs[j].status
  BY RowOutlivesThreads
<1>3. CASE (\E k \in Keys : FindActive(c, k)) \/ (\E j \in Job : ReadStatus(c, j)) \/ SaveCancel(c)
  <2>1. /\ proc[c].pc # "enqueue" /\ UNCHANGED <<futures, queue, work, todo>>
        /\ \A b \in Threads \ {c} : proc'[b] = proc[b]
    BY <1>1, <1>3 DEF FindActive, ReadStatus, SaveCancel, MayAsk, Return, runner
  <2>2. \A j \in Job : jobs'[j].status = jobs[j].status
    <3>1. SaveCancel(c) => \A j \in Job : jobs'[j].status = jobs[j].status
      BY DEF SaveCancel, Good, TypeOK, Row
    <3>2. (\E k \in Keys : FindActive(c, k)) \/ (\E j \in Job : ReadStatus(c, j)) => jobs' = jobs
      BY DEF FindActive, ReadStatus, tables
    <3> QED
      BY <1>3, <3>1, <3>2
  <2> QED
    BY <1>1, <1>2, <2>1, <2>2, HeldKept, KnownOutside
<1>4. CASE CreateJob(c)
  <2>1. PICK j \in Unused :
            /\ jobs' = [jobs EXCEPT ![j] = [NoRow EXCEPT !.status = "queued", !.key = proc[c].key]]
            /\ proc' = [proc EXCEPT ![c].pc = "enqueue", ![c].job = j]
    BY <1>4 DEF CreateJob
  <2>2. j \in Job /\ "enqueue" \in ThreadPc
    BY DEF Unused, ThreadPc
  <2>3. /\ proc'[c].pc = "enqueue" /\ proc'[c].job = j
        /\ \A b \in Threads \ {c} : proc'[b] = proc[b]
    BY <1>1, <2>1, <2>2, JobEffect
  <2>4. Held(j)'
    BY <1>1, <2>3 DEF Held
  <2>5. \A i \in Job : i # j => jobs'[i] = jobs[i]
    BY <2>1 DEF Good, TypeOK
  <2>6. proc[c].pc # "enqueue" /\ UNCHANGED <<futures, queue, work, todo>>
    BY <1>4 DEF CreateJob, runner
  <2> QED
    BY <1>1, <1>2, <2>3, <2>4, <2>5, <2>6, HeldKept, KnownOutside
<1>5. CASE AddCallback(c)
  <2>1. /\ proc[c].pc # "enqueue" /\ UNCHANGED <<jobs, futures, queue, work, todo>>
        /\ \A b \in Threads \ {c} : proc'[b] = proc[b]
    BY <1>1, <1>5 DEF AddCallback, Return, tables
  <2> QED
    BY <1>1, <1>2, <2>1, HeldKept, KnownOutside
<1> QED
  BY <1>1, <1>3, <1>4, <1>5, EnqueueKnown DEF Request, Answer

LEMMA ResumeKnown == ASSUME Good, Known, Resume PROVE Known'
<1>1. Starter \in Threads /\ proc \in [Threads -> Thread]
  BY DEF Threads, Good, TypeOK
<1>2. CASE ResumeNext
  <2>1. PICK j \in todo : /\ proc' = [proc EXCEPT ![Starter].pc = "enqueue", ![Starter].job = j]
                          /\ todo' = todo \ {j}
    BY <1>2 DEF ResumeNext
  <2>2. j \in Job /\ "enqueue" \in ThreadPc
    BY DEF Good, TypeOK, ThreadPc
  <2>3. /\ proc'[Starter].pc = "enqueue" /\ proc'[Starter].job = j
        /\ \A b \in Threads \ {Starter} : proc'[b] = proc[b]
    BY <1>1, <2>1, <2>2, JobEffect
  <2>4. proc[Starter].pc # "enqueue" /\ UNCHANGED <<jobs, futures, queue, work>>
    BY <1>2 DEF ResumeNext, tables, runner
  <2>5. \A i \in Job : Held(i) => Held(i)'
    BY <1>1, <2>1, <2>3, <2>4 DEF Held
  <2> QED
    BY <2>4, <2>5, KnownOutside
<1>3. CASE ServeRequests \/ AddCallback(Starter)
  <2>1. /\ proc[Starter].pc # "enqueue" /\ UNCHANGED <<jobs, futures, queue, work, todo>>
        /\ \A b \in Threads \ {Starter} : proc'[b] = proc[b]
    BY <1>1, <1>3 DEF ServeRequests, AddCallback, Return, tables, runner
  <2> QED
    BY <1>1, <2>1, HeldKept, KnownOutside
<1> QED
  BY <1>1, <1>2, <1>3, EnqueueKnown DEF Resume

\* A step in the middle of _run_job.
LEMMA KnownInside ==
    ASSUME Good, Known, UNCHANGED <<futures, queue, proc, todo>>,
           work.pc \notin {"idle", "return", "clear_future"},
           work'.job = work.job, work'.pc \notin {"idle", "clear_future"},
           \A i \in Job \ {work.job} : jobs'[i].status = jobs[i].status,
           work'.pc = "return" => jobs'[work.job].status \notin Active \cup {"absent"}
    PROVE  Known'
<1>1. \A i \in Job : Waiting(i)' = Waiting(i) /\ Held(i)' = Held(i)
  BY DEF Waiting, Held
<1>2. \A i \in Job : jobs'[i].status \in Active => Waiting(i)' \/ Underway(i)' \/ Held(i)'
  <2> SUFFICES ASSUME NEW i \in Job, jobs'[i].status \in Active
               PROVE  Waiting(i)' \/ Underway(i)' \/ Held(i)'
    OBVIOUS
  <2>1. CASE i = work.job
    BY <2>1 DEF Underway
  <2>2. CASE i # work.job
    <3>1. jobs[i].status \in Active /\ ~Underway(i)
      BY <2>2 DEF Underway
    <3> QED
      BY <1>1, <3>1 DEF Known
  <2> QED
    BY <2>1, <2>2
<1> QED
  BY <1>1, <1>2 DEF Known

LEMMA TakeJobKnown == ASSUME Good, Known, TakeJob PROVE Known'
<1>1. Head(queue) \in Job
  BY DEF TakeJob, Good, TypeOK
<1> SUFFICES ASSUME NEW j \in Job, Head(queue) = j PROVE Known'
  BY <1>1
<1>2. work'.pc = "check_cancel" /\ work'.job = j
  BY AwakeEffect DEF TakeJob, WorkPc, TryPcs
<1>3. /\ Len(queue) \in Nat /\ Len(queue') = Len(queue) - 1
      /\ queue[1] = j
      /\ \A n \in 2..Len(queue) : queue'[n - 1] = queue[n]
  BY DEF TakeJob, Good, TypeOK
<1>4. \A n \in 2..Len(queue) : n - 1 \in 1..Len(queue')
  BY <1>3
<1>5. \A i \in Job : (\E n \in 2..Len(queue) : queue[n] = i) => Waiting(i)'
  BY <1>3, <1>4 DEF Waiting
<1>6. \A i \in Job \ {j} : Waiting(i) => Waiting(i)'
  <2>1. \A i \in Job \ {j} : Waiting(i) => \E n \in 2..Len(queue) : queue[n] = i
    BY <1>3 DEF Waiting
  <2> QED
    BY <1>5, <2>1
<1>7. \A i \in Job : Held(i)' = Held(i) /\ jobs'[i] = jobs[i] /\ ~Underway(i)
  BY DEF TakeJob, tables, Held, Known, Underway, Job
<1>8. \A i \in Job : jobs'[i].status \in Active => Waiting(i)' \/ Underway(i)' \/ Held(i)'
  BY <1>2, <1>6, <1>7 DEF Known, Underway
<1>9. \A i \in Job : futures[i] # "running"
  BY DEF TakeJob, Known
<1>10. \A i \in Job \ {j} : futures'[i] = futures[i]
  BY DEF TakeJob, Good, TypeOK
<1>11. futures'[j] = "pending" => Waiting(j)'
  BY <1>5 DEF TakeJob, Good, TypeOK
<1>12. \A i \in Job : /\ futures'[i] = "pending" => Waiting(i)'
                      /\ futures'[i] = "running" => i = j
  BY <1>6, <1>9, <1>10, <1>11 DEF Known
<1> QED
  BY <1>2, <1>8, <1>12 DEF Known

LEMMA MiddleKnown ==
    ASSUME Good, Known,
           \/ CheckCancel \/ MarkCancelled \/ MarkRunning \/ Plan
           \/ CancelSeen \/ MakeQuestion \/ AppendResult \/ UpdateProgress
           \/ SaveSession \/ RecordEvent \/ MarkCompleted \/ MarkFailed
    PROVE  Known'
<1>1. /\ work \in Work /\ jobs \in [Job -> Row] /\ work.job \in Job
      /\ work.pc \notin {"idle", "return", "clear_future"}
      /\ UNCHANGED <<futures, queue, proc, todo>>
  <2>1. UNCHANGED <<futures, queue, proc, todo>>
    BY DEF CheckCancel, MarkCancelled, MarkRunning, Plan, CancelSeen, MakeQuestion, AppendResult,
           UpdateProgress, SaveSession, RecordEvent, MarkCompleted, MarkFailed, runner
  <2>2. work.pc \notin {"idle", "return", "clear_future"}
    BY DEF CheckCancel, MarkCancelled, MarkRunning, Plan, CancelSeen, MakeQuestion, AppendResult,
           UpdateProgress, SaveSession, RecordEvent, MarkCompleted, MarkFailed
  <2> QED
    BY <2>1, <2>2 DEF Good, TypeOK, Carried
<1>2. \A pc : GoOn(pc) => work'.job = work.job /\ work'.pc = pc
  BY <1>1 DEF GoOn, Work
<1>3. \A s : SetStatus(s) => /\ jobs'[work.job].status = s
                             /\ \A i \in Job \ {work.job} : jobs'[i] = jobs[i]
  BY <1>1 DEF SetStatus, Row
<1>4. CASE CheckCancel \/ Plan \/ CancelSeen \/ MakeQuestion
  <2>1. work'.job = work.job /\ work'.pc \notin {"idle", "clear_future", "return"}
    <3>1. CASE \E pc \in WorkPc \ {"idle", "clear_future", "return"} : GoOn(pc)
      BY <1>2, <3>1
    <3>2. CASE CancelSeen
      BY <1>1, <3>2 DEF CancelSeen, Work
    <3>3. CASE work' = [work EXCEPT !.pc = "question", !.index = 1]
      BY <1>1, <3>3 DEF Work
    <3>4. CASE \E late \in BOOLEAN, t \in 1..MaxTry :
                   work' = [work EXCEPT !.pc = "append_result",
                                        !.outcome = IF late THEN "partial" ELSE @,
                                        !.made = @ \cup {<<work.index, t>>}]
      BY <1>1, <3>4 DEF Work
    <3> QED
      BY <1>4, <3>1, <3>2, <3>3, <3>4
      DEF CheckCancel, Plan, MakeQuestion, WorkPc, TryPcs, LatePcs
  <2>2. jobs' = jobs
    BY <1>4 DEF CheckCancel, Plan, CancelSeen, MakeQuestion, tables
  <2> QED
    BY <1>1, <2>1, <2>2, KnownInside
<1>5. CASE AppendResult \/ SaveSession \/ RecordEvent
  <2>1. jobs' = jobs /\ work'.job = work.job /\ work'.pc \notin {"idle", "clear_future", "return"}
    BY <1>2, <1>5 DEF AppendResult, SaveSession, RecordEvent
  <2> QED
    BY <1>1, <2>1, KnownInside
<1>6. CASE UpdateProgress
  <2>1. work'.job = work.job /\ work'.pc \in {"question", "save_session"}
    BY <1>1, <1>6 DEF UpdateProgress, NextQuestion, Work
  <2>2. \A i \in Job \ {work.job} : jobs'[i] = jobs[i]
    BY <1>1, <1>6 DEF UpdateProgress
  <2> QED
    BY <1>1, <2>1, <2>2, KnownInside
<1>7. CASE MarkRunning
  <2>1. SetStatus("running") /\ GoOn("plan")
    BY <1>7 DEF MarkRunning
  <2> QED
    BY <1>1, <1>2, <1>3, <2>1, KnownInside
<1>8. CASE MarkCancelled \/ MarkCompleted \/ MarkFailed
  <2>1. PICK s \in {"cancelled", "failed"} \cup Delivered : SetStatus(s) /\ GoOn("return")
    BY <1>1, <1>8 DEF MarkCancelled, MarkCompleted, MarkFailed, Work
  <2>2. s \notin Active \cup {"absent"}
    BY DEF Active, Delivered
  <2> QED
    BY <1>1, <1>2, <1>3, <2>1, <2>2, KnownInside
<1> QED
  BY <1>4, <1>5, <1>6, <1>7, <1>8

LEMMA EndJobKnown == ASSUME Good, Known, EndJob PROVE Known'
<1>1. work.job \in Job /\ jobs[work.job].status \notin Active
  BY DEF EndJob, Good, Carried, Known
<1>2. /\ work'.pc \in {"idle", "clear_future"}
      /\ work'.pc = "idle" => work'.job = 0
  BY <1>1, RestType, AwakeEffect DEF EndJob, WorkPc
<1>3. \A i \in Job : Waiting(i)' = Waiting(i) /\ Held(i)' = Held(i) /\ jobs'[i] = jobs[i]
  BY DEF EndJob, Waiting, Held, tables
<1>4. \A i \in Job : jobs[i].status \in Active => ~Underway(i)
  BY <1>1 DEF Underway
<1>5. \A i \in Job : futures'[i] # "running" /\ (futures'[i] = "pending" => futures[i] = "pending")
  BY <1>1 DEF EndJob, Known, Good, TypeOK
<1> QED
  BY <1>2, <1>3, <1>4, <1>5 DEF Known

LEMMA ClearFutureKnown == ASSUME Good, Known, ClearFuture PROVE Known'
<1>1. work'.pc = "idle" /\ work'.job = 0
  BY RestType DEF ClearFuture
<1>2. \A i \in Job : /\ Waiting(i)' = Waiting(i) /\ Held(i)' = Held(i) /\ jobs'[i] = jobs[i]
                     /\ ~Underway(i)
  BY DEF ClearFuture, Waiting, Held, Underway, tables
<1>3. \A i \in Job : futures'[i] \in {"none", futures[i]} /\ futures[i] # "running"
  BY DEF ClearFuture, Known, Good, TypeOK
<1> QED
  BY <1>1, <1>2, <1>3 DEF Known

LEMMA CrashRestartKnown == ASSUME Good, CrashRestart PROVE Known'
<1>1. work'.pc = "idle" /\ work'.job = 0 /\ \A i \in Job : futures'[i] = "none"
  BY RestType DEF CrashRestart
<1>2. \A i \in Job : jobs'[i].status \in Active => Held(i)'
  BY DEF CrashRestart, IncompleteJobs, Held, tables
<1> QED
  BY <1>1, <1>2 DEF Known

\* The step, when no call raises.
LEMMA KnownStep ==
    ASSUME "fault" \notin Mishaps
    PROVE  Good /\ Known /\ [Next]_vars => Known'
<1> SUFFICES ASSUME Good, Known, [Next]_vars PROVE Known'
  OBVIOUS
<1>1. ~WorkFault /\ \A c \in Clients : ~RequestFault(c)
  BY DEF WorkFault, RequestFault, Mishap
<1>2. CASE RunJob
  BY <1>2, TakeJobKnown, MiddleKnown, EndJobKnown, ClearFutureKnown DEF RunJob
<1>3. CASE UNCHANGED vars
  BY <1>3 DEF vars, tables, runner, Known, Waiting, Underway, Held
<1> QED
  BY <1>1, <1>2, <1>3, RequestKnown, ResumeKnown, CrashRestartKnown DEF Next

LEMMA KnownInit == Init => Known
<1> SUFFICES ASSUME Init PROVE Known
  OBVIOUS
<1>1. \A j \in Job : jobs[j].status \notin Active /\ futures[j] = "none"
  BY DEF Init, NoRow, Active
<1>2. work.pc = "idle" /\ work.job = 0
  BY RestType DEF Init
<1> QED
  BY <1>1, <1>2 DEF Known

\* Unless a call of the worker raises, every active job is queued, run, about to be
\* enqueued or listed to be resumed, although _clear_future may remove another run's
\* future and enqueue trusts what it finds.
THEOREM NoJobIsForgotten == "fault" \notin Mishaps => (Spec => []NoJobForgotten)
<1> SUFFICES ASSUME "fault" \notin Mishaps PROVE Spec => []NoJobForgotten
  OBVIOUS
<1>1. Good /\ Known /\ [Next]_vars => Known'
  BY KnownStep
<1>2. Known => NoJobForgotten
  BY DEF Known, NoJobForgotten, Waiting, Held
<1> QED
  BY <1>1, <1>2, KnownInit, Invariance, PTL DEF Spec
=============================================================================
