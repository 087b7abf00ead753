------------------------------ MODULE QuizJobs ------------------------------
(***************************************************************************)
(* Quiz generation jobs: the request threads that submit and cancel them   *)
(* (api/routes/quiz.py), the single worker thread of QuizJobRunner         *)
(* (services/quiz_job_runner.py) that runs them question by question, the  *)
(* start of the server, which resumes them, and SQLiteQuizJobStore.        *)
(*                                                                         *)
(* Every store call is a step of its own.  The runner's lock is a plain    *)
(* threading.Lock: it is a variable naming its owner, and whoever asks for *)
(* it waits until nobody owns it.  Questions come from a language model,   *)
(* so which of its tries a question is delivered by is a choice.           *)
(***************************************************************************)
EXTENDS Naturals, Sequences, FiniteSets

CONSTANTS
    Clients,        \* API request threads
    Starter,        \* the main thread, which resumes jobs when the server starts
    NoOne,          \* nobody owns the lock
    Keys,           \* dedupe keys of the requests clients make
    Cache,          \* settings.enable_quiz_cache: look for an active job first
    Asked,          \* the request's question_count
    MaxTry,         \* bound: tries a question is delivered by (four in the code)
    Failures,       \* what may fail for good: "plan", "question"
    CallbackFirst,  \* scheduling: a job never ends before the thread that
                    \* submitted it has registered the future's callback
    MaxJob,         \* bound: jobs created
    Mishaps,        \* "crash" (the server is killed), "fault" (a call raises)
    MaxMishap       \* bound: mishaps

ASSUME ActorsAssumption ==
    /\ Starter \notin Clients
    /\ NoOne \notin Clients \cup {Starter}

ASSUME BoundsAssumption ==
    /\ Asked \in Nat \ {0}
    /\ MaxTry \in Nat \ {0}
    /\ MaxJob \in Nat
    /\ MaxMishap \in Nat

ASSUME ChoicesAssumption ==
    /\ Cache \in BOOLEAN
    /\ CallbackFirst \in BOOLEAN
    /\ Failures \subseteq {"plan", "question"}
    /\ Mishaps \subseteq {"crash", "fault"}

VARIABLES
    jobs,       \* rows of quiz_generation_jobs
    results,    \* rows of quiz_generation_results: the questions of each job
    session,    \* file _quiz/sessions/<job>.json: its questions, {} if none
    events,     \* jobs with a QUIZ_GENERATED event
    futures,    \* QuizJobRunner._futures, by job
    queue,      \* the executor's work queue
    lock,       \* owner of QuizJobRunner._lock
    proc,       \* what each request thread and the main thread are doing
    todo,       \* jobs the main thread has still to resume
    work,       \* what the worker is doing
    mishaps     \* how many mishaps there have been

tables == <<jobs, results, session, events>>
runner == <<futures, queue, lock>>
vars == <<tables, runner, proc, todo, work, mishaps>>

Threads == Clients \cup {Starter}
Job == 1..MaxJob

Active == {"queued", "running"}
Delivered == {"completed", "partial"}
Status == {"absent", "failed", "cancelled"} \cup Active \cup Delivered
FutureState == {"none", "pending", "running", "done"}

\* question_id is <job>-q<n> with n = ordinal + try * Asked: one for each pair.
Question == (1..Asked) \X (1..MaxTry)
Ordinals(qs) == {q[1] : q \in qs}

ThreadPc == {"idle", "resume", "create", "enqueue", "add_callback", "clear_future",
             "save_cancel"}
\* Calls whose exceptions _run_job catches, and those it does not.
TryPcs == {"check_cancel", "mark_cancelled", "mark_running", "plan",
           "question", "append_result", "update_progress"}
LatePcs == {"save_session", "record_event", "mark_completed", "mark_failed"}
WorkPc == {"idle", "return", "clear_future"} \cup TryPcs \cup LatePcs

Row == [status : Status, key : Keys \cup {NoOne}, cancel : BOOLEAN, completed : 0..Asked]
NoRow == [status |-> "absent", key |-> NoOne, cancel |-> FALSE, completed |-> 0]
Thread == [pc : ThreadPc, job : Job \cup {0}, key : Keys \cup {NoOne}]
Free == [pc |-> "idle", job |-> 0, key |-> NoOne]
Work == [pc : WorkPc, job : Job \cup {0}, index : 0..Asked,
         outcome : Delivered \cup {"cancelled"}, made : SUBSET Question]
Rest == [pc |-> "idle", job |-> 0, index |-> 0, outcome |-> "completed", made |-> {}]

Init ==
    /\ jobs = [j \in Job |-> NoRow]
    /\ results = [j \in Job |-> {}]
    /\ session = [j \in Job |-> {}]
    /\ events = {}
    /\ futures = [j \in Job |-> "none"]
    /\ queue = <<>>
    /\ lock = NoOne
    /\ proc = [a \in Threads |-> Free]
    /\ todo = {}
    /\ work = Rest
    /\ mishaps = 0

-----------------------------------------------------------------------------
\* Submitting: find an active job with the key, or create one; then enqueue it.

Unused == {j \in Job : jobs[j].status = "absent"}
Creating == {c \in Clients : proc[c].pc = "create"}
ActiveWith(k) == {j \in Job : jobs[j].key = k /\ jobs[j].status \in Active}

\* Requests are served once the server has resumed its jobs.
MayAsk(c) == proc[c].pc = "idle" /\ proc[Starter].pc = "idle"

\* find_active_job_by_dedupe_key gives the youngest; jobs are numbered by age.
FindActive(c, k) ==
    LET found == IF Cache THEN ActiveWith(k) ELSE {} IN
    /\ MayAsk(c)
    /\ \/ \E j \in found :
              /\ \A i \in found : i <= j
              /\ proc' = [proc EXCEPT ![c] = [pc |-> "enqueue", job |-> j, key |-> k]]
       \/ /\ found = {}
          /\ Cardinality(Creating) < Cardinality(Unused)
          /\ proc' = [proc EXCEPT ![c] = [pc |-> "create", job |-> 0, key |-> k]]
    /\ UNCHANGED <<tables, runner, todo, work, mishaps>>

CreateJob(c) ==
    /\ proc[c].pc = "create"
    /\ \E j \in Unused :
           /\ \A i \in Unused : j <= i
           /\ jobs' = [jobs EXCEPT ![j] = [NoRow EXCEPT !.status = "queued",
                                                        !.key = proc[c].key]]
           /\ proc' = [proc EXCEPT ![c].pc = "enqueue", ![c].job = j]
    /\ UNCHANGED <<results, session, events, runner, todo, work, mishaps>>

\* A request thread is done with its request, the main thread with one job.
Return(a) == proc' = [proc EXCEPT ![a] = [Free EXCEPT
                 !.pc = IF a = Starter THEN "resume" ELSE "idle"]]

\* enqueue takes the lock; nobody sees what happens under it before the future is
\* stored and the work item queued.
Enqueue(a) ==
    LET j == proc[a].job IN
    /\ proc[a].pc = "enqueue"
    /\ lock = NoOne
    /\ \/ futures[j] \in {"pending", "running"} /\ Return(a) /\ UNCHANGED runner
       \/ /\ futures[j] \in {"none", "done"}
          /\ futures' = [futures EXCEPT ![j] = "pending"]
          /\ queue' = Append(queue, j)
          /\ lock' = a
          /\ proc' = [proc EXCEPT ![a].pc = "add_callback"]
    /\ UNCHANGED <<tables, todo, work, mishaps>>

\* Mutant: the lock is not released.
AddCallbackKeepsLock(a) ==
    /\ proc[a].pc = "add_callback"
    /\ Return(a)
    /\ UNCHANGED <<tables, runner, todo, work, mishaps>>

\* add_done_callback calls the callback at once, in this thread and with the lock
\* held, when the future is already done: _clear_future then waits for the lock
\* that its own thread owns, and there is no step from there.
AddCallback(a) ==
    /\ proc[a].pc = "add_callback"
    /\ IF futures[proc[a].job] = "done"
       THEN proc' = [proc EXCEPT ![a].pc = "clear_future"] /\ UNCHANGED lock
       ELSE Return(a) /\ lock' = NoOne
    /\ UNCHANGED <<tables, futures, queue, todo, work, mishaps>>

-----------------------------------------------------------------------------
\* Cancelling: request_cancel reads the status and then sets the flag.

ReadStatus(c, j) ==
    /\ MayAsk(c)
    /\ jobs[j].status \in Active
    /\ proc' = [proc EXCEPT ![c].pc = "save_cancel", ![c].job = j]
    /\ UNCHANGED <<tables, runner, todo, work, mishaps>>

SaveCancel(c) ==
    /\ proc[c].pc = "save_cancel"
    /\ jobs' = [jobs EXCEPT ![proc[c].job].cancel = TRUE]
    /\ Return(c)
    /\ UNCHANGED <<results, session, events, runner, todo, work, mishaps>>

-----------------------------------------------------------------------------
\* The worker: _run_job up to the loop over the questions.

GoOn(pc) == work' = [work EXCEPT !.pc = pc]
SetStatus(status) == jobs' = [jobs EXCEPT ![work.job].status = status]

\* The future is the one _futures names unless a younger one for the same job is
\* queued behind it, or an earlier one's callback has removed it.
TakeJob ==
    LET j == Head(queue)
        younger == \E i \in 2..Len(queue) : queue[i] = j
    IN
    /\ work.pc = "idle"
    /\ queue # <<>>
    /\ queue' = Tail(queue)
    /\ work' = [Rest EXCEPT !.pc = "check_cancel", !.job = j]
    /\ futures' = IF futures[j] = "pending" /\ ~younger
                  THEN [futures EXCEPT ![j] = "running"] ELSE futures
    /\ UNCHANGED <<tables, lock, proc, todo, mishaps>>

CheckCancel ==
    /\ work.pc = "check_cancel"
    /\ GoOn(IF jobs[work.job].cancel THEN "mark_cancelled" ELSE "mark_running")
    /\ UNCHANGED <<tables, runner, proc, todo, mishaps>>

\* Mutant: the request to cancel is taken back once it has been honoured.
MarkCancelledOnce ==
    /\ work.pc = "mark_cancelled"
    /\ jobs' = [jobs EXCEPT ![work.job].status = "cancelled", ![work.job].cancel = FALSE]
    /\ GoOn("return")
    /\ UNCHANGED <<results, session, events, runner, proc, todo, mishaps>>

MarkCancelled ==
    /\ work.pc = "mark_cancelled"
    /\ SetStatus("cancelled")
    /\ GoOn("return")
    /\ UNCHANGED <<results, session, events, runner, proc, todo, mishaps>>

MarkRunning ==
    /\ work.pc = "mark_running"
    /\ SetStatus("running")
    /\ GoOn("plan")
    /\ UNCHANGED <<results, session, events, runner, proc, todo, mishaps>>

\* The plan always has Asked hits: _select_hits repeats them when there are fewer.
Plan ==
    /\ work.pc = "plan"
    /\ \/ work' = [work EXCEPT !.pc = "question", !.index = 1]
       \/ "plan" \in Failures /\ GoOn("mark_failed")
    /\ UNCHANGED <<tables, runner, proc, todo, mishaps>>

-----------------------------------------------------------------------------
\* The loop.  Attempt rows and the error counter, which nothing here reads, are
\* left out.

CancelSeen ==
    /\ work.pc = "question"
    /\ jobs[work.job].cancel
    /\ work' = [work EXCEPT !.pc = "mark_completed", !.outcome = "cancelled"]
    /\ UNCHANGED <<tables, runner, proc, todo, mishaps>>

\* Past the budget the remaining questions are fallbacks and the job is partial.
MakeQuestion ==
    /\ work.pc = "question"
    /\ ~jobs[work.job].cancel
    /\ \/ \E late \in BOOLEAN, t \in 1..MaxTry :
              work' = [work EXCEPT !.pc = "append_result",
                                   !.outcome = IF late THEN "partial" ELSE @,
                                   !.made = @ \cup {<<work.index, t>>}]
       \/ "question" \in Failures /\ GoOn("mark_failed")
    /\ UNCHANGED <<tables, runner, proc, todo, mishaps>>

\* Mutant: a row is inserted only if the job has none for the ordinal yet.
AppendFirstResult ==
    /\ work.pc = "append_result"
    /\ results' = [results EXCEPT ![work.job] = @ \cup
           {q \in work.made : q[1] = work.index /\ q[1] \notin Ordinals(@)}]
    /\ GoOn("update_progress")
    /\ UNCHANGED <<jobs, session, events, runner, proc, todo, mishaps>>

\* INSERT OR REPLACE by question_id.
AppendResult ==
    /\ work.pc = "append_result"
    /\ results' = [results EXCEPT ![work.job] = @ \cup
           {q \in work.made : q[1] = work.index}]
    /\ GoOn("update_progress")
    /\ UNCHANGED <<jobs, session, events, runner, proc, todo, mishaps>>

NextQuestion == work' =
    [work EXCEPT !.pc = IF work.index < Asked THEN "question" ELSE "save_session",
                 !.index = IF work.index < Asked THEN @ + 1 ELSE @]

\* Mutant: the progress counts the question that is about to be made.
UpdateProgressAhead ==
    /\ work.pc = "update_progress"
    /\ jobs' = [jobs EXCEPT ![work.job].completed =
                    IF work.index < Asked THEN work.index + 1 ELSE Asked]
    /\ NextQuestion
    /\ UNCHANGED <<results, session, events, runner, proc, todo, mishaps>>

UpdateProgress ==
    /\ work.pc = "update_progress"
    /\ jobs' = [jobs EXCEPT ![work.job].completed = work.index]
    /\ NextQuestion
    /\ UNCHANGED <<results, session, events, runner, proc, todo, mishaps>>

SaveSession ==
    /\ work.pc = "save_session"
    /\ session' = [session EXCEPT ![work.job] = work.made]
    /\ GoOn("record_event")
    /\ UNCHANGED <<jobs, results, events, runner, proc, todo, mishaps>>

RecordEvent ==
    /\ work.pc = "record_event"
    /\ events' = events \cup {work.job}
    /\ GoOn("mark_completed")
    /\ UNCHANGED <<jobs, results, session, runner, proc, todo, mishaps>>

MarkCompleted ==
    /\ work.pc = "mark_completed"
    /\ SetStatus(work.outcome)
    /\ GoOn("return")
    /\ UNCHANGED <<results, session, events, runner, proc, todo, mishaps>>

MarkFailed ==
    /\ work.pc = "mark_failed"
    /\ SetStatus("failed")
    /\ GoOn("return")
    /\ UNCHANGED <<results, session, events, runner, proc, todo, mishaps>>

-----------------------------------------------------------------------------
\* The future is done, and its callback runs in the worker if it is registered.

Unregistered(j) ==
    futures[j] = "running" /\ \E a \in Threads : proc[a].pc = "add_callback" /\ proc[a].job = j

EndJob ==
    LET j == work.job IN
    /\ work.pc = "return"
    /\ CallbackFirst => ~Unregistered(j)
    /\ work' = IF Unregistered(j) THEN Rest ELSE [Rest EXCEPT !.pc = "clear_future", !.job = j]
    /\ futures' = IF futures[j] = "running" THEN [futures EXCEPT ![j] = "done"] ELSE futures
    /\ UNCHANGED <<tables, queue, lock, proc, todo, mishaps>>

\* _clear_future removes whatever future the job has by now.
ClearFuture ==
    /\ work.pc = "clear_future"
    /\ lock = NoOne
    /\ futures' = [futures EXCEPT ![work.job] = "none"]
    /\ work' = Rest
    /\ UNCHANGED <<tables, queue, lock, proc, todo, mishaps>>

-----------------------------------------------------------------------------
\* Calls that raise; the server killed and started again.

Mishap(kind) ==
    /\ kind \in Mishaps
    /\ mishaps < MaxMishap
    /\ mishaps' = mishaps + 1

RequestFault(c) ==
    /\ Mishap("fault")
    /\ proc[c].pc \in {"create", "save_cancel"}
    /\ Return(c)
    /\ UNCHANGED <<tables, runner, todo, work>>

WorkFault ==
    /\ Mishap("fault")
    /\ \/ work.pc \in TryPcs /\ GoOn("mark_failed")
       \/ work.pc \in LatePcs /\ GoOn("return")
    /\ UNCHANGED <<tables, runner, proc, todo>>

\* Mutant: only the jobs that had not started are resumed.
QueuedJobs == {j \in Job : jobs[j].status = "queued"}

\* list_incomplete_jobs
IncompleteJobs == {j \in Job : jobs[j].status \in Active}

CrashRestart ==
    /\ Mishap("crash")
    /\ futures' = [j \in Job |-> "none"]
    /\ queue' = <<>>
    /\ lock' = NoOne
    /\ proc' = [a \in Threads |-> IF a = Starter THEN [Free EXCEPT !.pc = "resume"] ELSE Free]
    /\ todo' = IncompleteJobs
    /\ work' = Rest
    /\ UNCHANGED tables

ResumeNext ==
    /\ proc[Starter].pc = "resume"
    /\ \E j \in todo :
           /\ \A i \in todo : j <= i
           /\ proc' = [proc EXCEPT ![Starter].pc = "enqueue", ![Starter].job = j]
           /\ todo' = todo \ {j}
    /\ UNCHANGED <<tables, runner, work, mishaps>>

ServeRequests ==
    /\ proc[Starter].pc = "resume"
    /\ todo = {}
    /\ proc' = [proc EXCEPT ![Starter] = Free]
    /\ UNCHANGED <<tables, runner, todo, work, mishaps>>

-----------------------------------------------------------------------------
RunJob ==
    \/ TakeJob \/ CheckCancel \/ MarkCancelled \/ MarkRunning \/ Plan
    \/ CancelSeen \/ MakeQuestion \/ AppendResult \/ UpdateProgress
    \/ SaveSession \/ RecordEvent \/ MarkCompleted \/ MarkFailed
    \/ EndJob \/ ClearFuture

\* The steps that carry a request on once it has begun.
Answer(c) ==
    \/ CreateJob(c) \/ SaveCancel(c)
    \/ Enqueue(c) \/ AddCallback(c)

Request(c) ==
    \/ \E k \in Keys : FindActive(c, k)
    \/ \E j \in Job : ReadStatus(c, j)
    \/ Answer(c)

Resume ==
    \/ ResumeNext \/ ServeRequests
    \/ Enqueue(Starter) \/ AddCallback(Starter)

Next ==
    \/ \E c \in Clients : Request(c) \/ RequestFault(c)
    \/ RunJob
    \/ Resume
    \/ WorkFault
    \/ CrashRestart

Spec == Init /\ [][Next]_vars

\* Threads are scheduled, and one that waits for the lock is not passed over for ever
\* while others take it and give it back.
FairSpec ==
    /\ Spec
    /\ WF_vars(RunJob) /\ SF_vars(ClearFuture)
    /\ WF_vars(Resume)
    /\ \A c \in Clients : WF_vars(Answer(c)) /\ SF_vars(Enqueue(c))

-----------------------------------------------------------------------------
TypeOK ==
    /\ jobs \in [Job -> Row]
    /\ results \in [Job -> SUBSET Question]
    /\ session \in [Job -> SUBSET Question]
    /\ events \subseteq Job
    /\ futures \in [Job -> FutureState]
    /\ queue \in Seq(Job)
    /\ lock \in Threads \cup {NoOne}
    /\ proc \in [Threads -> Thread]
    /\ todo \subseteq Job
    /\ work \in Work
    /\ mishaps \in 0..MaxMishap

-----------------------------------------------------------------------------
\* A job shown as completed or partial can be taken and graded: its session file has
\* one question for each of the progress it shows, each of them among the questions
\* the job shows, and its generation is on record -- also when the job ran before,
\* was killed, or is being run again because a duplicate request enqueued it.
CompletedIsDelivered ==
    \A j \in Job : jobs[j].status \in Delivered =>
        /\ session[j] # {}
        /\ session[j] \subseteq results[j]
        /\ Ordinals(session[j]) = 1..jobs[j].completed
        /\ j \in events

\* Progress never runs ahead of what get_job returns: a client that is told that n
\* questions are completed finds each of the first n.
ProgressIsFetchable ==
    \A j \in Job : 1..jobs[j].completed \subseteq Ordinals(results[j])

Undelivered(j) == jobs[j].status \notin Delivered

\* A cancellation that is on record before the worker takes the job is final: the
\* job is never delivered, whatever is resumed or enqueued again later.
CancelPreventsDelivery ==
    \A j \in Job :
        []((jobs[j].cancel /\ work.job # j /\ Undelivered(j)) => []Undelivered(j))

Underway(j) == work.job = j /\ work.pc \notin {"return", "clear_future"}

\* An active job is never forgotten: it is queued, run, about to be enqueued by
\* some thread or listed to be resumed.  This is what a future that was removed by
\* the callback of an earlier one must not break.
NoJobForgotten ==
    \A j \in Job : jobs[j].status \in Active =>
        \/ \E i \in 1..Len(queue) : queue[i] = j
        \/ Underway(j)
        \/ \E a \in Threads : proc[a].pc = "enqueue" /\ proc[a].job = j
        \/ j \in todo

\* A job that was created reaches a final status.
JobsFinish ==
    \A j \in Job : [](jobs[j].status # "absent" => <>(jobs[j].status \notin Active))

\* Every request is answered.
RequestsAnswered == \A c \in Clients : [](proc[c].pc # "idle" => <>(proc[c].pc = "idle"))

\* Requests for the same quiz share one job while it is active.
OneActiveJob == \A k \in Keys : Cardinality(ActiveWith(k)) <= 1

\* A delivered job shows the quiz that was asked for: one question for each ordinal.
ShowsAskedQuestions ==
    \A j \in Job : jobs[j].status \in Delivered => Cardinality(results[j]) = Asked
=============================================================================
