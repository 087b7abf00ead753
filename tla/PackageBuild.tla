---------------------------- MODULE PackageBuild ----------------------------
(***************************************************************************)
(* The build of one offline study package: API request threads, the single *)
(* package worker thread and command-line exports, all of which drive      *)
(* PackageService (packages/service.py), PackageJobRunner                  *)
(* (packages/jobs.py) and SQLitePackageStore over one database and one     *)
(* artifact directory.                                                     *)
(*                                                                         *)
(* Every call of the store is a connection and a transaction of its own,   *)
(* so every call is a step, and a process carries from step to step only   *)
(* what it read.  save_version is two steps: Python's sqlite3 opens a      *)
(* transaction at the first INSERT, not at the SELECT before it.  The      *)
(* process that serves the API may be killed between any two steps; the    *)
(* database and the directory stay.                                        *)
(***************************************************************************)
EXTENDS Naturals, Sequences, FiniteSets

CONSTANTS
    Clients,        \* API request threads of the server process
    Exports,        \* `study-package export' processes, each run at most once
    Worker,         \* the one thread of PackageJobRunner.executor
    Requests,       \* what clients ask for: "submit", "validate", "cancel"
    Sources,        \* what reading the course's sources may give
    NoOne,          \* no process has written the artifact (or the file rows)
    MaxVersion,     \* bound: versions of the package
    MaxJob,         \* bound: jobs submitted
    Mishaps,        \* what may go wrong: "crash" (a process is killed), "fault"
                    \* (a call raises: database locked, disk full)
    MaxMishap       \* bound: mishaps

ASSUME ActorsAssumption ==
    /\ Worker \notin Clients \cup Exports
    /\ Clients \cap Exports = {}
    /\ NoOne \notin Clients \cup Exports \cup {Worker}

ASSUME BoundsAssumption ==
    /\ MaxVersion \in Nat \ {0}
    /\ MaxJob \in Nat
    /\ MaxMishap \in Nat

ASSUME InputsAssumption ==
    /\ Requests \subseteq {"submit", "validate", "cancel"}
    /\ Mishaps \subseteq {"crash", "fault"}
    /\ Sources \subseteq {"unavailable", "invalid", "valid"}

VARIABLES
    package,        \* row of study_packages: status and active version
    versions,       \* rows of package_versions: status of each version
    files,          \* rows of export_files: who listed the version's files
    report,         \* rows of validation_results
    artifact,       \* directories _packages/<id>/v<N>: who moved it in place
    jobs,           \* rows of generation_jobs
    steps,          \* rows of generation_job_steps ("assemble", the only step)
    futures,        \* PackageJobRunner.futures, by job
    queue,          \* the executor's work queue
    proc,           \* what each process is doing and the values it has read
    mishaps         \* how many mishaps there have been

tables == <<package, versions, files, report, artifact>>
jobTables == <<jobs, steps>>
runner == <<futures, queue>>
vars == <<tables, jobTables, runner, proc, mishaps>>

Actors == Clients \cup Exports \cup {Worker}
Version == 1..MaxVersion
Job == 1..MaxJob

VersionStatus == {"absent", "draft", "building", "failed", "complete"}
JobStatus == {"absent", "queued", "running", "complete", "failed", "cancelled"}
StepStatus == {"absent", "running", "complete", "failed"}
FutureState == {"none", "pending", "running", "done", "cancelled"}

\* prepare_build, run by submit and again by build.
PreparePcs == {"read_package", "read_active", "read_version",
               "save_new_version", "activate_version"}
\* The rest of PackageService.build.
BuildPcs == {"mark_package", "mark_version", "snapshot", "move_artifact",
             "replace_files", "save_report", "complete_version", "complete_package"}
\* The try block of PackageJobRunner._run, and what follows its failure.
TryPcs == PreparePcs \cup BuildPcs \cup {"step_complete"}
FailPcs == {"fail_read_package", "fail_read_version", "fail_package",
            "fail_version", "step_failed", "job_failed"}
WorkerPcs == {"job_running", "step_running", "job_complete"} \cup TryPcs \cup FailPcs
SubmitPcs == PreparePcs \cup {"save_job", "schedule"}
RequestPcs == SubmitPcs \cup {"create_version", "save_validation",
                              "cancel_future", "save_cancelled"}
Pc == {"idle", "exited"} \cup WorkerPcs \cup RequestPcs

\* Where save_version is called.
SavePcs == {"create_version", "save_new_version", "mark_version",
            "complete_version", "fail_version"}

\* A process is where it is in its code and the values it has read on the way.
Process == [pc : Pc, active : Version \cup {0}, version : Version \cup {0},
            status : VersionStatus, checked : BOOLEAN, job : Job \cup {0}]
Idle == [pc |-> "idle", active |-> 0, version |-> 0, status |-> "absent",
         checked |-> FALSE, job |-> 0]
Exited == [Idle EXCEPT !.pc = "exited"]

Init ==
    /\ package = [status |-> "absent", active |-> 0]
    /\ versions = [v \in Version |-> "absent"]
    /\ files = [v \in Version |-> NoOne]
    /\ report = [v \in Version |-> "absent"]
    /\ artifact = [v \in Version |-> NoOne]
    /\ jobs = [j \in Job |-> [status |-> "absent", version |-> 0]]
    /\ steps = [j \in Job |-> "absent"]
    /\ futures = [j \in Job |-> "none"]
    /\ queue = <<>>
    /\ proc = [a \in Actors |-> Idle]
    /\ mishaps = 0

-----------------------------------------------------------------------------
\* How a process moves on: to its next call, to the end of its request (or of
\* the worker's job), or out of a call that raised.

Goto(a, pc) == proc' = [proc EXCEPT ![a].pc = pc, ![a].checked = FALSE]

Finish(a) ==
    /\ proc' = [proc EXCEPT ![a] = IF a \in Exports THEN Exited ELSE Idle]
    /\ futures' = IF a = Worker THEN [futures EXCEPT ![proc[a].job] = "done"] ELSE futures
    /\ UNCHANGED queue

\* An exception inside _run's try block is caught there and the job is failed;
\* anywhere else it ends the request, the export or the future.
Raise(a) ==
    \/ /\ a = Worker
       /\ proc[a].pc \in TryPcs
       /\ Goto(a, "fail_read_package")
       /\ UNCHANGED runner
    \/ /\ a # Worker \/ proc[a].pc \notin TryPcs
       /\ Finish(a)

\* save_version first reads the row: a completed one is immutable.
CheckVersion(a) ==
    /\ proc[a].pc \in SavePcs
    /\ ~proc[a].checked
    /\ IF versions[proc[a].version] = "complete"
       THEN Raise(a)
       ELSE proc' = [proc EXCEPT ![a].checked = TRUE] /\ UNCHANGED runner
    /\ UNCHANGED <<tables, jobTables, mishaps>>

\* Then it writes the row, whatever the row has become.
SaveVersion(a, status) ==
    /\ proc[a].checked
    /\ versions' = [versions EXCEPT ![proc[a].version] = status]

SavePackage(status, active) == package' = [status |-> status, active |-> active]

-----------------------------------------------------------------------------
\* create: the package's row, then the row of its first version.

CreatePackage(c) ==
    /\ package.status = "absent"
    /\ proc[c].pc = "idle"
    /\ SavePackage("draft", 1)
    /\ proc' = [proc EXCEPT ![c].pc = "create_version", ![c].version = 1]
    /\ UNCHANGED <<versions, files, report, artifact, jobTables, runner, mishaps>>

CreateVersion(c) ==
    /\ proc[c].pc = "create_version"
    /\ SaveVersion(c, "draft")
    /\ Finish(c)
    /\ UNCHANGED <<package, files, report, artifact, jobTables, mishaps>>

-----------------------------------------------------------------------------
\* prepare_build: find the version to build, opening a new one when the active
\* one is complete.

Unused == {j \in Job : jobs[j].status = "absent"}
Submitting == {c \in Clients : proc[c].pc \in SubmitPcs \ {"schedule"}}

\* A client may begin a submission while the bound on jobs leaves one for it.
MayBegin(a) ==
    \/ /\ a \in Clients
       /\ "submit" \in Requests
       /\ proc[a].pc = "idle"
       /\ Cardinality(Submitting) < Cardinality(Unused)
    \/ a \in Exports /\ proc[a].pc = "idle"
    \/ a = Worker /\ proc[a].pc = "read_package"

ReadPackage(a) ==
    /\ package.status # "absent"
    /\ MayBegin(a)
    /\ proc' = [proc EXCEPT ![a].pc = "read_active", ![a].active = package.active]
    /\ UNCHANGED <<tables, jobTables, runner, mishaps>>

\* _version_for_build reads the package once more, and then the row of the version
\* that is active now.
ReadActive(a) ==
    /\ proc[a].pc = "read_active"
    /\ proc' = [proc EXCEPT ![a].pc = "read_version", ![a].version = package.active]
    /\ UNCHANGED <<tables, jobTables, runner, mishaps>>

Prepared(a) == IF a \in Clients THEN "save_job" ELSE "mark_package"

\* Mutant: a new version is opened as soon as the active one has been started.
ReadVersionOpensEarly(a) ==
    LET active == proc[a].version
        new == versions[active] # "draft"
        v == IF new THEN active + 1 ELSE active
    IN
    /\ proc[a].pc = "read_version"
    /\ versions[active] # "absent"
    /\ v <= MaxVersion
    /\ proc' = [proc EXCEPT
           ![a].pc = IF v = proc[a].active THEN Prepared(a) ELSE "save_new_version",
           ![a].version = v,
           ![a].status = "draft"]
    /\ UNCHANGED <<tables, jobTables, runner, mishaps>>

ReadVersion(a) ==
    LET active == proc[a].version
        new == versions[active] = "complete"
        v == IF new THEN active + 1 ELSE active
    IN
    /\ proc[a].pc = "read_version"
    /\ versions[active] # "absent"
    /\ v <= MaxVersion
    /\ proc' = [proc EXCEPT
           ![a].pc = IF v = proc[a].active THEN Prepared(a) ELSE "save_new_version",
           ![a].active = 0,
           ![a].version = v,
           ![a].status = IF new THEN "draft" ELSE versions[v]]
    /\ UNCHANGED <<tables, jobTables, runner, mishaps>>

VersionNotFound(a) ==
    /\ proc[a].pc = "read_version"
    /\ versions[proc[a].version] = "absent"
    /\ Raise(a)
    /\ UNCHANGED <<tables, jobTables, mishaps>>

SaveNewVersion(a) ==
    /\ proc[a].pc = "save_new_version"
    /\ SaveVersion(a, proc[a].status)
    /\ Goto(a, "activate_version")
    /\ UNCHANGED <<package, files, report, artifact, jobTables, runner, mishaps>>

\* Mutant: the package is copied without its status being reset.
ActivateVersionKeepsStatus(a) ==
    /\ proc[a].pc = "activate_version"
    /\ SavePackage(package.status, proc[a].version)
    /\ Goto(a, Prepared(a))
    /\ UNCHANGED <<versions, files, report, artifact, jobTables, runner, mishaps>>

ActivateVersion(a) ==
    /\ proc[a].pc = "activate_version"
    /\ SavePackage("draft", proc[a].version)
    /\ Goto(a, Prepared(a))
    /\ UNCHANGED <<versions, files, report, artifact, jobTables, runner, mishaps>>

-----------------------------------------------------------------------------
\* The rest of build, by the worker or by an export.

MarkPackageBuilding(a) ==
    /\ proc[a].pc = "mark_package"
    /\ SavePackage("building", proc[a].version)
    /\ Goto(a, "mark_version")
    /\ UNCHANGED <<versions, files, report, artifact, jobTables, runner, mishaps>>

MarkVersionBuilding(a) ==
    /\ proc[a].pc = "mark_version"
    /\ SaveVersion(a, "building")
    /\ Goto(a, "snapshot")
    /\ UNCHANGED <<package, files, report, artifact, jobTables, runner, mishaps>>

\* The sources are read, validated, and the version's directory must not exist;
\* the pages and the ZIP are then written to a directory of their own.
Assemble(a) ==
    /\ proc[a].pc = "snapshot"
    /\ \E source \in Sources :
           IF source = "valid" /\ artifact[proc[a].version] = NoOne
           THEN Goto(a, "move_artifact") /\ UNCHANGED runner
           ELSE Raise(a)
    /\ UNCHANGED <<tables, jobTables, mishaps>>

\* Mutant: the rename replaces a directory that is already there.
MoveArtifactOver(a) ==
    /\ proc[a].pc = "move_artifact"
    /\ artifact' = [artifact EXCEPT ![proc[a].version] = a]
    /\ Goto(a, "replace_files")
    /\ UNCHANGED <<package, versions, files, report, jobTables, runner, mishaps>>

\* temporary_dir.replace(output_dir): renaming over a directory that is not
\* empty raises.
MoveArtifact(a) ==
    LET v == proc[a].version IN
    /\ proc[a].pc = "move_artifact"
    /\ \/ /\ artifact[v] = NoOne
          /\ artifact' = [artifact EXCEPT ![v] = a]
          /\ Goto(a, "replace_files")
          /\ UNCHANGED runner
       \/ /\ artifact[v] # NoOne
          /\ Raise(a)
          /\ UNCHANGED artifact
    /\ UNCHANGED <<package, versions, files, report, jobTables, mishaps>>

ReplaceFiles(a) ==
    /\ proc[a].pc = "replace_files"
    /\ files' = [files EXCEPT ![proc[a].version] = a]
    /\ Goto(a, "save_report")
    /\ UNCHANGED <<package, versions, report, artifact, jobTables, runner, mishaps>>

SaveReport(a) ==
    /\ proc[a].pc = "save_report"
    /\ report' = [report EXCEPT ![proc[a].version] = "passed"]
    /\ Goto(a, "complete_version")
    /\ UNCHANGED <<package, versions, files, artifact, jobTables, runner, mishaps>>

CompleteVersion(a) ==
    /\ proc[a].pc = "complete_version"
    /\ SaveVersion(a, "complete")
    /\ Goto(a, "complete_package")
    /\ UNCHANGED <<package, files, report, artifact, jobTables, runner, mishaps>>

CompletePackage(a) ==
    /\ proc[a].pc = "complete_package"
    /\ SavePackage("complete", proc[a].version)
    /\ IF a = Worker THEN Goto(a, "step_complete") /\ UNCHANGED runner ELSE Finish(a)
    /\ UNCHANGED <<versions, files, report, artifact, jobTables, mishaps>>

-----------------------------------------------------------------------------
\* PackageJobRunner._run around the build.

SaveJob(j, status) == jobs' = [jobs EXCEPT ![j].status = status]
SaveStep(j, status) == steps' = [steps EXCEPT ![j] = status]

\* The worker takes the next work item; one whose future was cancelled is dropped.
TakeJob ==
    /\ proc[Worker].pc = "idle"
    /\ queue # <<>>
    /\ queue' = Tail(queue)
    /\ IF futures[Head(queue)] = "cancelled"
       THEN UNCHANGED <<futures, proc>>
       ELSE /\ futures' = [futures EXCEPT ![Head(queue)] = "running"]
            /\ proc' = [proc EXCEPT ![Worker].pc = "job_running", ![Worker].job = Head(queue)]
    /\ UNCHANGED <<tables, jobTables, mishaps>>

MarkJobRunning ==
    /\ proc[Worker].pc = "job_running"
    /\ SaveJob(proc[Worker].job, "running")
    /\ Goto(Worker, "step_running")
    /\ UNCHANGED <<tables, steps, runner, mishaps>>

\* Mutant: the step is saved with the status the job was resumed with.
MarkStepQueued ==
    /\ proc[Worker].pc = "step_running"
    /\ SaveStep(proc[Worker].job, "queued")
    /\ Goto(Worker, "read_package")
    /\ UNCHANGED <<tables, jobs, runner, mishaps>>

MarkStepRunning ==
    /\ proc[Worker].pc = "step_running"
    /\ SaveStep(proc[Worker].job, "running")
    /\ Goto(Worker, "read_package")
    /\ UNCHANGED <<tables, jobs, runner, mishaps>>

CompleteStep ==
    /\ proc[Worker].pc = "step_complete"
    /\ SaveStep(proc[Worker].job, "complete")
    /\ Goto(Worker, "job_complete")
    /\ UNCHANGED <<tables, jobs, runner, mishaps>>

CompleteJob ==
    /\ proc[Worker].pc = "job_complete"
    /\ SaveJob(proc[Worker].job, "complete")
    /\ Finish(Worker)
    /\ UNCHANGED <<tables, steps, mishaps>>

-----------------------------------------------------------------------------
\* The except branch: mark_failed, then the step and the job.

FailReadPackage ==
    /\ proc[Worker].pc = "fail_read_package"
    /\ proc' = [proc EXCEPT ![Worker].pc = "fail_read_version",
                            ![Worker].active = package.active]
    /\ UNCHANGED <<tables, jobTables, runner, mishaps>>

FailReadVersion ==
    /\ proc[Worker].pc = "fail_read_version"
    /\ proc' = [proc EXCEPT ![Worker].pc = "fail_package",
                            ![Worker].version = package.active]
    /\ UNCHANGED <<tables, jobTables, runner, mishaps>>

FailPackage ==
    /\ proc[Worker].pc = "fail_package"
    /\ SavePackage("failed", proc[Worker].active)
    /\ Goto(Worker, "fail_version")
    /\ UNCHANGED <<versions, files, report, artifact, jobTables, runner, mishaps>>

FailVersion ==
    /\ proc[Worker].pc = "fail_version"
    /\ SaveVersion(Worker, "failed")
    /\ Goto(Worker, "step_failed")
    /\ UNCHANGED <<package, files, report, artifact, jobTables, runner, mishaps>>

FailStep ==
    /\ proc[Worker].pc = "step_failed"
    /\ SaveStep(proc[Worker].job, "failed")
    /\ Goto(Worker, "job_failed")
    /\ UNCHANGED <<tables, jobs, runner, mishaps>>

FailJob ==
    /\ proc[Worker].pc = "job_failed"
    /\ SaveJob(proc[Worker].job, "failed")
    /\ Finish(Worker)
    /\ UNCHANGED <<tables, steps, mishaps>>

-----------------------------------------------------------------------------
\* API requests: submit (after prepare_build), cancel, validate.

\* Jobs are numbered in the order they are created.
SaveNewJob(c) ==
    /\ proc[c].pc = "save_job"
    /\ \E j \in Unused :
           /\ \A k \in Unused : j <= k
           /\ jobs' = [jobs EXCEPT ![j] = [status |-> "queued", version |-> proc[c].version]]
           /\ proc' = [proc EXCEPT ![c].pc = "schedule", ![c].job = j]
    /\ UNCHANGED <<tables, steps, runner, mishaps>>

Schedule(c) ==
    LET j == proc[c].job IN
    /\ proc[c].pc = "schedule"
    /\ proc' = [proc EXCEPT ![c] = Idle]
    /\ IF futures[j] \in {"pending", "running"}
       THEN UNCHANGED runner
       ELSE /\ futures' = [futures EXCEPT ![j] = "pending"]
            /\ queue' = Append(queue, j)
    /\ UNCHANGED <<tables, jobTables, mishaps>>

BeginCancel(c, j) ==
    /\ "cancel" \in Requests
    /\ proc[c].pc = "idle"
    /\ jobs[j].status # "absent"
    /\ proc' = [proc EXCEPT ![c].pc = "cancel_future", ![c].job = j]
    /\ UNCHANGED <<tables, jobTables, runner, mishaps>>

\* Mutant: what Future.cancel() answers is ignored.
CancelFutureAnyway(c) ==
    /\ proc[c].pc = "cancel_future"
    /\ Goto(c, "save_cancelled")
    /\ UNCHANGED <<tables, jobTables, runner, mishaps>>

\* Future.cancel() refuses a future that runs or is done.
CancelFuture(c) ==
    LET j == proc[c].job IN
    /\ proc[c].pc = "cancel_future"
    /\ IF futures[j] \in {"pending", "cancelled"}
       THEN futures' = [futures EXCEPT ![j] = "cancelled"] /\ Goto(c, "save_cancelled")
       ELSE proc' = [proc EXCEPT ![c] = Idle] /\ UNCHANGED futures
    /\ UNCHANGED <<tables, jobTables, queue, mishaps>>

SaveCancelled(c) ==
    /\ proc[c].pc = "save_cancelled"
    /\ SaveJob(proc[c].job, "cancelled")
    /\ Finish(c)
    /\ UNCHANGED <<tables, steps, mishaps>>

BeginValidate(c) ==
    /\ "validate" \in Requests
    /\ proc[c].pc = "idle"
    /\ package.status # "absent"
    /\ versions[package.active] # "absent"
    /\ proc' = [proc EXCEPT ![c].pc = "save_validation", ![c].version = package.active]
    /\ UNCHANGED <<tables, jobTables, runner, mishaps>>

SaveValidation(c) ==
    /\ proc[c].pc = "save_validation"
    /\ \E source \in Sources :
           report' = [report EXCEPT ![proc[c].version] =
               CASE source = "valid" -> "passed"
                 [] source = "invalid" -> "failed"
                 [] source = "unavailable" -> @]
    /\ Finish(c)
    /\ UNCHANGED <<package, versions, files, artifact, jobTables, mishaps>>

-----------------------------------------------------------------------------
\* Calls that raise, processes that are killed.

Mishap(kind) ==
    /\ kind \in Mishaps
    /\ mishaps < MaxMishap
    /\ mishaps' = mishaps + 1

\* Only the calls that reach the database or the disk can raise.
Fault(a) ==
    /\ Mishap("fault")
    /\ proc[a].pc \notin {"idle", "exited", "schedule", "cancel_future"}
    /\ Raise(a)
    /\ UNCHANGED <<tables, jobTables>>

\* Mutant: only the jobs that had not started are resumed.
QueuedJobs == {j \in Job : jobs[j].status = "queued"}

\* list_incomplete_jobs
IncompleteJobs == {j \in Job : jobs[j].status \in {"queued", "running"}}

\* The server process is killed and started again: its threads and futures are
\* gone, and resume_incomplete_jobs schedules the incomplete jobs, oldest first.
CrashRestart ==
    /\ Mishap("crash")
    /\ proc' = [a \in Actors |-> IF a \in Exports THEN proc[a] ELSE Idle]
    /\ futures' = [j \in Job |-> IF j \in IncompleteJobs THEN "pending" ELSE "none"]
    /\ \E q \in [1..Cardinality(IncompleteJobs) -> IncompleteJobs] :
           /\ \A m, n \in DOMAIN q : m < n => q[m] < q[n]
           /\ queue' = q
    /\ UNCHANGED <<tables, jobTables>>

KillExport(x) ==
    /\ Mishap("crash")
    /\ proc[x].pc \notin {"idle", "exited"}
    /\ proc' = [proc EXCEPT ![x] = Exited]
    /\ UNCHANGED <<tables, jobTables, runner>>

-----------------------------------------------------------------------------
Prepare(a) ==
    \/ ReadPackage(a) \/ ReadActive(a) \/ ReadVersion(a) \/ VersionNotFound(a)
    \/ CheckVersion(a) \/ SaveNewVersion(a) \/ ActivateVersion(a)

Build(a) ==
    \/ Prepare(a)
    \/ MarkPackageBuilding(a) \/ MarkVersionBuilding(a)
    \/ Assemble(a) \/ MoveArtifact(a)
    \/ ReplaceFiles(a) \/ SaveReport(a)
    \/ CompleteVersion(a) \/ CompletePackage(a)

RunJob ==
    \/ TakeJob \/ MarkJobRunning \/ MarkStepRunning
    \/ Build(Worker)
    \/ CompleteStep \/ CompleteJob
    \/ FailReadPackage \/ FailReadVersion \/ FailPackage \/ FailVersion
    \/ FailStep \/ FailJob

\* The steps that carry a request on once it has begun.
Answer(c) ==
    \/ CheckVersion(c) \/ CreateVersion(c)
    \/ ReadActive(c) \/ ReadVersion(c) \/ VersionNotFound(c)
    \/ SaveNewVersion(c) \/ ActivateVersion(c)
    \/ SaveNewJob(c) \/ Schedule(c)
    \/ CancelFuture(c) \/ SaveCancelled(c)
    \/ SaveValidation(c)

Request(c) ==
    \/ CreatePackage(c)
    \/ ReadPackage(c)
    \/ \E j \in Job : BeginCancel(c, j)
    \/ BeginValidate(c)
    \/ Answer(c)

Next ==
    \/ \E c \in Clients : Request(c)
    \/ \E x \in Exports : Build(x) \/ KillExport(x)
    \/ RunJob
    \/ \E a \in Actors : Fault(a)
    \/ CrashRestart

Spec == Init /\ [][Next]_vars

\* Threads are scheduled: the worker goes on as long as it has something to do,
\* and a request that has begun is carried to its end.
FairSpec == Spec /\ WF_vars(RunJob) /\ \A c \in Clients : WF_vars(Answer(c))

-----------------------------------------------------------------------------
TypeOK ==
    /\ package \in [status : VersionStatus, active : Version \cup {0}]
    /\ versions \in [Version -> VersionStatus]
    /\ files \in [Version -> Actors \cup {NoOne}]
    /\ report \in [Version -> {"absent", "passed", "failed"}]
    /\ artifact \in [Version -> Actors \cup {NoOne}]
    /\ jobs \in [Job -> [status : JobStatus, version : Version \cup {0}]]
    /\ steps \in [Job -> StepStatus]
    /\ futures \in [Job -> FutureState]
    /\ queue \in Seq(Job)
    /\ proc \in [Actors -> Process]
    /\ mishaps \in 0..MaxMishap

-----------------------------------------------------------------------------
\* The version's pages and ZIP are in place and the file rows that downloads are
\* resolved through (resolve_version_file) were written by the build that made them.
Built(v) == artifact[v] # NoOne /\ files[v] = artifact[v]

\* A version is marked complete only when its download is whole, however builds,
\* crashes and exports interleave.
CompleteVersionsBuilt == \A v \in Version : versions[v] = "complete" => Built(v)

\* No version is skipped: one is opened only after every earlier one was built.
EarlierVersionsBuilt ==
    \A v \in Version : versions[v] # "absent" => \A u \in 1..(v - 1) : Built(u)

\* A package shown as complete has a whole download for its active version, although
\* the two rows are written in separate transactions and from stale copies.
CompletePackageBuilt == package.status = "complete" => Built(package.active)

\* A job reported complete has delivered the version promised when it was
\* submitted, although the worker decides anew which version it builds.
CompleteJobsBuilt ==
    \A j \in Job : jobs[j].status = "complete" => Built(jobs[j].version)

\* A cancelled job stays cancelled: the worker neither runs it nor writes over
\* the row, whatever the cancelling thread had read before the future was cancelled.
CancelledIsFinal ==
    [][\A j \in Job : jobs[j].status = "cancelled" =>
           /\ jobs'[j] = jobs[j]
           /\ proc'[Worker].job # j]_vars

\* The build implements the release history: a version is released in the step
\* that lists the files of its directory, in order, and nothing that happens to its
\* status afterwards changes what it consists of.
Releases == INSTANCE PackageReleases WITH
    Builders <- Exports \cup {Worker},
    release <- [v \in Version |-> IF Built(v) THEN files[v] ELSE NoOne]

ReleasesInOrder == Releases!Spec

Finished(j) == jobs[j].status \in {"complete", "failed", "cancelled"}

\* A job that was saved reaches an end and its row says so: also when the server
\* is killed before the job was scheduled, while it runs or between its last saves.
JobsFinish == \A j \in Job : [](jobs[j].status # "absent" => <>Finished(j))

\* The design's "background workers execute idempotent steps": with sound sources
\* a job that was saved completes, whatever was done of it before a restart.
JobsCompleteAfterRestart ==
    \A j \in Job : [](jobs[j].status # "absent" => <>(jobs[j].status = "complete"))

\* save_version's "completed package versions are immutable".
CompletedVersionsImmutable ==
    [][\A v \in Version : versions[v] = "complete" => versions'[v] = "complete"]_vars

\* The design's "never silently mutates a previously completed download": what
\* resolve_version_file serves of a version is served from then on.
Downloadable(v) == versions[v] = "complete" /\ report[v] = "passed"
PublishedStaysDownloadable ==
    [][\A v \in Version : Downloadable(v) => Downloadable(v)']_vars
=============================================================================
