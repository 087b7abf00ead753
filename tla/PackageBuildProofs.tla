------------------------- MODULE PackageBuildProofs -------------------------
(***************************************************************************)
(* Proofs about PackageBuild, for every number of clients, exports,        *)
(* versions, jobs and mishaps.                                             *)
(*                                                                         *)
(* Good is the inductive invariant of the tables, Cancellations that of    *)
(* the jobs' futures and work items (the section on cancelled jobs).       *)
(* Almost every step changes one process and at most one table;            *)
(* TablesKept, JobsKept and Moved say what such a step may do to the       *)
(* tables, to the jobs and to the process, GoodKept concludes that Good is *)
(* preserved, and the proof of GoodStep checks the three for one action    *)
(* after the other.  For Cancellations a step goes on (Onward) or ends     *)
(* (Ends), and says what it writes of the jobs (JobsWritten).              *)
(***************************************************************************)
EXTENDS PackageBuild, FiniteSetTheorems, TLAPS

\* Where a process uses the version, the active version or the job it carries.
VersionPcs == (PreparePcs \ {"read_package", "read_active"}) \cup BuildPcs \cup SavePcs
              \cup {"save_job", "save_validation", "fail_package"}
ActivePcs == {"fail_read_version", "fail_package"}
JobPcs == {"schedule", "cancel_future", "save_cancelled"}

\* Where a builder has moved its files in place, and where it has listed them.
OwnerPcs == {"replace_files", "save_report", "complete_version", "complete_package"}
ListedPcs == OwnerPcs \ {"replace_files"}

\* Where the worker has built its job's version.
DonePcs == {"step_complete", "job_complete"}

\* Before the package exists nothing goes on.
NothingBeforePackage ==
    package.status = "absent" =>
        /\ \A a \in Actors : proc[a].pc \in {"idle", "exited"}
        /\ \A j \in Job : jobs[j].status = "absent"
        /\ queue = <<>>

\* A process that uses what it carries has read it; it carries no completed row.
Carried ==
    /\ package.status # "absent" => package.active \in Version
    /\ \A a \in Actors :
           /\ proc[a].pc \in VersionPcs => proc[a].version \in Version
           /\ proc[a].pc \in ActivePcs => proc[a].active \in Version
           /\ proc[a].status # "complete"

\* One builder owns the directory of a version, and only it lists files there.
Owned ==
    /\ \A a \in Actors :
           /\ proc[a].pc \in OwnerPcs => artifact[proc[a].version] = a
           /\ proc[a].pc \in ListedPcs => files[proc[a].version] = a
    /\ \A v \in Version : files[v] \in {NoOne, artifact[v]}

\* Whatever version number is stored or carried, the versions below it are built.
Below(n) == \A u \in 1..(n - 1) : Built(u)

Ordered ==
    /\ Below(package.active)
    /\ \A a \in Actors : Below(proc[a].active) /\ Below(proc[a].version)
    /\ \A j \in Job : Below(jobs[j].version)
    /\ EarlierVersionsBuilt

\* A job at work was saved, and the worker builds no version below the job's.
HasJob(a) ==
    \/ a = Worker /\ proc[a].pc # "idle"
    \/ proc[a].pc \in JobPcs

Promised ==
    /\ \A j \in Job : jobs[j].status # "absent" => jobs[j].version \in Version
    /\ \A i \in 1..Len(queue) : jobs[queue[i]].status # "absent"
    /\ \A a \in Actors : HasJob(a) =>
           proc[a].job \in Job /\ jobs[proc[a].job].status # "absent"
    /\ proc[Worker].pc \in OwnerPcs => jobs[proc[Worker].job].version <= proc[Worker].version
    /\ proc[Worker].pc \in DonePcs => Built(jobs[proc[Worker].job].version)
    /\ CompleteJobsBuilt

Good ==
    /\ TypeOK
    /\ NothingBeforePackage
    /\ Carried
    /\ Owned
    /\ CompleteVersionsBuilt
    /\ CompletePackageBuilt
    /\ Ordered
    /\ Promised

-----------------------------------------------------------------------------
\* What a step of process a may do.

TablesKept ==
    /\ package' \in [status : VersionStatus, active : Version \cup {0}]
    /\ versions' \in [Version -> VersionStatus]
    /\ files' \in [Version -> Actors \cup {NoOne}]
    /\ report' \in [Version -> {"absent", "passed", "failed"}]
    /\ artifact' \in [Version -> Actors \cup {NoOne}]
    /\ \A v \in Version : Built(v) => Built(v)'
    /\ package'.status # "absent" /\ package'.active \in Version /\ Below(package'.active)
    /\ package'.status = "complete" => Built(package'.active)
    /\ \A v \in Version : versions'[v] = "complete" => Built(v)
    /\ \A v \in Version : versions'[v] # "absent" => Below(v)

JobsKept ==
    /\ jobs' \in [Job -> [status : JobStatus, version : Version \cup {0}]]
    /\ steps' \in [Job -> StepStatus]
    /\ queue' \in Seq(Job)
    /\ \A j \in Job : jobs[j].status # "absent" =>
           jobs'[j].status # "absent" /\ jobs'[j].version = jobs[j].version
    /\ \A j \in Job : jobs'[j].status # "absent" => jobs'[j].version \in Version
    /\ \A j \in Job : Below(jobs'[j].version)
    /\ \A j \in Job : jobs'[j].status = "complete" => Built(jobs'[j].version)
    /\ \A i \in 1..Len(queue') : jobs'[queue'[i]].status # "absent"

Moved(a) ==
    /\ proc' \in [Actors -> Process]
    /\ futures' \in [Job -> FutureState]
    /\ \A b \in Actors \ {a} : proc'[b] = proc[b]
    /\ proc'[a].pc \in VersionPcs => proc'[a].version \in Version
    /\ proc'[a].pc \in ActivePcs => proc'[a].active \in Version
    /\ proc'[a].status # "complete"
    /\ Below(proc'[a].active) /\ Below(proc'[a].version)
    /\ HasJob(a)' => proc'[a].job \in Job /\ jobs'[proc'[a].job].status # "absent"
    /\ a = Worker /\ proc'[a].pc \in OwnerPcs => jobs'[proc'[a].job].version <= proc'[a].version
    /\ a = Worker /\ proc'[a].pc \in DonePcs => Built(jobs'[proc'[a].job].version)

\* The worker is an actor.
LEMMA WorkerActor == Worker \in Actors
BY DEF Actors

\* A step that treats tables, jobs and its process as described, and leaves every
\* directory with its owner, preserves the invariant.
LEMMA GoodKept ==
    ASSUME Good, NEW a \in Actors, TablesKept, JobsKept, Moved(a), Owned',
           mishaps' \in 0..MaxMishap
    PROVE  Good'
<1>1. TypeOK'
  BY DEF TablesKept, JobsKept, Moved, TypeOK
<1>2. NothingBeforePackage'
  BY DEF TablesKept, NothingBeforePackage
<1>3. Carried'
  BY DEF Good, Carried, TablesKept, Moved
<1>4. /\ \A n \in Version : Built(n) => artifact'[n] # NoOne /\ files'[n] = artifact'[n]
      /\ \A n \in Version \cup {0} : Below(n) =>
             \A u \in 1..(n - 1) : artifact'[u] # NoOne /\ files'[u] = artifact'[u]
  <2>1. \A n \in Version : Built(n) => artifact'[n] # NoOne /\ files'[n] = artifact'[n]
    BY DEF TablesKept, Built
  <2> QED
    BY <2>1, BoundsAssumption DEF Below, Version
<1>5. Ordered'
  <2>1. Below(package.active)'
    BY <1>4 DEF TablesKept, Below, Built
  <2>2. \A b \in Actors : Below(proc[b].active)' /\ Below(proc[b].version)'
    <3> SUFFICES ASSUME NEW b \in Actors PROVE (Below(proc[b].active) /\ Below(proc[b].version))'
      OBVIOUS
    <3>1. Below(proc'[b].active) /\ Below(proc'[b].version)
      BY DEF Moved, Good, Ordered
    <3>2. proc'[b].active \in Version \cup {0} /\ proc'[b].version \in Version \cup {0}
      BY DEF Moved, Process
    <3> QED
      BY <3>1, <3>2, <1>4 DEF Below, Built
  <2>3. \A j \in Job : Below(jobs[j].version)'
    <3>1. \A j \in Job : Below(jobs'[j].version) /\ jobs'[j].version \in Version \cup {0}
      BY DEF JobsKept
    <3> QED
      BY <3>1, <1>4 DEF Below, Built
  <2>4. EarlierVersionsBuilt'
    BY <1>4 DEF TablesKept, EarlierVersionsBuilt, Built
  <2> QED
    BY <2>1, <2>2, <2>3, <2>4 DEF Ordered
<1>6. Promised'
  <2>1. \A b \in Actors : HasJob(b)' =>
            proc'[b].job \in Job /\ jobs'[proc'[b].job].status # "absent"
    BY DEF Good, Promised, Moved, JobsKept, HasJob
  <2>2. proc'[Worker].pc \in OwnerPcs => jobs'[proc'[Worker].job].version <= proc'[Worker].version
    <3>1. CASE a = Worker
      BY <3>1 DEF Moved
    <3>2. CASE a # Worker
      <4>1. proc'[Worker] = proc[Worker]
        BY <3>2, WorkerActor DEF Moved
      <4>2. proc[Worker].pc \in OwnerPcs => HasJob(Worker)
        BY DEF HasJob, OwnerPcs
      <4>3. proc[Worker].pc \in OwnerPcs =>
                jobs'[proc[Worker].job].version = jobs[proc[Worker].job].version
        BY <4>2, WorkerActor DEF Good, Promised, JobsKept
      <4> QED
        BY <4>1, <4>3 DEF Good, Promised
    <3> QED
      BY <3>1, <3>2
  <2>3. proc'[Worker].pc \in DonePcs =>
            Built(jobs'[proc'[Worker].job].version) /\ jobs'[proc'[Worker].job].version \in Version
    <3>1. proc'[Worker].pc \in DonePcs => HasJob(Worker)'
      BY DEF HasJob, DonePcs
    <3>2. proc'[Worker].pc \in DonePcs => jobs'[proc'[Worker].job].version \in Version
      BY <3>1, <2>1, WorkerActor DEF JobsKept
    <3>3. CASE a = Worker
      BY <3>2, <3>3 DEF Moved
    <3>4. CASE a # Worker
      <4>1. proc'[Worker] = proc[Worker]
        BY <3>4, WorkerActor DEF Moved
      <4>2. proc[Worker].pc \in DonePcs => HasJob(Worker)
        BY DEF HasJob, DonePcs
      <4>3. proc[Worker].pc \in DonePcs =>
                jobs'[proc[Worker].job].version = jobs[proc[Worker].job].version
        BY <4>2, WorkerActor DEF Good, Promised, JobsKept
      <4> QED
        BY <3>2, <4>1, <4>3 DEF Good, Promised
    <3> QED
      BY <3>3, <3>4
  <2>4. proc'[Worker].pc \in DonePcs => Built(jobs[proc[Worker].job].version)'
    BY <2>3, <1>4 DEF Built
  <2>5. CompleteJobsBuilt'
    <3> SUFFICES ASSUME NEW j \in Job, jobs'[j].status = "complete" PROVE Built(jobs[j].version)'
      BY DEF CompleteJobsBuilt
    <3>1. Built(jobs'[j].version) /\ jobs'[j].version \in Version
      BY DEF JobsKept
    <3> QED
      BY <3>1, <1>4 DEF Built
  <2> QED
    BY <2>1, <2>2, <2>4, <2>5 DEF Promised, JobsKept
<1>7. CompleteVersionsBuilt'
  BY <1>4 DEF TablesKept, CompleteVersionsBuilt, Built
<1>8. CompletePackageBuilt'
  BY <1>4 DEF TablesKept, CompletePackageBuilt, Built
<1> QED
  BY <1>1, <1>2, <1>3, <1>5, <1>6, <1>7, <1>8 DEF Good

-----------------------------------------------------------------------------
\* The parts of a step.

\* Goto leaves everything of the process but its position and `checked'.
LEMMA GotoEffect ==
    ASSUME proc \in [Actors -> Process], NEW a \in Actors, NEW pc \in Pc, Goto(a, pc)
    PROVE  /\ proc' \in [Actors -> Process]
           /\ proc'[a].pc = pc
           /\ proc'[a].active = proc[a].active
           /\ proc'[a].version = proc[a].version
           /\ proc'[a].job = proc[a].job
           /\ proc'[a].status = proc[a].status
           /\ \A b \in Actors \ {a} : proc'[b] = proc[b]
BY DEF Goto, Process

\* The two resting records are processes.
LEMMA IdleType == Idle \in Process /\ Exited \in Process
BY DEF Idle, Exited, Process, Pc, VersionStatus

\* A resting process carries nothing.
LEMMA IdleFields ==
    /\ Idle.pc = "idle" /\ Idle.active = 0 /\ Idle.version = 0 /\ Idle.status = "absent"
    /\ Exited.pc = "exited" /\ Exited.active = 0 /\ Exited.version = 0 /\ Exited.status = "absent"
BY DEF Idle, Exited

\* A process that is anywhere in its code has found a package.
LEMMA Busy ==
    ASSUME Good, NEW a \in Actors, proc[a].pc \notin {"idle", "exited"}
    PROVE  package.status # "absent"
BY DEF Good, NothingBeforePackage

\* A step that writes no table of the build keeps them.
LEMMA TablesUnchanged ==
    ASSUME Good, package.status # "absent", UNCHANGED tables
    PROVE  TablesKept
<1>1. /\ package' = package /\ versions' = versions /\ files' = files
      /\ report' = report /\ artifact' = artifact
  BY DEF tables
<1> QED
  BY <1>1 DEF Good, TypeOK, Carried, Ordered, TablesKept, Built,
              CompletePackageBuilt, CompleteVersionsBuilt, EarlierVersionsBuilt, Below

\* What is known of the version rows outlives a step that writes none.
LEMMA VersionsUnchanged ==
    ASSUME Good, UNCHANGED versions
    PROVE  \A v \in Version : /\ versions'[v] = "complete" => Built(v)
                              /\ versions'[v] # "absent" => Below(v)
<1>1. \A v \in Version : /\ versions[v] = "complete" => Built(v)
                         /\ versions[v] # "absent" => Below(v)
  BY DEF Good, Ordered, CompleteVersionsBuilt, EarlierVersionsBuilt, Below
<1> QED
  BY <1>1

\* A step that writes no job and no work item keeps them.
LEMMA JobsUnchanged ==
    ASSUME Good, UNCHANGED <<jobTables, queue>>
    PROVE  JobsKept
BY DEF Good, TypeOK, Promised, Ordered, CompleteJobsBuilt, JobsKept, jobTables

\* A step outside the owner's code that writes no file leaves every directory with its owner.
LEMMA OwnedUnchanged ==
    ASSUME Good, NEW a \in Actors, Moved(a), proc'[a].pc \notin OwnerPcs,
           UNCHANGED <<files, artifact>>
    PROVE  Owned'
BY DEF Good, Owned, Moved, ListedPcs

-----------------------------------------------------------------------------
\* The three ways a step ends, for a step that moves and lists no files.

\* A step that only goes on in the code, to where no directory is owned.
LEMMA GotoKept ==
    ASSUME Good, NEW a \in Actors, NEW pc \in Pc, pc \notin OwnerPcs, Goto(a, pc),
           pc \in VersionPcs => proc[a].version \in Version,
           pc \in ActivePcs => proc[a].active \in Version,
           pc \in JobPcs => proc[a].pc \in JobPcs,
           a = Worker => proc[a].pc # "idle",
           a = Worker /\ pc \in DonePcs => Built(jobs[proc[a].job].version),
           TablesKept, JobsKept, UNCHANGED <<files, artifact, futures>>,
           mishaps' \in 0..MaxMishap
    PROVE  Good'
<1>1. /\ proc' \in [Actors -> Process]
      /\ proc'[a].pc = pc
      /\ proc'[a].active = proc[a].active
      /\ proc'[a].version = proc[a].version
      /\ proc'[a].job = proc[a].job
      /\ proc'[a].status = proc[a].status
      /\ \A b \in Actors \ {a} : proc'[b] = proc[b]
  BY GotoEffect DEF Good, TypeOK
<1>2. HasJob(a)' => HasJob(a)
  BY <1>1 DEF HasJob
<1>3. HasJob(a) => /\ proc[a].job \in Job
                   /\ jobs'[proc[a].job].status # "absent"
                   /\ jobs'[proc[a].job].version = jobs[proc[a].job].version
  BY DEF Good, Promised, JobsKept
<1>4. a = Worker => HasJob(a)
  BY DEF HasJob
<1>5. Moved(a)
  BY <1>1, <1>2, <1>3, <1>4 DEF Moved, Good, TypeOK, Carried, Ordered
<1> QED
  BY <1>1, <1>5, OwnedUnchanged, GoodKept

\* A step that ends where no directory is owned, whatever it has read.
LEMMA MoveKept ==
    ASSUME Good, NEW a \in Actors, Moved(a), proc'[a].pc \notin OwnerPcs, TablesKept,
           JobsKept, UNCHANGED <<files, artifact>>, mishaps' \in 0..MaxMishap
    PROVE  Good'
BY OwnedUnchanged, GoodKept

\* A step after which the process rests.
LEMMA StopKept ==
    ASSUME Good, NEW a \in Actors, NEW end \in {Idle, Exited},
           proc' = [proc EXCEPT ![a] = end], a = Worker => end = Idle,
           futures' \in [Job -> FutureState], TablesKept, JobsKept,
           UNCHANGED <<files, artifact>>, mishaps' \in 0..MaxMishap
    PROVE  Good'
<1>1. /\ proc' \in [Actors -> Process]
      /\ proc'[a] = end
      /\ \A b \in Actors \ {a} : proc'[b] = proc[b]
  BY IdleType DEF Good, TypeOK
<1>2. /\ proc'[a].pc \in {"idle", "exited"} /\ proc'[a].active = 0 /\ proc'[a].version = 0
      /\ proc'[a].status = "absent"
      /\ a = Worker => proc'[a].pc = "idle"
  BY <1>1, IdleFields
<1>3. proc'[a].pc \notin VersionPcs \cup ActivePcs \cup JobPcs \cup OwnerPcs \cup DonePcs
  BY <1>2 DEF VersionPcs, ActivePcs, JobPcs, OwnerPcs, DonePcs, PreparePcs, BuildPcs, SavePcs
<1>4. ~HasJob(a)'
  BY <1>2, <1>3 DEF HasJob
<1>5. Below(proc'[a].active) /\ Below(proc'[a].version)
  BY <1>2 DEF Below
<1>6. Moved(a)
  BY <1>1, <1>2, <1>3, <1>4, <1>5 DEF Moved
<1> QED
  BY <1>3, <1>6, MoveKept

\* A request, an export or a job that ends.
LEMMA FinishKept ==
    ASSUME Good, NEW a \in Actors, Finish(a), TablesKept,
           JobsKept, UNCHANGED <<files, artifact>>, mishaps' \in 0..MaxMishap
    PROVE  Good'
<1>1. PICK end \in {Idle, Exited} :
          proc' = [proc EXCEPT ![a] = end] /\ (a = Worker => end = Idle)
  BY ActorsAssumption DEF Finish
<1>2. futures' \in [Job -> FutureState]
  BY DEF Finish, Good, TypeOK, FutureState
<1> QED
  BY <1>1, <1>2, StopKept

\* A call that raises: the except branch of the worker, or the end.
LEMMA RaiseKept ==
    ASSUME Good, NEW a \in Actors, proc[a].pc \notin {"idle", "exited"}, Raise(a),
           UNCHANGED <<tables, jobTables>>, mishaps' \in 0..MaxMishap
    PROVE  Good'
<1>1. TablesKept
  BY Busy, TablesUnchanged
<1>2. UNCHANGED <<files, artifact>>
  BY DEF tables
<1>3. CASE a = Worker /\ Goto(a, "fail_read_package") /\ UNCHANGED runner
  <2>1. /\ "fail_read_package" \in Pc
        /\ "fail_read_package" \notin VersionPcs \cup ActivePcs \cup JobPcs \cup OwnerPcs \cup DonePcs
    BY DEF Pc, WorkerPcs, FailPcs, VersionPcs, ActivePcs, JobPcs, OwnerPcs, DonePcs,
           PreparePcs, BuildPcs, SavePcs
  <2>2. JobsKept /\ UNCHANGED futures
    BY <1>3, JobsUnchanged DEF runner
  <2> QED
    BY <1>1, <1>2, <1>3, <2>1, <2>2, GotoKept
<1>4. CASE Finish(a)
  <2>1. JobsKept
    BY <1>4, JobsUnchanged DEF Finish
  <2> QED
    BY <1>1, <1>2, <1>4, <2>1, FinishKept
<1> QED
  BY <1>3, <1>4 DEF Raise

-----------------------------------------------------------------------------
\* One action after the other.

\* The invariant holds at the start.
LEMMA GoodInit == Init => Good
<1> SUFFICES ASSUME Init PROVE Good
  OBVIOUS
<1>1. \A n \in {0} : Below(n)
  BY DEF Below
<1>2. \A a \in Actors : proc[a] = Idle
  BY DEF Init
<1>3. TypeOK
  BY BoundsAssumption, IdleType DEF Init, TypeOK, VersionStatus, JobStatus, StepStatus, FutureState
<1>4. \A a \in Actors : proc[a].pc \notin
          VersionPcs \cup ActivePcs \cup JobPcs \cup OwnerPcs \cup ListedPcs \cup DonePcs
  BY <1>2, IdleFields DEF VersionPcs, ActivePcs, JobPcs, OwnerPcs, ListedPcs, DonePcs,
                          PreparePcs, BuildPcs, SavePcs
<1>5. NothingBeforePackage /\ Carried /\ Owned
  BY <1>2, <1>4, IdleFields DEF Init, NothingBeforePackage, Carried, Owned
<1>6. CompleteVersionsBuilt /\ CompletePackageBuilt
  BY DEF Init, CompleteVersionsBuilt, CompletePackageBuilt
<1>7. Ordered
  BY <1>1, <1>2, IdleFields DEF Init, Ordered, EarlierVersionsBuilt
<1>8. Promised
  BY <1>2, <1>4, IdleFields, WorkerActor DEF Init, Promised, HasJob, CompleteJobsBuilt
<1> QED
  BY <1>3, <1>5, <1>6, <1>7, <1>8 DEF Good

\* The positions of the code, classified.
LEMMA Positions ==
    /\ {"read_package", "read_active", "step_running", "cancel_future", "save_cancelled", "schedule",
        "step_complete", "job_complete", "fail_read_package", "fail_read_version", "job_running",
        "step_failed", "job_failed"} \subseteq Pc \ (VersionPcs \cup OwnerPcs)
    /\ {"create_version", "read_version", "save_new_version", "activate_version", "save_job",
        "mark_package", "mark_version", "snapshot", "move_artifact", "fail_package",
        "fail_version", "save_validation"} \subseteq (Pc \cap VersionPcs) \ OwnerPcs
    /\ OwnerPcs \subseteq Pc \cap VersionPcs
    /\ SavePcs \subseteq VersionPcs
    /\ {"idle", "exited"} \subseteq Pc \ (VersionPcs \cup OwnerPcs)
BY DEF Pc, WorkerPcs, RequestPcs, SubmitPcs, TryPcs, FailPcs, PreparePcs, BuildPcs, SavePcs,
       VersionPcs, OwnerPcs

\* The processes are typed.
LEMMA ProcType == Good => proc \in [Actors -> Process]
BY DEF Good, TypeOK

\* Clients are actors of their own.
LEMMA ClientIsNotWorker == \A c \in Clients : c \in Actors /\ c # Worker
BY ActorsAssumption DEF Actors

\* create's first row: version 1 becomes active.
LEMMA CreatePackageGood == ASSUME Good, NEW c \in Clients, CreatePackage(c) PROVE Good'
<1>0. "create_version" \in Pc /\ c \in Actors /\ c # Worker
  BY Positions, ClientIsNotWorker
<1>1. 1 \in Version /\ Below(1)
  BY BoundsAssumption DEF Version, Below
<1>2. /\ proc' \in [Actors -> Process]
      /\ proc'[c].pc = "create_version"
      /\ proc'[c].version = 1
      /\ proc'[c].active = proc[c].active
      /\ proc'[c].status = proc[c].status
      /\ \A b \in Actors \ {c} : proc'[b] = proc[b]
  BY <1>1, <1>0, ProcType DEF CreatePackage, Process
<1>3. Moved(c)
  BY <1>1, <1>2, Positions, ClientIsNotWorker
  DEF Moved, HasJob, JobPcs, ActivePcs, CreatePackage, runner, Good, TypeOK, Carried, Ordered
<1>4. /\ package'.status = "draft" /\ package'.active = 1
      /\ package' \in [status : VersionStatus, active : Version \cup {0}]
  BY <1>1 DEF CreatePackage, SavePackage, VersionStatus
<1>5. TablesKept
  <2>1. UNCHANGED <<versions, files, report, artifact>>
    BY DEF CreatePackage
  <2>2. package'.status \notin {"absent", "complete"} /\ package'.active \in Version /\ Below(package'.active)
    BY <1>1, <1>4
  <2>3. /\ versions' \in [Version -> VersionStatus]
        /\ files' \in [Version -> Actors \cup {NoOne}]
        /\ report' \in [Version -> {"absent", "passed", "failed"}]
        /\ artifact' \in [Version -> Actors \cup {NoOne}]
        /\ \A v \in Version : Built(v) => Built(v)'
    BY <2>1 DEF Good, TypeOK, Built
  <2>4. \A v \in Version : /\ versions'[v] = "complete" => Built(v)
                           /\ versions'[v] # "absent" => Below(v)
    BY <2>1, VersionsUnchanged
  <2> QED
    BY <1>4, <2>2, <2>3, <2>4 DEF TablesKept
<1>6. JobsKept
  BY JobsUnchanged DEF CreatePackage, runner
<1> QED
  BY <1>2, <1>3, <1>5, <1>6, Positions, ClientIsNotWorker, MoveKept DEF CreatePackage, Good, TypeOK

\* cancel reads a saved job.
LEMMA BeginCancelGood ==
    ASSUME Good, NEW c \in Clients, NEW j \in Job, BeginCancel(c, j)
    PROVE  Good'
<1>0. "cancel_future" \in Pc /\ c \in Actors /\ c # Worker
  BY Positions, ClientIsNotWorker
<1>1. /\ proc' \in [Actors -> Process]
      /\ proc'[c].pc = "cancel_future"
      /\ proc'[c].version = proc[c].version
      /\ proc'[c].active = proc[c].active
      /\ proc'[c].status = proc[c].status
      /\ proc'[c].job = j
      /\ \A b \in Actors \ {c} : proc'[b] = proc[b]
  BY <1>0, ProcType DEF BeginCancel, Process
<1>2. Moved(c)
  BY <1>1, Positions, ClientIsNotWorker
  DEF Moved, HasJob, JobPcs, ActivePcs, BeginCancel, runner, jobTables, Good, TypeOK, Carried, Ordered
<1>3. package.status # "absent"
  BY DEF BeginCancel, Good, NothingBeforePackage
<1>4. TablesKept /\ JobsKept
  BY <1>3, TablesUnchanged, JobsUnchanged DEF BeginCancel, runner
<1> QED
  BY <1>1, <1>2, <1>4, Positions, ClientIsNotWorker, MoveKept DEF BeginCancel, tables, Good, TypeOK

\* validate reads the active version.
LEMMA BeginValidateGood == ASSUME Good, NEW c \in Clients, BeginValidate(c) PROVE Good'
<1>0. "save_validation" \in Pc /\ c \in Actors /\ c # Worker
  BY Positions, ClientIsNotWorker
<1>1. package.active \in Version /\ Below(package.active)
  BY DEF BeginValidate, Good, Carried, Ordered
<1>2. /\ proc' \in [Actors -> Process]
      /\ proc'[c].pc = "save_validation"
      /\ proc'[c].version = package.active
      /\ proc'[c].active = proc[c].active
      /\ proc'[c].status = proc[c].status
      /\ \A b \in Actors \ {c} : proc'[b] = proc[b]
  BY <1>1, <1>0, ProcType DEF BeginValidate, Process
<1>3. Moved(c)
  BY <1>1, <1>2, Positions, ClientIsNotWorker
  DEF Moved, HasJob, JobPcs, ActivePcs, BeginValidate, runner, Good, TypeOK, Carried, Ordered
<1>4. TablesKept /\ JobsKept
  BY TablesUnchanged, JobsUnchanged DEF BeginValidate, runner
<1> QED
  BY <1>2, <1>3, <1>4, Positions, ClientIsNotWorker, MoveKept DEF BeginValidate, tables, Good, TypeOK

\* prepare_build: only the reads change what a process carries.

\* prepare_build's first read carries off the active version.
LEMMA ReadPackageGood == ASSUME Good, NEW a \in Actors, ReadPackage(a) PROVE Good'
<1>0. "read_active" \in Pc
  BY Positions
<1>1. package.active \in Version /\ Below(package.active)
  BY DEF ReadPackage, Good, Carried, Ordered
<1>2. /\ proc' \in [Actors -> Process]
      /\ proc'[a].pc = "read_active"
      /\ proc'[a].active = package.active
      /\ proc'[a].version = proc[a].version
      /\ proc'[a].job = proc[a].job
      /\ proc'[a].status = proc[a].status
      /\ \A b \in Actors \ {a} : proc'[b] = proc[b]
  BY <1>1, <1>0, ProcType DEF ReadPackage, Process
<1>3. a = Worker => HasJob(a)
  BY ActorsAssumption DEF ReadPackage, MayBegin, HasJob
<1>4. Moved(a)
  BY <1>1, <1>2, <1>3, Positions
  DEF Moved, HasJob, JobPcs, ActivePcs, OwnerPcs, DonePcs,
      ReadPackage, runner, jobTables, Good, TypeOK, Carried, Ordered, Promised
<1>5. TablesKept /\ JobsKept
  BY TablesUnchanged, JobsUnchanged DEF ReadPackage, runner
<1> QED
  BY <1>2, <1>4, <1>5, Positions, MoveKept DEF ReadPackage, tables, Good, TypeOK

\* The second read carries off the version whose row is read next.
LEMMA ReadActiveGood == ASSUME Good, NEW a \in Actors, ReadActive(a) PROVE Good'
<1>0. "read_version" \in Pc
  BY Positions
<1>1. package.status # "absent" /\ package.active \in Version /\ Below(package.active)
  BY Busy DEF ReadActive, Good, Carried, Ordered
<1>2. /\ proc' \in [Actors -> Process]
      /\ proc'[a].pc = "read_version"
      /\ proc'[a].active = proc[a].active
      /\ proc'[a].version = package.active
      /\ proc'[a].job = proc[a].job
      /\ proc'[a].status = proc[a].status
      /\ \A b \in Actors \ {a} : proc'[b] = proc[b]
  BY <1>1, <1>0, ProcType DEF ReadActive, Process
<1>3. a = Worker => HasJob(a)
  BY DEF ReadActive, HasJob
<1>4. Moved(a)
  BY <1>1, <1>2, <1>3, Positions
  DEF Moved, HasJob, JobPcs, ActivePcs, OwnerPcs, DonePcs,
      ReadActive, runner, jobTables, Good, TypeOK, Carried, Ordered, Promised
<1>5. TablesKept /\ JobsKept
  BY <1>1, TablesUnchanged, JobsUnchanged DEF ReadActive, runner
<1> QED
  BY <1>2, <1>4, <1>5, Positions, MoveKept DEF ReadActive, tables, Good, TypeOK

\* A version above the one that was read is opened only when that one is complete.
LEMMA ReadVersionGood == ASSUME Good, NEW a \in Actors, ReadVersion(a) PROVE Good'
<1>0. {"save_job", "mark_package", "save_new_version"} \subseteq Pc
  BY Positions
<1> DEFINE active == proc[a].version
           new == versions[active] = "complete"
           v == IF new THEN active + 1 ELSE active
<1>1. package.status # "absent" /\ active \in Version /\ Below(active)
  BY Busy, Positions DEF ReadVersion, Good, Carried, Ordered
<1>2. v \in Version
  BY <1>1, BoundsAssumption DEF ReadVersion, Version
<1>3. Below(v)
  <2>1. CASE new
    <3>1. Built(active)
      BY <1>1, <2>1 DEF Good, CompleteVersionsBuilt
    <3>2. \A u \in 1..active : u = active \/ u \in 1..(active - 1)
      BY <1>1, BoundsAssumption DEF Version
    <3> QED
      BY <1>1, <2>1, <3>1, <3>2, BoundsAssumption DEF Below, Version
  <2>2. CASE ~new
    BY <1>1, <2>2
  <2> QED
    BY <2>1, <2>2
<1>4. Prepared(a) \in {"save_job", "mark_package"}
  BY DEF Prepared
<1>5. (IF new THEN "draft" ELSE versions[v]) \in VersionStatus \ {"complete"}
  BY <1>2 DEF Good, TypeOK, VersionStatus
<1>6. PICK pc \in {"save_job", "mark_package", "save_new_version"}, status \in VersionStatus \ {"complete"} :
          proc' = [proc EXCEPT ![a].pc = pc, ![a].active = 0, ![a].version = v, ![a].status = status]
  BY <1>4, <1>5 DEF ReadVersion
<1> HIDE DEF v, new, active
<1>7. /\ proc' \in [Actors -> Process]
      /\ proc'[a].pc = pc
      /\ proc'[a].active = 0
      /\ proc'[a].version = v
      /\ proc'[a].job = proc[a].job
      /\ proc'[a].status # "complete"
      /\ \A b \in Actors \ {a} : proc'[b] = proc[b]
  BY <1>2, <1>6, <1>0, ProcType DEF Process
<1>8. a = Worker => HasJob(a)
  BY DEF ReadVersion, HasJob
<1>9. Below(0)
  BY DEF Below
<1>10. pc \in Pc /\ pc \notin OwnerPcs /\ pc \notin ActivePcs \cup JobPcs \cup DonePcs
  BY <1>6, Positions DEF ActivePcs, JobPcs, DonePcs
<1>11. Moved(a)
  BY <1>2, <1>3, <1>7, <1>8, <1>9, <1>10
  DEF Moved, HasJob, ReadVersion, runner, jobTables, Good, TypeOK, Carried, Promised
<1>12. TablesKept /\ JobsKept
  BY <1>1, TablesUnchanged, JobsUnchanged DEF ReadVersion, runner
<1> QED
  BY <1>7, <1>10, <1>11, <1>12, MoveKept DEF ReadVersion, tables, Good, TypeOK

\* save_version's SELECT raises or lets the process go on.
LEMMA CheckVersionGood == ASSUME Good, NEW a \in Actors, CheckVersion(a) PROVE Good'
<1>1. proc[a].pc \notin {"idle", "exited"}
  BY Positions DEF CheckVersion
<1>2. UNCHANGED <<tables, jobTables>> /\ mishaps' \in 0..MaxMishap
  BY DEF CheckVersion, Good, TypeOK
<1>3. CASE Raise(a)
  BY <1>1, <1>2, <1>3, RaiseKept
<1>4. CASE proc' = [proc EXCEPT ![a].checked = TRUE] /\ UNCHANGED runner
  <2>1. /\ proc' \in [Actors -> Process]
        /\ proc'[a].pc = proc[a].pc
        /\ proc'[a].active = proc[a].active
        /\ proc'[a].version = proc[a].version
        /\ proc'[a].job = proc[a].job
        /\ proc'[a].status = proc[a].status
        /\ \A b \in Actors \ {a} : proc'[b] = proc[b]
    BY <1>4, ProcType DEF Process
  <2>2. Moved(a)
    BY <1>2, <1>4, <2>1
    DEF Moved, HasJob, runner, jobTables, Good, TypeOK, Carried, Ordered, Promised
  <2>3. Owned'
    BY <1>2, <2>1 DEF Good, Owned, tables
  <2>4. TablesKept /\ JobsKept
    BY <1>1, <1>2, <1>4, Busy, TablesUnchanged, JobsUnchanged DEF runner
  <2> QED
    BY <1>2, <2>2, <2>3, <2>4, GoodKept
<1> QED
  BY <1>3, <1>4 DEF CheckVersion

\* A missing version row ends the preparation.
LEMMA VersionNotFoundGood == ASSUME Good, NEW a \in Actors, VersionNotFound(a) PROVE Good'
BY RaiseKept DEF VersionNotFound, Good, TypeOK

\* The steps of a build that write a row: what the row becomes.

\* save_version's write keeps the tables: complete is written over built versions only.
LEMMA VersionSaved ==
    ASSUME Good, NEW a \in Actors, proc[a].pc \in SavePcs, NEW status \in VersionStatus,
           status = "complete" => Built(proc[a].version), SaveVersion(a, status),
           UNCHANGED <<package, files, report, artifact>>
    PROVE  TablesKept
<1>1. proc[a].version \in Version /\ Below(proc[a].version)
  BY Positions DEF Good, Carried, Ordered
<1>2. package.status # "absent" /\ package.active \in Version /\ Below(package.active)
      /\ (package.status = "complete" => Built(package.active))
  BY Busy, Positions DEF Good, Carried, Ordered, CompletePackageBuilt
<1>3. versions' \in [Version -> VersionStatus]
  BY DEF SaveVersion, Good, TypeOK
<1>4. \A v \in Version : /\ versions'[v] = "complete" => Built(v)
                         /\ versions'[v] # "absent" => Below(v)
  <2> SUFFICES ASSUME NEW v \in Version
               PROVE  /\ versions'[v] = "complete" => Built(v)
                      /\ versions'[v] # "absent" => Below(v)
    OBVIOUS
  <2>1. CASE v = proc[a].version
    BY <1>1, <2>1 DEF SaveVersion, Good, TypeOK
  <2>2. CASE v # proc[a].version
    <3>1. versions'[v] = versions[v]
      BY <2>2 DEF SaveVersion, Good, TypeOK
    <3> QED
      BY <3>1 DEF Good, Ordered, CompleteVersionsBuilt, EarlierVersionsBuilt, Below
  <2> QED
    BY <2>1, <2>2
<1> QED
  BY <1>2, <1>3, <1>4 DEF TablesKept, Good, TypeOK, Built

\* create_package's write keeps the tables: complete is written for built versions only.
LEMMA PackageSaved ==
    ASSUME Good, NEW status \in VersionStatus \ {"absent"}, NEW active \in Version,
           Below(active), status = "complete" => Built(active), SavePackage(status, active),
           UNCHANGED <<versions, files, report, artifact>>
    PROVE  TablesKept
<1>1. /\ package' \in [status : VersionStatus, active : Version \cup {0}]
      /\ package'.status = status /\ package'.active = active
  BY DEF SavePackage
<1>2. /\ versions' \in [Version -> VersionStatus]
      /\ files' \in [Version -> Actors \cup {NoOne}]
      /\ report' \in [Version -> {"absent", "passed", "failed"}]
      /\ artifact' \in [Version -> Actors \cup {NoOne}]
      /\ \A v \in Version : Built(v) => Built(v)'
  BY DEF Good, TypeOK, Built
<1>3. \A v \in Version : /\ versions'[v] = "complete" => Built(v)
                         /\ versions'[v] # "absent" => Below(v)
  BY VersionsUnchanged
<1> QED
  BY <1>1, <1>2, <1>3 DEF TablesKept

\* A step that goes on within prepare_build or build, before anything is moved.
LEMMA OnwardKept ==
    ASSUME Good, NEW a \in Actors, proc[a].pc \in VersionPcs,
           NEW pc \in {"save_job", "activate_version", "mark_package", "mark_version", "snapshot",
                       "move_artifact"},
           Goto(a, pc), TablesKept, UNCHANGED <<files, artifact, jobTables, runner, mishaps>>
    PROVE  Good'
<1>1. pc \in Pc /\ pc \notin OwnerPcs \cup ActivePcs \cup JobPcs \cup DonePcs
  BY Positions DEF ActivePcs, JobPcs, DonePcs
<1>2. proc[a].version \in Version /\ proc[a].pc # "idle"
  BY Positions DEF Good, Carried
<1>3. JobsKept
  BY JobsUnchanged DEF runner
<1> QED
  BY <1>1, <1>2, <1>3, GotoKept DEF Good, TypeOK, runner

\* The row prepared from a stale read is never a complete one.
LEMMA SaveNewVersionGood == ASSUME Good, NEW a \in Actors, SaveNewVersion(a) PROVE Good'
<1>1. proc[a].pc \in SavePcs \cap VersionPcs
  BY Positions DEF SaveNewVersion, SavePcs
<1>2. proc[a].status \in VersionStatus /\ proc[a].status # "complete"
  BY ProcType DEF Process, Good, Carried
<1>3. TablesKept
  BY <1>1, <1>2, VersionSaved DEF SaveNewVersion
<1> QED
  BY <1>1, <1>3, OnwardKept DEF SaveNewVersion

\* The new version becomes active, or an old one again.
LEMMA ActivateVersionGood == ASSUME Good, NEW a \in Actors, ActivateVersion(a) PROVE Good'
<1>1. proc[a].pc \in VersionPcs
  BY Positions DEF ActivateVersion
<1>2. proc[a].version \in Version /\ Below(proc[a].version)
  BY <1>1 DEF Good, Carried, Ordered
<1>3. "draft" \in VersionStatus \ {"absent"}
  BY DEF VersionStatus
<1>4. TablesKept
  BY <1>2, <1>3, PackageSaved DEF ActivateVersion
<1> QED
  BY <1>1, <1>4, OnwardKept DEF ActivateVersion, Prepared

\* build marks the package.
LEMMA MarkPackageBuildingGood == ASSUME Good, NEW a \in Actors, MarkPackageBuilding(a) PROVE Good'
<1>1. proc[a].pc \in VersionPcs
  BY Positions DEF MarkPackageBuilding
<1>2. proc[a].version \in Version /\ Below(proc[a].version)
  BY <1>1 DEF Good, Carried, Ordered
<1>3. "building" \in VersionStatus \ {"absent"}
  BY DEF VersionStatus
<1>4. TablesKept
  BY <1>2, <1>3, PackageSaved DEF MarkPackageBuilding
<1> QED
  BY <1>1, <1>4, OnwardKept DEF MarkPackageBuilding

\* build marks the version.
LEMMA MarkVersionBuildingGood == ASSUME Good, NEW a \in Actors, MarkVersionBuilding(a) PROVE Good'
<1>1. proc[a].pc \in SavePcs \cap VersionPcs
  BY Positions DEF MarkVersionBuilding, SavePcs
<1>2. "building" \in VersionStatus
  BY DEF VersionStatus
<1>3. TablesKept
  BY <1>1, <1>2, VersionSaved DEF MarkVersionBuilding
<1> QED
  BY <1>1, <1>3, OnwardKept DEF MarkVersionBuilding

\* Assembling raises or goes on; nothing is in place yet.
LEMMA AssembleGood == ASSUME Good, NEW a \in Actors, Assemble(a) PROVE Good'
<1>1. proc[a].pc \in VersionPcs /\ proc[a].pc \notin {"idle", "exited"}
  BY Positions DEF Assemble
<1>2. CASE Raise(a)
  BY <1>1, <1>2, RaiseKept DEF Assemble, Good, TypeOK
<1>3. CASE Goto(a, "move_artifact") /\ UNCHANGED runner
  <2>1. TablesKept
    BY <1>1, Busy, TablesUnchanged DEF Assemble
  <2> QED
    BY <1>1, <1>3, <2>1, OnwardKept DEF Assemble, tables
<1> QED
  BY <1>2, <1>3 DEF Assemble

\* The steps of the builder that owns the version's directory.

\* What such a step leaves as it is.
LEMMA OwnerGoto ==
    ASSUME Good, NEW a \in Actors, proc[a].pc \in VersionPcs, NEW pc \in OwnerPcs, Goto(a, pc),
           a = Worker => jobs[proc[a].job].version <= proc[a].version,
           UNCHANGED <<jobTables, runner>>
    PROVE  /\ Moved(a)
           /\ JobsKept
           /\ proc'[a].pc = pc
           /\ proc'[a].version = proc[a].version
           /\ \A b \in Actors \ {a} : proc'[b] = proc[b]
<1>1. pc \in Pc
  BY Positions
<1>2. /\ proc' \in [Actors -> Process]
      /\ proc'[a].pc = pc
      /\ proc'[a].active = proc[a].active
      /\ proc'[a].version = proc[a].version
      /\ proc'[a].job = proc[a].job
      /\ proc'[a].status = proc[a].status
      /\ \A b \in Actors \ {a} : proc'[b] = proc[b]
  BY <1>1, GotoEffect, ProcType
<1>3. a = Worker => HasJob(a)
  BY Positions DEF HasJob
<1>4. pc \notin ActivePcs \cup JobPcs \cup DonePcs
  BY DEF OwnerPcs, ActivePcs, JobPcs, DonePcs
<1>5. Moved(a)
  BY <1>2, <1>3, <1>4
  DEF Moved, HasJob, jobTables, runner, Good, TypeOK, Carried, Ordered, Promised
<1> QED
  BY <1>2, <1>5, JobsUnchanged DEF runner

\* The rename gives the directory its only owner, and then the worker's version is not
\* below its job's.
LEMMA MoveArtifactGood == ASSUME Good, NEW a \in Actors, MoveArtifact(a) PROVE Good'
<1> DEFINE v == proc[a].version
<1>1. /\ proc[a].pc \in VersionPcs
      /\ proc[a].pc \notin {"idle", "exited"}
      /\ v \in Version
      /\ Below(v)
      /\ package.status # "absent"
  BY Positions, Busy DEF MoveArtifact, Good, Carried, Ordered
<1>2. mishaps' \in 0..MaxMishap
  BY DEF MoveArtifact, Good, TypeOK
<1>3. CASE Raise(a) /\ UNCHANGED artifact
  BY <1>1, <1>2, <1>3, RaiseKept DEF MoveArtifact, tables
<1>4. CASE artifact[v] = NoOne /\ artifact' = [artifact EXCEPT ![v] = a]
           /\ Goto(a, "replace_files") /\ UNCHANGED runner
  <2>1. files[v] = NoOne /\ ~Built(v)
    BY <1>1, <1>4 DEF Good, Owned, Built
  \* The job's version is not above v: everything below it is built, and v is not.
  <2>2. a = Worker => jobs[proc[a].job].version <= v
    <3> SUFFICES ASSUME a = Worker PROVE jobs[proc[a].job].version <= v
      OBVIOUS
    <3>1. HasJob(a)
      BY <1>1 DEF HasJob
    <3>2. jobs[proc[a].job].version \in Version /\ Below(jobs[proc[a].job].version)
      BY <3>1 DEF Good, Promised, Ordered
    <3> QED
      BY <1>1, <2>1, <3>2, BoundsAssumption DEF Below, Version
  <2>3. "replace_files" \in OwnerPcs /\ "replace_files" \notin ListedPcs
    BY DEF OwnerPcs, ListedPcs
  <2>4. /\ Moved(a)
        /\ JobsKept
        /\ proc'[a].pc = "replace_files"
        /\ proc'[a].version = v
        /\ \A b \in Actors \ {a} : proc'[b] = proc[b]
    BY <1>1, <1>4, <2>2, <2>3, OwnerGoto DEF MoveArtifact
  <2>5. artifact'[v] = a /\ \A u \in Version \ {v} : artifact'[u] = artifact[u]
    BY <1>1, <1>4 DEF Good, TypeOK
  <2>6. Owned'
    <3>1. \A b \in Actors \ {a} : proc[b].pc \in OwnerPcs =>
              proc[b].version \in Version /\ proc[b].version # v
      BY <1>4, Positions, ActorsAssumption DEF Good, Owned, Carried, Actors
    <3>2. \A b \in Actors \ {a} : proc[b].pc \in OwnerPcs => artifact'[proc[b].version] = b
      BY <2>5, <3>1 DEF Good, Owned
    <3>3. \A u \in Version : files'[u] \in {NoOne, artifact'[u]}
      BY <2>1, <2>5 DEF MoveArtifact, Good, Owned
    <3> QED
      BY <2>3, <2>4, <2>5, <3>2, <3>3 DEF MoveArtifact, Good, Owned
  <2>7. TablesKept
    <3>1. \A u \in Version : Built(u) => Built(u)'
      BY <2>1, <2>5 DEF MoveArtifact, Built
    <3>2. artifact' \in [Version -> Actors \cup {NoOne}]
      BY <1>4 DEF Good, TypeOK
    <3> QED
      BY <1>1, <3>1, <3>2, VersionsUnchanged
      DEF MoveArtifact, TablesKept, Good, TypeOK, Carried, Ordered, CompletePackageBuilt
  <2> QED
    BY <1>2, <2>4, <2>6, <2>7, GoodKept
<1> QED
  BY <1>3, <1>4 DEF MoveArtifact

\* The owner lists its files; nobody else lists files of that version.
LEMMA ReplaceFilesGood == ASSUME Good, NEW a \in Actors, ReplaceFiles(a) PROVE Good'
<1> DEFINE v == proc[a].version
<1>1. /\ proc[a].pc \in OwnerPcs \cap VersionPcs
      /\ v \in Version
      /\ artifact[v] = a
      /\ package.status # "absent"
  BY Positions, Busy DEF ReplaceFiles, OwnerPcs, Good, Carried, Owned
<1>2. "save_report" \in OwnerPcs
  BY DEF OwnerPcs
<1>3. /\ Moved(a)
      /\ JobsKept
      /\ proc'[a].pc = "save_report"
      /\ proc'[a].version = v
      /\ \A b \in Actors \ {a} : proc'[b] = proc[b]
  BY <1>1, <1>2, OwnerGoto DEF ReplaceFiles, Good, Promised
<1>4. files'[v] = a /\ \A u \in Version \ {v} : files'[u] = files[u]
  BY <1>1 DEF ReplaceFiles, Good, TypeOK
<1>5. Owned'
  <2>1. \A b \in Actors \ {a} : proc[b].pc \in OwnerPcs =>
            proc[b].version \in Version /\ proc[b].version # v
    BY <1>1, Positions DEF Good, Owned, Carried
  <2>2. \A b \in Actors \ {a} : proc[b].pc \in ListedPcs => files'[proc[b].version] = b
    BY <1>4, <2>1 DEF Good, Owned, ListedPcs
  <2> QED
    BY <1>1, <1>3, <1>4, <2>2 DEF ReplaceFiles, Good, Owned
<1>6. TablesKept
  <2>1. \A u \in Version : Built(u) => Built(u)'
    BY <1>1, <1>4 DEF ReplaceFiles, Built
  <2>2. files' \in [Version -> Actors \cup {NoOne}]
    BY DEF ReplaceFiles, Good, TypeOK
  <2> QED
    BY <1>1, <2>1, <2>2, VersionsUnchanged
    DEF ReplaceFiles, TablesKept, Good, TypeOK, Carried, Ordered, CompletePackageBuilt
<1> QED
  BY <1>3, <1>5, <1>6, GoodKept DEF ReplaceFiles, Good, TypeOK

\* Once its files are listed the version is built.
LEMMA ListedBuilt ==
    ASSUME Good, NEW a \in Actors, proc[a].pc \in ListedPcs
    PROVE  /\ proc[a].version \in Version
           /\ Below(proc[a].version)
           /\ Built(proc[a].version)
           /\ package.status # "absent"
           /\ a = Worker => jobs[proc[a].job].version <= proc[a].version
BY Positions, Busy, ActorsAssumption
DEF Good, Carried, Owned, Ordered, Promised, Built, ListedPcs, Actors

\* A later step of the owner: the directory and the files stay.
LEMMA OwnerKept ==
    ASSUME Good, NEW a \in Actors, proc[a].pc \in ListedPcs, NEW pc \in ListedPcs, Goto(a, pc),
           TablesKept, UNCHANGED <<files, artifact, jobTables, runner, mishaps>>
    PROVE  Good'
<1>1. /\ Moved(a)
      /\ JobsKept
      /\ proc'[a].pc = pc
      /\ proc'[a].version = proc[a].version
      /\ \A b \in Actors \ {a} : proc'[b] = proc[b]
  BY ListedBuilt, Positions, OwnerGoto DEF ListedPcs
<1>2. Owned'
  BY <1>1 DEF Good, Owned, ListedPcs
<1> QED
  BY <1>1, <1>2, GoodKept DEF Good, TypeOK

\* The report is saved.
LEMMA SaveReportGood == ASSUME Good, NEW a \in Actors, SaveReport(a) PROVE Good'
<1>1. {"save_report", "complete_version"} \subseteq ListedPcs
  BY DEF ListedPcs, OwnerPcs
<1>2. TablesKept
  <2>1. report' \in [Version -> {"absent", "passed", "failed"}]
    BY DEF SaveReport, Good, TypeOK
  <2> QED
    BY <1>1, <2>1, ListedBuilt, VersionsUnchanged
    DEF SaveReport, TablesKept, Good, TypeOK, Carried, Ordered, CompletePackageBuilt, Built
<1> QED
  BY <1>1, <1>2, OwnerKept DEF SaveReport

\* The version is marked complete: it is built.
LEMMA CompleteVersionGood == ASSUME Good, NEW a \in Actors, CompleteVersion(a) PROVE Good'
<1>1. /\ {"complete_version", "complete_package"} \subseteq ListedPcs
      /\ "complete_version" \in SavePcs
      /\ "complete" \in VersionStatus
  BY DEF ListedPcs, OwnerPcs, SavePcs, VersionStatus
<1>2. TablesKept
  BY <1>1, ListedBuilt, VersionSaved DEF CompleteVersion
<1> QED
  BY <1>1, <1>2, OwnerKept DEF CompleteVersion

\* The package is marked complete: its version is built, and so is the job's.
LEMMA CompletePackageGood == ASSUME Good, NEW a \in Actors, CompletePackage(a) PROVE Good'
<1>1. /\ "complete_package" \in ListedPcs
      /\ "complete" \in VersionStatus \ {"absent"}
  BY DEF ListedPcs, OwnerPcs, VersionStatus
<1>2. /\ proc[a].pc = "complete_package"
      /\ proc[a].version \in Version
      /\ Below(proc[a].version)
      /\ Built(proc[a].version)
      /\ a = Worker => jobs[proc[a].job].version <= proc[a].version
  BY <1>1, ListedBuilt DEF CompletePackage
<1>3. TablesKept
  BY <1>1, <1>2, PackageSaved DEF CompletePackage
<1>4. mishaps' \in 0..MaxMishap
  BY DEF CompletePackage, Good, TypeOK
<1>5. CASE a # Worker /\ Finish(a)
  <2>1. JobsKept
    BY <1>5, JobsUnchanged DEF CompletePackage, Finish
  <2> QED
    BY <1>3, <1>4, <1>5, <2>1, FinishKept DEF CompletePackage
<1>6. CASE a = Worker /\ Goto(a, "step_complete") /\ UNCHANGED runner
  \* The job's version is v, or below v and so built before v.
  <2>1. Built(jobs[proc[a].job].version)
    <3>1. HasJob(a)
      BY <1>2, <1>6 DEF HasJob
    <3>2. jobs[proc[a].job].version \in Version
      BY <3>1 DEF Good, Promised
    <3> QED
      BY <1>2, <1>6, <3>2, BoundsAssumption DEF Below, Version
  <2>2. "step_complete" \in Pc /\ "step_complete" \notin OwnerPcs \cup VersionPcs \cup ActivePcs \cup JobPcs
    BY Positions DEF ActivePcs, JobPcs
  <2>3. JobsKept
    BY <1>6, JobsUnchanged DEF CompletePackage, runner
  <2> QED
    BY <1>2, <1>3, <1>4, <1>6, <2>1, <2>2, <2>3, GotoKept DEF CompletePackage, runner
<1> QED
  BY <1>5, <1>6 DEF CompletePackage

\* PackageJobRunner._run around the build.

\* The worker's job was saved.
LEMMA WorkerJob ==
    ASSUME Good, proc[Worker].pc # "idle"
    PROVE  /\ proc[Worker].job \in Job
           /\ jobs[proc[Worker].job].status # "absent"
BY WorkerActor DEF Good, Promised, HasJob

\* Saving the status of a saved job, or a step.
LEMMA JobSaved ==
    ASSUME Good, NEW j \in Job, jobs[j].status # "absent", NEW status \in JobStatus \ {"absent"},
           status = "complete" => Built(jobs[j].version), SaveJob(j, status),
           UNCHANGED <<steps, queue>>
    PROVE  JobsKept
<1>1. /\ jobs' \in [Job -> [status : JobStatus, version : Version \cup {0}]]
      /\ jobs'[j].status = status
      /\ \A i \in Job : jobs'[i].version = jobs[i].version
      /\ \A i \in Job \ {j} : jobs'[i] = jobs[i]
  BY DEF SaveJob, Good, TypeOK
<1>2. \A i \in 1..Len(queue) : queue[i] \in Job
  BY DEF Good, TypeOK
<1> QED
  BY <1>1, <1>2 DEF JobsKept, Good, TypeOK, Promised, Ordered, CompleteJobsBuilt

\* Saving a step leaves the jobs alone.
LEMMA StepSaved ==
    ASSUME Good, NEW j, NEW status \in StepStatus, SaveStep(j, status), UNCHANGED <<jobs, queue>>
    PROVE  JobsKept
<1>1. steps' \in [Job -> StepStatus]
  BY DEF SaveStep, Good, TypeOK
<1> QED
  BY <1>1 DEF JobsKept, Good, TypeOK, Promised, Ordered, CompleteJobsBuilt

\* A step of the worker outside the build.
LEMMA WorkerKept ==
    ASSUME Good, proc[Worker].pc \notin {"idle", "exited"},
           NEW pc \in {"step_running", "read_package", "step_failed", "job_failed", "job_complete"},
           Goto(Worker, pc), pc = "job_complete" => proc[Worker].pc \in DonePcs,
           TablesKept, JobsKept, UNCHANGED <<files, artifact, futures, mishaps>>
    PROVE  Good'
<1>1. pc \in Pc /\ pc \notin OwnerPcs \cup VersionPcs \cup ActivePcs \cup JobPcs
  BY Positions DEF ActivePcs, JobPcs
<1>2. pc \in DonePcs => Built(jobs[proc[Worker].job].version)
  BY DEF DonePcs, Good, Promised
<1> QED
  BY <1>1, <1>2, WorkerActor, GotoKept DEF Good, TypeOK

\* The worker takes a job from the queue.
LEMMA TakeJobGood == ASSUME Good, TakeJob PROVE Good'
<1>1. /\ Head(queue) \in Job
      /\ jobs[Head(queue)].status # "absent"
      /\ queue' \in Seq(Job)
      /\ Len(queue') = Len(queue) - 1
      /\ \A i \in 1..Len(queue') : queue'[i] = queue[i + 1]
      /\ Len(queue) \in Nat
      /\ 1 <= Len(queue)
  BY DEF TakeJob, Good, TypeOK, Promised
<1>2. package.status # "absent"
  BY DEF TakeJob, Good, NothingBeforePackage
<1>3. TablesKept
  BY <1>2, TablesUnchanged DEF TakeJob
<1>4. \A i \in 1..Len(queue') : jobs[queue'[i]].status # "absent"
  <2> SUFFICES ASSUME NEW i \in 1..Len(queue') PROVE jobs[queue'[i]].status # "absent"
    OBVIOUS
  <2>1. i + 1 \in 1..Len(queue)
    BY <1>1
  <2> QED
    BY <1>1, <2>1 DEF Good, Promised
<1>5. JobsKept
  BY <1>1, <1>4 DEF TakeJob, jobTables, JobsKept, Good, TypeOK, Promised, Ordered, CompleteJobsBuilt
<1>6. mishaps' \in 0..MaxMishap /\ UNCHANGED <<files, artifact>>
  BY DEF TakeJob, tables, Good, TypeOK
<1>7. CASE UNCHANGED <<futures, proc>>
  <2>1. Moved(Worker)
    BY <1>5, <1>7, WorkerActor
    DEF TakeJob, jobTables, Moved, HasJob, JobPcs, OwnerPcs, DonePcs, Good, TypeOK, Carried, Ordered, Promised
  <2>2. proc'[Worker].pc \notin OwnerPcs
    BY <1>7 DEF TakeJob, OwnerPcs
  <2> QED
    BY <1>3, <1>5, <1>6, <2>1, <2>2, WorkerActor, MoveKept
<1>8. CASE /\ futures' = [futures EXCEPT ![Head(queue)] = "running"]
           /\ proc' = [proc EXCEPT ![Worker].pc = "job_running", ![Worker].job = Head(queue)]
  <2>1. "job_running" \in Pc /\ "job_running" \notin VersionPcs \cup OwnerPcs \cup ActivePcs \cup DonePcs
    BY Positions DEF ActivePcs, DonePcs
  <2>2. /\ proc' \in [Actors -> Process]
        /\ proc'[Worker].pc = "job_running"
        /\ proc'[Worker].active = proc[Worker].active
        /\ proc'[Worker].version = proc[Worker].version
        /\ proc'[Worker].job = Head(queue)
        /\ proc'[Worker].status = proc[Worker].status
        /\ \A b \in Actors \ {Worker} : proc'[b] = proc[b]
    BY <1>1, <1>8, <2>1, ProcType, WorkerActor DEF Process
  <2>3. futures' \in [Job -> FutureState]
    BY <1>1, <1>8 DEF Good, TypeOK, FutureState
  <2>4. Moved(Worker)
    BY <1>1, <2>1, <2>2, <2>3, WorkerActor DEF TakeJob, jobTables, Moved, Good, Carried, Ordered
  <2> QED
    BY <1>3, <1>5, <1>6, <2>1, <2>2, <2>4, WorkerActor, MoveKept
<1> QED
  BY <1>7, <1>8 DEF TakeJob

\* The job is marked running.
LEMMA MarkJobRunningGood == ASSUME Good, MarkJobRunning PROVE Good'
<1>1. TablesKept /\ UNCHANGED <<files, artifact>>
  BY Busy, WorkerActor, TablesUnchanged DEF MarkJobRunning, tables
<1>2. JobsKept
  BY WorkerJob, JobSaved DEF MarkJobRunning, JobStatus, runner
<1> QED
  BY <1>1, <1>2, WorkerKept DEF MarkJobRunning, runner

\* The step is marked running.
LEMMA MarkStepRunningGood == ASSUME Good, MarkStepRunning PROVE Good'
<1>1. TablesKept /\ UNCHANGED <<files, artifact>>
  BY Busy, WorkerActor, TablesUnchanged DEF MarkStepRunning, tables
<1>2. JobsKept
  BY StepSaved DEF MarkStepRunning, StepStatus, runner
<1> QED
  BY <1>1, <1>2, WorkerKept DEF MarkStepRunning, runner

\* The step is marked complete.
LEMMA CompleteStepGood == ASSUME Good, CompleteStep PROVE Good'
<1>1. TablesKept /\ UNCHANGED <<files, artifact>>
  BY Busy, WorkerActor, TablesUnchanged DEF CompleteStep, tables
<1>2. JobsKept
  BY StepSaved DEF CompleteStep, StepStatus, runner
<1> QED
  BY <1>1, <1>2, WorkerKept DEF CompleteStep, runner, DonePcs

\* The job is marked complete: its version is built.
LEMMA CompleteJobGood == ASSUME Good, CompleteJob PROVE Good'
<1>1. TablesKept /\ UNCHANGED <<files, artifact>>
  BY Busy, WorkerActor, TablesUnchanged DEF CompleteJob, tables
<1>2. Built(jobs[proc[Worker].job].version)
  BY DEF CompleteJob, DonePcs, Good, Promised
<1>3. JobsKept
  BY <1>2, WorkerJob, JobSaved DEF CompleteJob, JobStatus, Finish
<1> QED
  BY <1>1, <1>3, FinishKept, WorkerActor DEF CompleteJob, Good, TypeOK

\* The except branch.

\* mark_failed reads the package.
LEMMA FailReadPackageGood == ASSUME Good, FailReadPackage PROVE Good'
<1>1. package.status # "absent" /\ package.active \in Version /\ Below(package.active)
  BY Busy, WorkerActor DEF FailReadPackage, Good, Carried, Ordered
<1>2. /\ "fail_read_version" \in Pc
      /\ "fail_read_version" \notin VersionPcs \cup OwnerPcs \cup DonePcs
  BY Positions DEF DonePcs
<1>3. /\ proc' \in [Actors -> Process]
      /\ proc'[Worker].pc = "fail_read_version"
      /\ proc'[Worker].active = package.active
      /\ proc'[Worker].version = proc[Worker].version
      /\ proc'[Worker].job = proc[Worker].job
      /\ proc'[Worker].status = proc[Worker].status
      /\ \A b \in Actors \ {Worker} : proc'[b] = proc[b]
  BY <1>1, <1>2, ProcType, WorkerActor DEF FailReadPackage, Process
<1>4. Moved(Worker)
  BY <1>1, <1>2, <1>3, WorkerActor, WorkerJob
  DEF FailReadPackage, jobTables, runner, Moved, Good, TypeOK, Carried, Ordered
<1>5. TablesKept /\ JobsKept
  BY <1>1, TablesUnchanged, JobsUnchanged DEF FailReadPackage, runner
<1> QED
  BY <1>2, <1>3, <1>4, <1>5, WorkerActor, MoveKept DEF FailReadPackage, tables, Good, TypeOK

\* mark_failed reads the active version.
LEMMA FailReadVersionGood == ASSUME Good, FailReadVersion PROVE Good'
<1>1. package.status # "absent" /\ package.active \in Version /\ Below(package.active)
  BY Busy, WorkerActor DEF FailReadVersion, Good, Carried, Ordered
<1>2. /\ "fail_package" \in Pc
      /\ "fail_package" \notin OwnerPcs \cup DonePcs
      /\ proc[Worker].active \in Version
  BY Positions, WorkerActor DEF DonePcs, FailReadVersion, ActivePcs, Good, Carried
<1>3. /\ proc' \in [Actors -> Process]
      /\ proc'[Worker].pc = "fail_package"
      /\ proc'[Worker].active = proc[Worker].active
      /\ proc'[Worker].version = package.active
      /\ proc'[Worker].job = proc[Worker].job
      /\ proc'[Worker].status = proc[Worker].status
      /\ \A b \in Actors \ {Worker} : proc'[b] = proc[b]
  BY <1>1, <1>2, ProcType, WorkerActor DEF FailReadVersion, Process
<1>4. Moved(Worker)
  BY <1>1, <1>2, <1>3, WorkerActor, WorkerJob
  DEF FailReadVersion, jobTables, runner, Moved, Good, TypeOK, Carried, Ordered
<1>5. TablesKept /\ JobsKept
  BY <1>1, TablesUnchanged, JobsUnchanged DEF FailReadVersion, runner
<1> QED
  BY <1>2, <1>3, <1>4, <1>5, WorkerActor, MoveKept DEF FailReadVersion, tables, Good, TypeOK

\* mark_failed writes the package.
LEMMA FailPackageGood == ASSUME Good, FailPackage PROVE Good'
<1>1. /\ proc[Worker].active \in Version /\ Below(proc[Worker].active)
      /\ proc[Worker].version \in Version
  BY Positions, WorkerActor DEF FailPackage, ActivePcs, Good, Carried, Ordered
<1>2. "failed" \in VersionStatus \ {"absent"}
  BY DEF VersionStatus
<1>3. TablesKept
  BY <1>1, <1>2, PackageSaved DEF FailPackage
<1>4. "fail_version" \in Pc /\ "fail_version" \notin OwnerPcs \cup ActivePcs \cup JobPcs \cup DonePcs
  BY Positions DEF ActivePcs, JobPcs, DonePcs
<1>5. JobsKept
  BY JobsUnchanged DEF FailPackage, runner
<1> QED
  BY <1>1, <1>3, <1>4, <1>5, WorkerActor, GotoKept DEF FailPackage, runner, Good, TypeOK

\* mark_failed writes the version.
LEMMA FailVersionGood == ASSUME Good, FailVersion PROVE Good'
<1>1. proc[Worker].pc \in SavePcs /\ "failed" \in VersionStatus
  BY DEF FailVersion, SavePcs, VersionStatus
<1>2. TablesKept
  BY <1>1, WorkerActor, VersionSaved DEF FailVersion
<1>3. JobsKept
  BY JobsUnchanged DEF FailVersion, runner
<1> QED
  BY <1>2, <1>3, WorkerKept DEF FailVersion, runner

\* The step is marked failed.
LEMMA FailStepGood == ASSUME Good, FailStep PROVE Good'
<1>1. TablesKept /\ UNCHANGED <<files, artifact>>
  BY Busy, WorkerActor, TablesUnchanged DEF FailStep, tables
<1>2. JobsKept
  BY StepSaved DEF FailStep, StepStatus, runner
<1> QED
  BY <1>1, <1>2, WorkerKept DEF FailStep, runner

\* The job is marked failed.
LEMMA FailJobGood == ASSUME Good, FailJob PROVE Good'
<1>1. TablesKept /\ UNCHANGED <<files, artifact>>
  BY Busy, WorkerActor, TablesUnchanged DEF FailJob, tables
<1>2. JobsKept
  BY WorkerJob, JobSaved DEF FailJob, JobStatus, Finish
<1> QED
  BY <1>1, <1>2, FinishKept, WorkerActor DEF FailJob, Good, TypeOK

\* The requests.

\* create's second row.
LEMMA CreateVersionGood == ASSUME Good, NEW c \in Clients, CreateVersion(c) PROVE Good'
<1>1. proc[c].pc \in SavePcs /\ "draft" \in VersionStatus
  BY DEF CreateVersion, SavePcs, VersionStatus
<1>2. TablesKept
  BY <1>1, ClientIsNotWorker, VersionSaved DEF CreateVersion
<1>3. JobsKept
  BY JobsUnchanged DEF CreateVersion, Finish
<1> QED
  BY <1>2, <1>3, ClientIsNotWorker, FinishKept DEF CreateVersion, Good, TypeOK

\* submit saves a job for the version it prepared.
LEMMA SaveNewJobGood == ASSUME Good, NEW c \in Clients, SaveNewJob(c) PROVE Good'
<1>1. PICK j \in Job :
          /\ jobs[j].status = "absent"
          /\ jobs' = [jobs EXCEPT ![j] = [status |-> "queued", version |-> proc[c].version]]
          /\ proc' = [proc EXCEPT ![c].pc = "schedule", ![c].job = j]
  BY DEF SaveNewJob, Unused
<1>2. /\ proc[c].version \in Version
      /\ Below(proc[c].version)
      /\ package.status # "absent"
  BY Positions, Busy, ClientIsNotWorker DEF SaveNewJob, Good, Carried, Ordered
<1>3. "schedule" \in Pc /\ "schedule" \notin VersionPcs \cup OwnerPcs \cup ActivePcs \cup DonePcs
  BY Positions DEF ActivePcs, DonePcs
<1>4. TablesKept
  BY <1>2, TablesUnchanged DEF SaveNewJob
<1>5. JobsKept
  <2>1. /\ jobs' \in [Job -> [status : JobStatus, version : Version \cup {0}]]
        /\ jobs'[j].status = "queued" /\ jobs'[j].version = proc[c].version
        /\ \A i \in Job \ {j} : jobs'[i] = jobs[i]
    BY <1>1, <1>2 DEF Good, TypeOK, JobStatus
  <2>2. \A i \in 1..Len(queue) : queue[i] \in Job
    BY DEF Good, TypeOK
  <2> QED
    BY <1>1, <1>2, <2>1, <2>2
    DEF SaveNewJob, runner, JobsKept, Good, TypeOK, Promised, Ordered, CompleteJobsBuilt
<1>6. /\ proc' \in [Actors -> Process]
      /\ proc'[c].pc = "schedule"
      /\ proc'[c].active = proc[c].active
      /\ proc'[c].version = proc[c].version
      /\ proc'[c].job = j
      /\ proc'[c].status = proc[c].status
      /\ \A b \in Actors \ {c} : proc'[b] = proc[b]
  BY <1>1, <1>3, ProcType, ClientIsNotWorker DEF Process
<1>7. jobs'[j].status # "absent"
  BY <1>1 DEF Good, TypeOK
<1>8. Moved(c)
  BY <1>3, <1>6, <1>7, ClientIsNotWorker DEF SaveNewJob, runner, Moved, Good, TypeOK, Carried, Ordered
<1> QED
  BY <1>3, <1>4, <1>5, <1>6, <1>8, ClientIsNotWorker, MoveKept DEF SaveNewJob, tables, Good, TypeOK

\* A scheduled job is a saved one.
LEMMA ScheduleGood == ASSUME Good, NEW c \in Clients, Schedule(c) PROVE Good'
<1>1. /\ proc[c].job \in Job
      /\ jobs[proc[c].job].status # "absent"
      /\ package.status # "absent"
  BY Busy, ClientIsNotWorker DEF Schedule, HasJob, JobPcs, Good, Promised
<1>2. TablesKept /\ UNCHANGED <<files, artifact>>
  BY <1>1, TablesUnchanged DEF Schedule, tables
<1>3. futures' \in [Job -> FutureState]
  BY <1>1 DEF Schedule, runner, Good, TypeOK, FutureState
<1>4. JobsKept
  <2>1. CASE UNCHANGED runner
    BY <2>1, JobsUnchanged DEF Schedule, runner
  <2>2. CASE queue' = Append(queue, proc[c].job)
    <3>1. /\ queue' \in Seq(Job)
          /\ Len(queue') = Len(queue) + 1
          /\ Len(queue) \in Nat
          /\ \A i \in 1..Len(queue) : queue'[i] = queue[i]
          /\ queue'[Len(queue) + 1] = proc[c].job
      BY <1>1, <2>2 DEF Good, TypeOK
    <3>2. \A i \in 1..Len(queue') : jobs[queue'[i]].status # "absent"
      <4> SUFFICES ASSUME NEW i \in 1..Len(queue') PROVE jobs[queue'[i]].status # "absent"
        OBVIOUS
      <4>1. CASE i = Len(queue) + 1
        BY <1>1, <3>1, <4>1
      <4>2. CASE i \in 1..Len(queue)
        BY <3>1, <4>2 DEF Good, Promised
      <4> QED
        BY <3>1, <4>1, <4>2
    <3> QED
      BY <3>1, <3>2
      DEF Schedule, jobTables, JobsKept, Good, TypeOK, Promised, Ordered, CompleteJobsBuilt
  <2> QED
    BY <2>1, <2>2 DEF Schedule
<1> QED
  BY <1>2, <1>3, <1>4, ClientIsNotWorker, StopKept DEF Schedule, Good, TypeOK

\* The future is cancelled or not.
LEMMA CancelFutureGood == ASSUME Good, NEW c \in Clients, CancelFuture(c) PROVE Good'
<1>1. /\ package.status # "absent"
      /\ proc[c].job \in Job
      /\ jobs[proc[c].job].status # "absent"
  BY Busy, ClientIsNotWorker DEF CancelFuture, HasJob, JobPcs, Good, Promised
<1>2. TablesKept /\ JobsKept /\ UNCHANGED <<files, artifact>> /\ mishaps' \in 0..MaxMishap
  BY <1>1, TablesUnchanged, JobsUnchanged DEF CancelFuture, tables, Good, TypeOK
<1>3. futures' \in [Job -> FutureState]
  BY <1>1 DEF CancelFuture, Good, TypeOK, FutureState
<1>4. CASE Goto(c, "save_cancelled")
  <2>1. /\ "save_cancelled" \in Pc
        /\ "save_cancelled" \in JobPcs
        /\ "save_cancelled" \notin VersionPcs \cup OwnerPcs \cup ActivePcs \cup DonePcs
    BY Positions DEF ActivePcs, DonePcs, JobPcs
  <2>2. /\ proc' \in [Actors -> Process]
        /\ proc'[c].pc = "save_cancelled"
        /\ proc'[c].active = proc[c].active
        /\ proc'[c].version = proc[c].version
        /\ proc'[c].job = proc[c].job
        /\ proc'[c].status = proc[c].status
        /\ \A b \in Actors \ {c} : proc'[b] = proc[b]
    BY <1>4, <2>1, GotoEffect, ProcType, ClientIsNotWorker
  <2>3. Moved(c)
    BY <1>1, <1>3, <2>1, <2>2, ClientIsNotWorker
    DEF CancelFuture, jobTables, Moved, Good, Carried, Ordered
  <2> QED
    BY <1>2, <2>1, <2>2, <2>3, ClientIsNotWorker, MoveKept
<1>5. CASE proc' = [proc EXCEPT ![c] = Idle]
  BY <1>2, <1>3, <1>5, ClientIsNotWorker, StopKept
<1> QED
  BY <1>4, <1>5 DEF CancelFuture

\* The cancelled job is saved.
LEMMA SaveCancelledGood == ASSUME Good, NEW c \in Clients, SaveCancelled(c) PROVE Good'
<1>1. /\ package.status # "absent"
      /\ proc[c].job \in Job
      /\ jobs[proc[c].job].status # "absent"
  BY Busy, ClientIsNotWorker DEF SaveCancelled, HasJob, JobPcs, Good, Promised
<1>2. TablesKept /\ UNCHANGED <<files, artifact>>
  BY <1>1, TablesUnchanged DEF SaveCancelled, tables
<1>3. JobsKept
  BY <1>1, JobSaved DEF SaveCancelled, JobStatus, Finish
<1> QED
  BY <1>2, <1>3, ClientIsNotWorker, FinishKept DEF SaveCancelled, Good, TypeOK

\* validate saves its report.
LEMMA SaveValidationGood == ASSUME Good, NEW c \in Clients, SaveValidation(c) PROVE Good'
<1>1. package.status # "absent" /\ proc[c].version \in Version
  BY Positions, Busy, ClientIsNotWorker DEF SaveValidation, Good, Carried
<1>2. report' \in [Version -> {"absent", "passed", "failed"}]
  <2>1. PICK source \in Sources :
            report' = [report EXCEPT ![proc[c].version] =
                CASE source = "valid" -> "passed"
                  [] source = "invalid" -> "failed"
                  [] source = "unavailable" -> @]
    BY DEF SaveValidation
  <2>2. source \in {"valid", "invalid", "unavailable"}
    BY InputsAssumption
  <2> QED
    BY <1>1, <2>1, <2>2 DEF Good, TypeOK
<1>3. TablesKept
  BY <1>1, <1>2, VersionsUnchanged
  DEF SaveValidation, TablesKept, Good, TypeOK, Carried, Ordered, CompletePackageBuilt, Built
<1>4. JobsKept
  BY JobsUnchanged DEF SaveValidation, Finish
<1> QED
  BY <1>3, <1>4, ClientIsNotWorker, FinishKept DEF SaveValidation, Good, TypeOK

\* Mishaps.

\* A mishap is within the bound.
LEMMA MishapCounted == ASSUME Good, NEW kind, Mishap(kind) PROVE mishaps' \in 0..MaxMishap
BY BoundsAssumption DEF Mishap, Good, TypeOK

\* A call raises.
LEMMA FaultGood == ASSUME Good, NEW a \in Actors, Fault(a) PROVE Good'
BY MishapCounted, RaiseKept DEF Fault

\* An export is killed.
LEMMA KillExportGood == ASSUME Good, NEW x \in Exports, KillExport(x) PROVE Good'
<1>1. x \in Actors /\ x # Worker
  BY ActorsAssumption DEF Actors
<1>2. package.status # "absent"
  BY <1>1, Busy DEF KillExport
<1>3. TablesKept /\ JobsKept /\ UNCHANGED <<files, artifact>>
  BY <1>2, TablesUnchanged, JobsUnchanged DEF KillExport, tables, runner
<1>4. futures' \in [Job -> FutureState] /\ mishaps' \in 0..MaxMishap
  BY MishapCounted DEF KillExport, runner, Good, TypeOK
<1> QED
  BY <1>1, <1>3, <1>4, StopKept DEF KillExport

\* There are finitely many incomplete jobs.
LEMMA IncompleteFinite == Cardinality(IncompleteJobs) \in Nat
<1>1. IsFiniteSet(Job)
  BY BoundsAssumption, FS_Interval DEF Job
<1>2. IsFiniteSet(IncompleteJobs)
  BY <1>1, FS_Subset DEF IncompleteJobs
<1> QED
  BY <1>2, FS_CardinalityType

\* The restart keeps the tables and the exports; the queue holds saved jobs.
LEMMA CrashRestartGood == ASSUME Good, CrashRestart PROVE Good'
<1>1. /\ package' = package /\ versions' = versions /\ files' = files
      /\ report' = report /\ artifact' = artifact /\ jobs' = jobs /\ steps' = steps
  BY DEF CrashRestart, tables, jobTables
<1>2. /\ proc' \in [Actors -> Process]
      /\ \A a \in Actors : proc'[a] \in {proc[a], Idle}
      /\ proc'[Worker] = Idle
  BY ProcType, IdleType, WorkerActor, ActorsAssumption DEF CrashRestart
<1>3. \A a \in Actors : \/ proc'[a] = proc[a]
                        \/ /\ proc'[a].pc = "idle" /\ proc'[a].active = 0
                           /\ proc'[a].version = 0 /\ proc'[a].status = "absent"
  BY <1>2, IdleFields
<1>4. "idle" \notin VersionPcs \cup ActivePcs \cup JobPcs \cup OwnerPcs \cup ListedPcs \cup DonePcs
  BY Positions DEF ActivePcs, JobPcs, ListedPcs, DonePcs
<1>5. Cardinality(IncompleteJobs) \in Nat
  BY IncompleteFinite
<1>6. /\ queue' \in Seq(Job)
      /\ \A i \in 1..Len(queue') : jobs[queue'[i]].status # "absent"
      /\ (\A j \in Job : jobs[j].status = "absent") => queue' = <<>>
  <2>1. PICK q \in [1..Cardinality(IncompleteJobs) -> IncompleteJobs] : queue' = q
    BY DEF CrashRestart
  <2>2. IncompleteJobs \subseteq Job /\ \A j \in IncompleteJobs : jobs[j].status # "absent"
    BY DEF IncompleteJobs
  <2>3. q \in Seq(Job) /\ Len(q) = Cardinality(IncompleteJobs)
    BY <1>5, <2>2
  <2>4. (\A j \in Job : jobs[j].status = "absent") => Cardinality(IncompleteJobs) = 0
    BY FS_EmptySet DEF IncompleteJobs
  <2> QED
    BY <2>1, <2>2, <2>3, <2>4
<1>7. TypeOK'
  <2>1. futures' \in [Job -> FutureState]
    BY DEF CrashRestart, FutureState
  <2>2. mishaps' \in 0..MaxMishap
    BY MishapCounted DEF CrashRestart
  <2> QED
    BY <1>1, <1>2, <1>6, <2>1, <2>2 DEF Good, TypeOK
<1>8. NothingBeforePackage'
  BY <1>1, <1>3, <1>6 DEF Good, NothingBeforePackage
<1>9. Carried' /\ Owned'
  BY <1>1, <1>3, <1>4 DEF Good, Carried, Owned
<1>10. CompleteVersionsBuilt' /\ CompletePackageBuilt' /\ CompleteJobsBuilt' /\ EarlierVersionsBuilt'
  BY <1>1 DEF Good, Promised, Ordered, CompleteVersionsBuilt, CompletePackageBuilt,
              CompleteJobsBuilt, EarlierVersionsBuilt, Built
<1>11. Ordered'
  <2>1. \A a \in Actors : (Below(proc[a].active) /\ Below(proc[a].version))'
    BY <1>1, <1>3 DEF Good, Ordered, Below, Built
  <2>2. Below(package.active)' /\ \A j \in Job : Below(jobs[j].version)'
    BY <1>1 DEF Good, Ordered, Below, Built
  <2> QED
    BY <1>10, <2>1, <2>2 DEF Ordered
<1>12. Promised'
  <2>1. proc'[Worker].pc = "idle"
    BY <1>2, IdleFields
  <2>2. \A a \in Actors : HasJob(a)' => HasJob(a) /\ proc'[a] = proc[a]
    BY <1>3, <1>4, <2>1 DEF HasJob
  <2> QED
    BY <1>1, <1>4, <1>6, <1>10, <2>1, <2>2 DEF Good, Promised
<1> QED
  BY <1>7, <1>8, <1>9, <1>10, <1>11, <1>12 DEF Good

-----------------------------------------------------------------------------
\* The invariant.

\* Good is kept by every step.
LEMMA GoodStep == Good /\ [Next]_vars => Good'
<1> SUFFICES ASSUME Good, [Next]_vars PROVE Good'
  OBVIOUS
<1>1. ASSUME NEW a \in Actors, Build(a) PROVE Good'
  BY <1>1, ReadPackageGood, ReadActiveGood, ReadVersionGood, VersionNotFoundGood, CheckVersionGood,
     SaveNewVersionGood, ActivateVersionGood, MarkPackageBuildingGood, MarkVersionBuildingGood,
     AssembleGood, MoveArtifactGood, ReplaceFilesGood, SaveReportGood, CompleteVersionGood,
     CompletePackageGood DEF Build, Prepare
<1>2. ASSUME NEW c \in Clients, Request(c) PROVE Good'
  BY <1>2, ClientIsNotWorker, CreatePackageGood, BeginCancelGood, BeginValidateGood, ReadPackageGood,
     CheckVersionGood, CreateVersionGood, ReadActiveGood, ReadVersionGood, VersionNotFoundGood,
     SaveNewVersionGood, ActivateVersionGood, SaveNewJobGood, ScheduleGood, CancelFutureGood,
     SaveCancelledGood, SaveValidationGood DEF Request, Answer
<1>3. ASSUME RunJob PROVE Good'
  BY <1>1, <1>3, WorkerActor, TakeJobGood, MarkJobRunningGood, MarkStepRunningGood, CompleteStepGood,
     CompleteJobGood, FailReadPackageGood, FailReadVersionGood, FailPackageGood, FailVersionGood,
     FailStepGood, FailJobGood DEF RunJob
<1>4. ASSUME NEW x \in Exports, Build(x) \/ KillExport(x) PROVE Good'
  BY <1>1, <1>4, KillExportGood DEF Actors
<1>5. CASE UNCHANGED vars
  BY <1>5 DEF vars, tables, jobTables, runner, Good, TypeOK, NothingBeforePackage, Carried, Owned,
              CompleteVersionsBuilt, CompletePackageBuilt, Ordered, Promised, HasJob, Below, Built,
              CompleteJobsBuilt, EarlierVersionsBuilt
<1> QED
  BY <1>2, <1>3, <1>4, <1>5, FaultGood, CrashRestartGood DEF Next

\* Every reachable state of every instance satisfies the inductive invariant.
THEOREM Invariance == Spec => []Good
<1>1. Init => Good
  BY GoodInit
<1>2. Good /\ [Next]_vars => Good'
  BY GoodStep
<1> QED
  BY <1>1, <1>2, PTL DEF Spec

-----------------------------------------------------------------------------
\* The theorems.

\* Type correctness.
THEOREM TypeCorrect == Spec => []TypeOK
<1>1. Good => TypeOK
  BY DEF Good
<1> QED
  BY <1>1, Invariance, PTL

\* A version marked complete has its directory in place and the file rows of the
\* build that moved it there, whoever else builds, crashes or fails meanwhile.
THEOREM CompleteVersionsAreBuilt == Spec => []CompleteVersionsBuilt
<1>1. Good => CompleteVersionsBuilt
  BY DEF Good
<1> QED
  BY <1>1, Invariance, PTL

\* A version exists only above versions that were built.
THEOREM NoVersionIsSkipped == Spec => []EarlierVersionsBuilt
<1>1. Good => EarlierVersionsBuilt
  BY DEF Good, Ordered
<1> QED
  BY <1>1, Invariance, PTL

\* A package marked complete has an active version that was built.
THEOREM CompletePackageIsBuilt == Spec => []CompletePackageBuilt
<1>1. Good => CompletePackageBuilt
  BY DEF Good
<1> QED
  BY <1>1, Invariance, PTL

\* A job marked complete has delivered the version it was saved for.
THEOREM CompleteJobsAreBuilt == Spec => []CompleteJobsBuilt
<1>1. Good => CompleteJobsBuilt
  BY DEF Good, Promised
<1> QED
  BY <1>1, Invariance, PTL

-----------------------------------------------------------------------------
\* The build implements PackageReleases.

Released == [v \in Version |-> IF Built(v) THEN files[v] ELSE NoOne]

\* No other step than these two changes the directories or the file rows.
LEMMA FilesAndArtifacts ==
    ASSUME Next
    PROVE  \/ \E a \in Exports \cup {Worker} : MoveArtifact(a) \/ ReplaceFiles(a)
           \/ UNCHANGED <<files, artifact>>
<1>1. ASSUME NEW a \in Exports \cup {Worker}, Build(a)
      PROVE  MoveArtifact(a) \/ ReplaceFiles(a) \/ UNCHANGED <<files, artifact>>
  BY <1>1 DEF Build, Prepare, ReadPackage, ReadActive, ReadVersion, VersionNotFound, CheckVersion,
              SaveNewVersion, ActivateVersion, MarkPackageBuilding, MarkVersionBuilding, Assemble,
              SaveReport, CompleteVersion, CompletePackage, tables
<1>2. ASSUME NEW c \in Clients, Request(c) PROVE UNCHANGED <<files, artifact>>
  BY <1>2 DEF Request, Answer, CreatePackage, BeginCancel, BeginValidate, ReadPackage, CheckVersion,
              CreateVersion, ReadActive, ReadVersion, VersionNotFound, SaveNewVersion,
              ActivateVersion, SaveNewJob, Schedule, CancelFuture, SaveCancelled, SaveValidation, tables
<1>3. ASSUME RunJob, ~Build(Worker) PROVE UNCHANGED <<files, artifact>>
  BY <1>3 DEF RunJob, TakeJob, MarkJobRunning, MarkStepRunning, CompleteStep, CompleteJob,
              FailReadPackage, FailReadVersion, FailPackage, FailVersion, FailStep, FailJob, tables
<1>4. ASSUME NEW a, Fault(a) \/ CrashRestart \/ KillExport(a) PROVE UNCHANGED <<files, artifact>>
  BY <1>4 DEF Fault, CrashRestart, KillExport, tables
<1> QED
  BY <1>1, <1>2, <1>3, <1>4 DEF Next, RunJob

\* The first state: nothing is released.
LEMMA ReleasesInit == Init => Releases!Init
<1> SUFFICES ASSUME Init PROVE Releases!Init
  OBVIOUS
<1>1. \A v \in Version : ~Built(v)
  BY DEF Init, Built
<1> QED
  BY <1>1 DEF Releases!Init, Version, Releases!Version

\* ReplaceFiles releases the version unless it had been released by the same build;
\* MoveArtifact and every other step release nothing.
LEMMA ReleasesStep == Good /\ Next => [Releases!Next]_Released
<1> SUFFICES ASSUME Good, Next PROVE [Releases!Next]_Released
  OBVIOUS
<1>1. CASE UNCHANGED <<files, artifact>>
  BY <1>1 DEF Released, Built
<1>2. ASSUME NEW a \in Exports \cup {Worker}, MoveArtifact(a) PROVE Released' = Released
  <2> DEFINE v == proc[a].version
  <2>1. a \in Actors /\ v \in Version
    BY <1>2, Positions DEF MoveArtifact, Actors, Good, Carried
  <2>2. UNCHANGED files
    BY <1>2 DEF MoveArtifact
  <2>3. CASE UNCHANGED artifact
    BY <2>2, <2>3 DEF Released, Built
  <2>4. CASE artifact[v] = NoOne /\ artifact' = [artifact EXCEPT ![v] = a]
    <3>1. files[v] = NoOne /\ a # NoOne
      BY <2>1, <2>4, ActorsAssumption DEF Good, Owned
    <3>2. artifact'[v] = a /\ \A u \in Version \ {v} : artifact'[u] = artifact[u]
      BY <2>1, <2>4 DEF Good, TypeOK
    <3>3. \A u \in Version : (IF Built(u) THEN files[u] ELSE NoOne)' = (IF Built(u) THEN files[u] ELSE NoOne)
      BY <2>2, <2>4, <3>1, <3>2 DEF Built
    <3> QED
      BY <3>3 DEF Released
  <2> QED
    BY <1>2, <2>3, <2>4 DEF MoveArtifact
<1>3. ASSUME NEW a \in Exports \cup {Worker}, ReplaceFiles(a) PROVE [Releases!Next]_Released
  <2> DEFINE v == proc[a].version
  <2>1. /\ a \in Actors /\ a # NoOne
        /\ v \in Version
        /\ artifact[v] = a
        /\ Below(v)
    BY <1>3, Positions, ActorsAssumption
    DEF ReplaceFiles, OwnerPcs, Actors, Good, Carried, Owned, Ordered
  <2>2. /\ UNCHANGED artifact
        /\ files'[v] = a
        /\ \A u \in Version \ {v} : files'[u] = files[u]
    BY <1>3, <2>1 DEF ReplaceFiles, Good, TypeOK
  <2>3. Released' = [Released EXCEPT ![v] = a]
    <3>1. \A u \in Version : (IF Built(u) THEN files[u] ELSE NoOne)' =
                IF u = v THEN a ELSE IF Built(u) THEN files[u] ELSE NoOne
      BY <2>1, <2>2 DEF Built
    <3> QED
      BY <2>1, <3>1 DEF Released
  <2>4. CASE Built(v)
    <3>1. Released[v] = a
      BY <2>1, <2>4 DEF Released, Built
    <3> QED
      BY <2>3, <3>1 DEF Released
  <2>5. CASE ~Built(v)
    <3>1. Released[v] = NoOne
      BY <2>1, <2>5 DEF Released
    <3>2. \A u \in 1..(v - 1) : u \in Version /\ Released[u] # NoOne
      BY <2>1, BoundsAssumption DEF Below, Built, Released, Version
    <3>3. Releases!Release(v, a)
      BY <2>3, <3>1, <3>2 DEF Releases!Release, Released
    <3> QED
      BY <2>1, <3>3 DEF Releases!Next, Releases!Version, Version
  <2> QED
    BY <2>4, <2>5
<1> QED
  BY <1>1, <1>2, <1>3, FilesAndArtifacts

\* The build is an implementation of the release history: versions are released once
\* and in order, and a released version is never withdrawn or replaced.
THEOREM BuildReleasesInOrder == Spec => ReleasesInOrder
<1>1. Init => Releases!Init
  BY ReleasesInit
<1>2. Good /\ [Next]_vars => [Releases!Next]_Released
  <2>1. UNCHANGED vars => UNCHANGED Released
    BY DEF vars, tables, Released, Built
  <2> QED
    BY <2>1, ReleasesStep
<1> QED
  BY <1>1, <1>2, Invariance, PTL DEF Spec, ReleasesInOrder, Releases!Spec, Released

-----------------------------------------------------------------------------
\* Cancelled jobs.  A second inductive invariant, of the jobs, their futures and
\* the work queue: what the rows say of a cancelled job alone does not tell why no
\* thread that is on its way writes the row again.

\* A job that is not saved has no future; that of a cancelled job will not run.
Futures ==
    \A j \in Job :
        /\ jobs[j].status = "absent" => futures[j] = "none"
        /\ jobs[j].status = "cancelled" => futures[j] \in {"none", "cancelled"}

\* A job is scheduled by the thread that saved it; it is saved as cancelled by a
\* thread that cancelled its future; the worker's job is the one whose future runs.
InHand ==
    /\ \A a \in Actors :
           /\ proc[a].pc \in {"schedule", "save_cancelled"} => a \in Clients
           /\ proc[a].pc = "schedule" =>
                  futures[proc[a].job] = "none" /\ jobs[proc[a].job].status = "queued"
           /\ proc[a].pc = "save_cancelled" => futures[proc[a].job] = "cancelled"
    /\ \A a, b \in Actors :
           proc[a].pc = "schedule" /\ proc[b].pc = "schedule" /\ proc[a].job = proc[b].job
               => a = b
    /\ IF proc[Worker].pc = "idle" THEN proc[Worker].job = 0
                                   ELSE futures[proc[Worker].job] = "running"

\* A work item is queued once, and its future has not run.
WorkItems ==
    /\ \A i \in 1..Len(queue) : futures[queue[i]] \in {"pending", "cancelled"}
    /\ \A i, k \in 1..Len(queue) : queue[i] = queue[k] => i = k

Cancellations == Futures /\ InHand /\ WorkItems

\* A step that goes on in the code, the worker with the same job, outside the runner.
Onward(a) ==
    /\ UNCHANGED runner
    /\ \A b \in Actors \ {a} : proc'[b] = proc[b]
    /\ proc'[a].pc \notin {"idle", "schedule", "save_cancelled"}
    /\ a = Worker => proc[a].pc # "idle" /\ proc'[a].job = proc[a].job

\* A step that ends a request, an export or a job.
Ends(a) == Finish(a) /\ (a = Worker => proc[a].pc # "idle")

\* What a step may write of the jobs: the worker its own, a thread that has cancelled
\* a future the row of that job.
JobsWritten(a) ==
    \A j \in Job :
        \/ jobs'[j] = jobs[j]
        \/ /\ a = Worker /\ j = proc[a].job /\ proc[a].pc # "idle"
           /\ jobs'[j].status \notin {"absent", "cancelled"}
        \/ jobs'[j] = [jobs[j] EXCEPT !.status = "cancelled"] /\ futures[j] = "cancelled"

\* Such a step, when it goes on, preserves the invariant.
LEMMA OnwardCancellations ==
    ASSUME Good, Good', Cancellations, NEW a \in Actors, Onward(a), JobsWritten(a)
    PROVE  Cancellations'
<1>1. futures' = futures /\ queue' = queue
  BY DEF Onward, runner
<1>2. a = Worker => futures[proc[a].job] = "running"
  BY DEF Onward, Cancellations, InHand
<1>3. Futures'
  BY <1>1, <1>2 DEF Cancellations, Futures, JobsWritten, Good, TypeOK
<1>4. InHand'
  <2>1. ASSUME NEW b \in Actors, proc'[b].pc = "schedule"
        PROVE  /\ proc'[b] = proc[b]
               /\ futures[proc[b].job] = "none" /\ jobs'[proc[b].job].status = "queued"
    <3>1. proc'[b] = proc[b]
      BY <2>1 DEF Onward
    <3>2. /\ proc[b].job \in Job
          /\ futures[proc[b].job] = "none" /\ jobs[proc[b].job].status = "queued"
      BY <2>1, <3>1 DEF Cancellations, InHand, Good, Promised, HasJob, JobPcs
    <3> QED
      BY <1>2, <3>1, <3>2 DEF JobsWritten
  <2>2. ASSUME NEW b \in Actors, proc'[b].pc = "save_cancelled"
        PROVE  futures[proc'[b].job] = "cancelled"
    BY <2>2 DEF Onward, Cancellations, InHand
  <2>3. IF proc'[Worker].pc = "idle" THEN proc'[Worker].job = 0
                                     ELSE futures[proc'[Worker].job] = "running"
    BY WorkerActor DEF Onward, Cancellations, InHand
  <2>4. \A b \in Actors : proc'[b].pc \in {"schedule", "save_cancelled"} => proc'[b] = proc[b]
    BY DEF Onward
  <2> QED
    BY <1>1, <2>1, <2>2, <2>3, <2>4 DEF Cancellations, InHand
<1>5. WorkItems'
  BY <1>1 DEF Cancellations, WorkItems
<1> QED
  BY <1>3, <1>4, <1>5 DEF Cancellations

\* The same of a step that ends.
LEMMA EndCancellations ==
    ASSUME Good, Good', Cancellations, NEW a \in Actors, Ends(a), JobsWritten(a)
    PROVE  Cancellations'
<1>1. /\ queue' = queue
      /\ proc'[a].pc \in {"idle", "exited"} /\ proc'[a].job = 0
      /\ a = Worker => proc'[a].pc = "idle"
      /\ \A b \in Actors \ {a} : proc'[b] = proc[b]
  BY ActorsAssumption, ProcType DEF Ends, Finish, Idle, Exited
<1>2. a = Worker => proc[a].job \in Job /\ futures[proc[a].job] = "running"
  BY DEF Ends, Cancellations, InHand, Good, Promised, HasJob
<1>3. \A j \in Job : \/ futures'[j] = futures[j]
                     \/ a = Worker /\ j = proc[a].job
  BY <1>2 DEF Ends, Finish, Good, TypeOK
<1>4. a = Worker => /\ jobs[proc[a].job].status \notin {"absent", "cancelled"}
                    /\ jobs'[proc[a].job].status \notin {"absent", "cancelled"}
  BY <1>2 DEF Cancellations, Futures, JobsWritten
<1>5. Futures'
  BY <1>2, <1>3, <1>4 DEF Cancellations, Futures, JobsWritten, Good, TypeOK
<1>6. InHand'
  <2>1. ASSUME NEW b \in Actors, proc'[b].pc = "schedule"
        PROVE  /\ proc'[b] = proc[b]
               /\ futures'[proc[b].job] = "none" /\ jobs'[proc[b].job].status = "queued"
    <3>1. proc'[b] = proc[b]
      BY <1>1, <2>1
    <3>2. /\ proc[b].job \in Job
          /\ futures[proc[b].job] = "none" /\ jobs[proc[b].job].status = "queued"
      BY <2>1, <3>1 DEF Cancellations, InHand, Good, Promised, HasJob, JobPcs
    <3> QED
      BY <1>2, <1>3, <3>1, <3>2 DEF JobsWritten
  <2>2. ASSUME NEW b \in Actors, proc'[b].pc = "save_cancelled"
        PROVE  futures'[proc'[b].job] = "cancelled"
    <3>1. proc'[b] = proc[b]
      BY <1>1, <2>2
    <3>2. proc[b].job \in Job /\ futures[proc[b].job] = "cancelled"
      BY <2>2, <3>1 DEF Cancellations, InHand, Good, Promised, HasJob, JobPcs
    <3> QED
      BY <1>2, <1>3, <3>1, <3>2
  <2>3. IF proc'[Worker].pc = "idle" THEN proc'[Worker].job = 0
                                     ELSE futures'[proc'[Worker].job] = "running"
    <3>1. CASE a = Worker
      BY <1>1, <3>1
    <3>2. CASE a # Worker
      <4>1. futures' = futures
        BY <3>2 DEF Ends, Finish
      <4> QED
        BY <1>1, <3>2, <4>1, WorkerActor DEF Cancellations, InHand
    <3> QED
      BY <3>1, <3>2
  <2>4. \A b \in Actors : proc'[b].pc \in {"schedule", "save_cancelled"} => proc'[b] = proc[b]
    BY <1>1
  <2> QED
    BY <2>1, <2>2, <2>3, <2>4 DEF Cancellations, InHand
<1>7. WorkItems'
  <2>1. \A i \in 1..Len(queue) : queue[i] \in Job
    BY DEF Good, TypeOK
  <2> QED
    BY <1>1, <1>2, <1>3, <2>1 DEF Cancellations, WorkItems
<1> QED
  BY <1>5, <1>6, <1>7 DEF Cancellations

\* A call that raises goes on in the except branch or ends.
LEMMA RaiseMoves ==
    ASSUME Good, NEW a \in Actors, Raise(a), proc[a].pc \notin {"idle", "exited"}
    PROVE  Onward(a) \/ Ends(a)
BY ProcType DEF Raise, Goto, Onward, Ends, Process

\* A step to the next place in the code goes on.
LEMMA GotoMoves ==
    ASSUME Good, NEW a \in Actors, NEW pc \in Pc, Goto(a, pc), UNCHANGED runner,
           pc \notin {"idle", "schedule", "save_cancelled"}, a = Worker => proc[a].pc # "idle"
    PROVE  Onward(a)
BY GotoEffect, ProcType DEF Onward

\* prepare_build and build write no job and schedule none.
LEMMA BuildMoves ==
    ASSUME Good, NEW a \in Actors, Build(a)
    PROVE  UNCHANGED jobs /\ (Onward(a) \/ Ends(a))
<1>1. UNCHANGED jobs
  BY DEF Build, Prepare, ReadPackage, ReadActive, ReadVersion, VersionNotFound, CheckVersion,
         SaveNewVersion, ActivateVersion, MarkPackageBuilding, MarkVersionBuilding, Assemble,
         MoveArtifact, ReplaceFiles, SaveReport, CompleteVersion, CompletePackage, jobTables
<1>2. CASE VersionNotFound(a)
  BY <1>1, <1>2, RaiseMoves DEF VersionNotFound
<1>3. CASE CheckVersion(a)
  <2>1. proc[a].pc \notin {"idle", "exited", "schedule", "save_cancelled"}
    BY <1>3 DEF CheckVersion, SavePcs
  <2>2. CASE proc' = [proc EXCEPT ![a].checked = TRUE] /\ UNCHANGED runner
    <3>1. proc'[a].pc = proc[a].pc /\ proc'[a].job = proc[a].job
      BY <2>2, ProcType DEF Process
    <3> QED
      BY <1>1, <2>1, <2>2, <3>1, ProcType DEF Onward
  <2> QED
    BY <1>1, <1>3, <2>1, <2>2, RaiseMoves DEF CheckVersion
<1>4. CASE Assemble(a) \/ MoveArtifact(a)
  BY <1>1, <1>4, RaiseMoves, GotoMoves, Positions DEF Assemble, MoveArtifact, OwnerPcs
<1>5. CASE CompletePackage(a)
  BY <1>1, <1>5, GotoMoves, Positions DEF CompletePackage, Ends
<1>6. CASE ReadPackage(a) \/ ReadActive(a) \/ ReadVersion(a)
  <2>1. /\ proc'[a].pc \in {"read_active", "read_version", "save_job", "mark_package", "save_new_version"}
        /\ proc'[a].job = proc[a].job
        /\ \A b \in Actors \ {a} : proc'[b] = proc[b]
        /\ UNCHANGED runner
        /\ a = Worker => proc[a].pc # "idle"
    <3>1. CASE ReadPackage(a)
      BY <3>1, ProcType, ActorsAssumption DEF ReadPackage, MayBegin, Process
    <3>2. CASE ReadActive(a)
      BY <3>2, ProcType DEF ReadActive, Process
    <3>3. CASE ReadVersion(a)
      BY <3>3, ProcType DEF ReadVersion, Prepared, Process
    <3> QED
      BY <1>6, <3>1, <3>2, <3>3
  <2> QED
    BY <1>1, <2>1 DEF Onward
<1>7. CASE SaveNewVersion(a) \/ MarkPackageBuilding(a) \/ MarkVersionBuilding(a)
  BY <1>1, <1>7, GotoMoves, Positions DEF SaveNewVersion, MarkPackageBuilding, MarkVersionBuilding
<1>8. CASE ActivateVersion(a)
  BY <1>1, <1>8, GotoMoves, Positions DEF ActivateVersion, Prepared
<1>9. CASE ReplaceFiles(a) \/ SaveReport(a) \/ CompleteVersion(a)
  BY <1>1, <1>9, GotoMoves, Positions DEF ReplaceFiles, SaveReport, CompleteVersion, OwnerPcs
<1> QED
  BY <1>1, <1>2, <1>3, <1>4, <1>5, <1>6, <1>7, <1>8, <1>9 DEF Build, Prepare

\* The worker's other steps write its own job, and go on or end.
LEMMA WorkerMoves ==
    ASSUME Good, \/ MarkJobRunning \/ MarkStepRunning \/ CompleteStep \/ CompleteJob
                 \/ FailReadPackage \/ FailReadVersion \/ FailPackage \/ FailVersion
                 \/ FailStep \/ FailJob
    PROVE  JobsWritten(Worker) /\ (Onward(Worker) \/ Ends(Worker))
<1>1. /\ proc \in [Actors -> Process]
      /\ jobs \in [Job -> [status : JobStatus, version : Version \cup {0}]]
  BY DEF Good, TypeOK
<1>2. CASE MarkJobRunning
  BY <1>1, <1>2, WorkerActor DEF MarkJobRunning, SaveJob, Goto, Onward, JobsWritten, Process
<1>3. CASE CompleteJob \/ FailJob
  BY <1>1, <1>3 DEF CompleteJob, FailJob, SaveJob, Ends, JobsWritten
<1>4. CASE FailReadPackage \/ FailReadVersion
  BY <1>1, <1>4, WorkerActor DEF FailReadPackage, FailReadVersion, jobTables, Onward, JobsWritten, Process
<1>5. CASE MarkStepRunning \/ CompleteStep \/ FailPackage \/ FailVersion \/ FailStep
  BY <1>1, <1>5, WorkerActor
  DEF MarkStepRunning, CompleteStep, FailPackage, FailVersion, FailStep, jobTables, Goto, Onward,
      JobsWritten, Process
<1> QED
  BY <1>2, <1>3, <1>4, <1>5

\* So do the steps of a request that neither schedule a job nor carry one further.
LEMMA RequestMoves ==
    ASSUME Good, Cancellations, NEW c \in Clients,
           \/ CreatePackage(c) \/ CreateVersion(c) \/ BeginValidate(c) \/ SaveValidation(c)
           \/ SaveCancelled(c)
    PROVE  JobsWritten(c) /\ (Onward(c) \/ Ends(c))
<1>1. /\ proc \in [Actors -> Process] /\ c \in Actors /\ c # Worker
      /\ jobs \in [Job -> [status : JobStatus, version : Version \cup {0}]]
  BY ClientIsNotWorker DEF Good, TypeOK
<1>2. CASE CreatePackage(c) \/ BeginValidate(c)
  BY <1>1, <1>2 DEF CreatePackage, BeginValidate, jobTables, Onward, JobsWritten, Process
<1>3. CASE CreateVersion(c) \/ SaveValidation(c)
  BY <1>1, <1>3 DEF CreateVersion, SaveValidation, jobTables, Ends, JobsWritten
<1>4. CASE SaveCancelled(c)
  <2>1. futures[proc[c].job] = "cancelled"
    BY <1>1, <1>4 DEF SaveCancelled, Cancellations, InHand
  <2> QED
    BY <1>1, <1>4, <2>1 DEF SaveCancelled, SaveJob, Ends, JobsWritten
<1> QED
  BY <1>2, <1>3, <1>4

\* The worker takes a job whose future is pending, and it is the only work item of it.
LEMMA TakeJobCancellations ==
    ASSUME Good, Good', Cancellations, TakeJob
    PROVE  Cancellations'
<1> DEFINE j == Head(queue)
<1>1. /\ proc[Worker].pc = "idle" /\ queue # <<>> /\ queue' = Tail(queue)
      /\ UNCHANGED jobs
  BY DEF TakeJob, jobTables
<1>2. /\ Len(queue) \in Nat \ {0} /\ j = queue[1]
      /\ Len(queue') = Len(queue) - 1
      /\ \A i \in 1..Len(queue') : queue'[i] = queue[i + 1] /\ queue[i + 1] \in Job
  BY <1>1 DEF Good, TypeOK
<1>3. /\ j \in Job /\ futures[j] \in {"pending", "cancelled"}
      /\ jobs[j].status # "absent"
  BY <1>1, <1>2 DEF Cancellations, WorkItems, Good, TypeOK, Promised
<1> HIDE DEF j
<1>4. \A i, k \in 1..Len(queue') : queue'[i] # j /\ (queue'[i] = queue'[k] => i = k)
  <2>1. \A i \in 1..Len(queue') : i + 1 \in 1..Len(queue) /\ i + 1 # 1 /\ 1 \in 1..Len(queue)
    BY <1>2
  <2>2. \A i, k \in 1..Len(queue) : queue[i] = queue[k] => i = k
    BY DEF Cancellations, WorkItems
  <2>3. ASSUME NEW i \in 1..Len(queue'), NEW k \in 1..Len(queue')
        PROVE  queue'[i] # j /\ (queue'[i] = queue'[k] => i = k)
    <3>1. /\ i \in Nat /\ k \in Nat
          /\ queue'[i] = queue[i + 1] /\ queue'[k] = queue[k + 1]
      BY <1>2
    <3>2. (queue[i + 1] = queue[1] => i + 1 = 1) /\ (queue[i + 1] = queue[k + 1] => i + 1 = k + 1)
      BY <2>1, <2>2
    <3> QED
      BY <1>2, <2>1, <3>1, <3>2
  <2> QED
    BY <2>3
<1>5. CASE futures[j] = "cancelled"
  <2>1. UNCHANGED <<futures, proc>>
    BY <1>5 DEF TakeJob, j
  <2> QED
    BY <1>1, <1>2, <1>4, <2>1 DEF Cancellations, Futures, InHand, WorkItems
<1>6. CASE futures[j] # "cancelled"
  <2>1. /\ futures' = [futures EXCEPT ![j] = "running"]
        /\ proc' = [proc EXCEPT ![Worker].pc = "job_running", ![Worker].job = j]
    BY <1>6 DEF TakeJob, j
  <2>2. /\ futures'[j] = "running" /\ \A i \in Job \ {j} : futures'[i] = futures[i]
        /\ proc'[Worker].pc = "job_running" /\ proc'[Worker].job = j
        /\ \A b \in Actors \ {Worker} : proc'[b] = proc[b]
    BY <1>3, <2>1, WorkerActor DEF Good, TypeOK
  <2>3. Futures'
    BY <1>1, <1>3, <1>6, <2>2 DEF Cancellations, Futures
  <2>4. InHand'
    <3>1. \A b \in Actors : proc'[b].pc \in {"schedule", "save_cancelled"} =>
              /\ proc'[b] = proc[b] /\ proc[b].job \in Job
              /\ futures[proc[b].job] \in {"none", "cancelled"}
      BY <2>2 DEF Cancellations, InHand, Good, Promised, HasJob, JobPcs
    <3>2. \A b \in Actors : proc'[b].pc \in {"schedule", "save_cancelled"} => proc[b].job # j
      BY <1>3, <1>6, <3>1
    <3> QED
      BY <1>1, <2>2, <3>1, <3>2 DEF Cancellations, InHand
  <2>5. WorkItems'
    BY <1>2, <1>4, <2>2 DEF Cancellations, WorkItems
  <2> QED
    BY <2>3, <2>4, <2>5 DEF Cancellations
<1> QED
  BY <1>5, <1>6

\* A job is saved as queued, by the only thread that schedules it.
LEMMA SaveNewJobCancellations ==
    ASSUME Good, Good', Cancellations, NEW c \in Clients, SaveNewJob(c)
    PROVE  Cancellations'
<1>1. PICK j \in Job :
          /\ jobs[j].status = "absent"
          /\ jobs' = [jobs EXCEPT ![j] = [status |-> "queued", version |-> proc[c].version]]
          /\ proc' = [proc EXCEPT ![c].pc = "schedule", ![c].job = j]
  BY DEF SaveNewJob, Unused
<1>2. c \in Actors /\ c # Worker /\ UNCHANGED <<futures, queue>>
  BY ClientIsNotWorker DEF SaveNewJob, runner
<1>3. /\ jobs'[j].status = "queued" /\ \A i \in Job \ {j} : jobs'[i] = jobs[i]
      /\ proc'[c].pc = "schedule" /\ proc'[c].job = j
      /\ \A b \in Actors \ {c} : proc'[b] = proc[b]
  BY <1>1, <1>2 DEF Good, TypeOK
<1>4. futures[j] = "none"
  BY <1>1 DEF Cancellations, Futures
<1>5. Futures'
  BY <1>2, <1>3 DEF Cancellations, Futures
<1>6. InHand'
  <2>1. \A b \in Actors \ {c} : proc[b].pc = "schedule" => proc[b].job \in Job \ {j}
    BY <1>1 DEF Good, Promised, HasJob, JobPcs
  <2> QED
    BY <1>2, <1>3, <1>4, <2>1, WorkerActor DEF Cancellations, InHand
<1>7. WorkItems'
  BY <1>2 DEF Cancellations, WorkItems
<1> QED
  BY <1>5, <1>6, <1>7 DEF Cancellations

\* It is scheduled once: no work item is queued for it yet.
LEMMA ScheduleCancellations ==
    ASSUME Good, Good', Cancellations, NEW c \in Clients, Schedule(c)
    PROVE  Cancellations'
<1> DEFINE j == proc[c].job
<1>1. /\ c \in Actors /\ c # Worker /\ UNCHANGED jobs
      /\ j \in Job /\ futures[j] = "none" /\ jobs[j].status = "queued"
  BY ClientIsNotWorker
  DEF Schedule, jobTables, Cancellations, InHand, Good, Promised, HasJob, JobPcs
<1>2. /\ proc' = [proc EXCEPT ![c] = Idle]
      /\ futures' = [futures EXCEPT ![j] = "pending"] /\ queue' = Append(queue, j)
  BY <1>1 DEF Schedule
<1>3. \A b \in Actors \ {c} : proc[b].pc = "schedule" => proc[b].job # j
  BY <1>1 DEF Schedule, Cancellations, InHand
<1> HIDE DEF j
<1>4. /\ futures'[j] = "pending" /\ \A i \in Job \ {j} : futures'[i] = futures[i]
      /\ proc'[c].pc = "idle" /\ \A b \in Actors \ {c} : proc'[b] = proc[b]
  BY <1>1, <1>2, IdleFields DEF Good, TypeOK
<1>5. /\ Len(queue) \in Nat /\ Len(queue') = Len(queue) + 1
      /\ \A i \in 1..Len(queue) : queue'[i] = queue[i] /\ queue[i] \in Job
      /\ queue'[Len(queue) + 1] = j
  BY <1>1, <1>2 DEF Good, TypeOK
<1>6. \A i \in 1..Len(queue) : queue[i] # j
  BY <1>1 DEF Cancellations, WorkItems
<1>7. Futures'
  BY <1>1, <1>4 DEF Cancellations, Futures
<1>8. InHand'
  <2>1. \A b \in Actors : proc'[b].pc \in {"schedule", "save_cancelled"} =>
            proc'[b] = proc[b] /\ proc[b].job \in Job \ {j}
    BY <1>1, <1>3, <1>4 DEF Cancellations, InHand, Good, Promised, HasJob, JobPcs
  <2>2. proc'[Worker] = proc[Worker] /\ (proc[Worker].pc # "idle" => proc[Worker].job \in Job \ {j})
    BY <1>1, <1>4, WorkerActor DEF Cancellations, InHand, Good, Promised, HasJob
  <2> QED
    BY <1>1, <1>4, <2>1, <2>2 DEF Cancellations, InHand
<1>9. WorkItems'
  <2>1. \A i \in 1..Len(queue') : i = Len(queue) + 1 \/ i \in 1..Len(queue)
    BY <1>5
  <2>2. \A i \in 1..Len(queue') : futures'[queue'[i]] \in {"pending", "cancelled"}
    BY <1>4, <1>5, <1>6, <2>1 DEF Cancellations, WorkItems
  <2>3. \A i, k \in 1..Len(queue') : queue'[i] = queue'[k] => i = k
    BY <1>5, <1>6, <2>1 DEF Cancellations, WorkItems
  <2> QED
    BY <2>2, <2>3 DEF WorkItems
<1> QED
  BY <1>7, <1>8, <1>9 DEF Cancellations

\* A cancellation begins with what its job's row says, and holds nothing yet.
LEMMA BeginCancelCancellations ==
    ASSUME Good, Good', Cancellations, NEW c \in Clients, NEW j \in Job, BeginCancel(c, j)
    PROVE  Cancellations'
<1>1. /\ c \in Actors /\ c # Worker /\ UNCHANGED <<jobs, futures, queue>>
      /\ proc'[c].pc = "cancel_future" /\ \A b \in Actors \ {c} : proc'[b] = proc[b]
  BY ClientIsNotWorker, ProcType DEF BeginCancel, jobTables, runner
<1> QED
  BY <1>1, WorkerActor DEF Cancellations, Futures, InHand, WorkItems

\* A future that is cancelled was pending: it is neither one to be scheduled nor the
\* worker's.
LEMMA CancelFutureCancellations ==
    ASSUME Good, Good', Cancellations, NEW c \in Clients, CancelFuture(c)
    PROVE  Cancellations'
<1> DEFINE j == proc[c].job
<1>1. /\ c \in Actors /\ c # Worker /\ UNCHANGED <<jobs, queue>>
      /\ j \in Job /\ jobs[j].status # "absent"
  BY ClientIsNotWorker DEF CancelFuture, jobTables, Good, Promised, HasJob, JobPcs
<1>2. \/ /\ futures[j] \in {"pending", "cancelled"}
         /\ futures' = [futures EXCEPT ![j] = "cancelled"]
         /\ Goto(c, "save_cancelled")
      \/ proc' = [proc EXCEPT ![c] = Idle] /\ UNCHANGED futures
  BY DEF CancelFuture
<1>3. \A b \in Actors \ {c} : proc'[b] = proc[b]
  BY <1>2, ProcType DEF Goto
<1>4. CASE proc' = [proc EXCEPT ![c] = Idle] /\ UNCHANGED futures
  <2>1. proc'[c].pc = "idle"
    BY <1>1, <1>4, ProcType, IdleFields
  <2> QED
    BY <1>1, <1>3, <1>4, <2>1, WorkerActor DEF Cancellations, Futures, InHand, WorkItems
<1>5. CASE /\ futures[j] \in {"pending", "cancelled"}
           /\ futures' = [futures EXCEPT ![j] = "cancelled"]
           /\ Goto(c, "save_cancelled")
  <2>1. proc'[c].pc = "save_cancelled" /\ proc'[c].job = j
    BY <1>1, <1>5, ProcType DEF Goto
  <2> HIDE DEF j
  <2>2. futures'[j] = "cancelled" /\ \A i \in Job \ {j} : futures'[i] = futures[i]
    BY <1>1, <1>5 DEF Good, TypeOK
  <2>3. Futures'
    BY <1>1, <2>2 DEF Cancellations, Futures
  <2>4. InHand'
    <3>1. \A b \in Actors \ {c} : proc[b].pc \in JobPcs => proc[b].job \in Job
      BY DEF Good, Promised, HasJob
    <3>2. proc[Worker].pc # "idle" => proc[Worker].job \in Job
      BY WorkerActor DEF Good, Promised, HasJob
    <3> QED
      BY <1>1, <1>3, <1>5, <2>1, <2>2, <3>1, <3>2, WorkerActor DEF Cancellations, InHand, JobPcs
  <2>5. WorkItems'
    <3>1. \A i \in 1..Len(queue) : queue[i] \in Job
      BY DEF Good, TypeOK
    <3> QED
      BY <1>1, <2>2, <3>1 DEF Cancellations, WorkItems
  <2> QED
    BY <2>3, <2>4, <2>5 DEF Cancellations
<1> QED
  BY <1>2, <1>4, <1>5

\* After a restart only incomplete jobs are scheduled, each once, and no thread is on
\* its way.
LEMMA CrashRestartCancellations ==
    ASSUME Good, Good', Cancellations, CrashRestart
    PROVE  Cancellations'
<1>1. UNCHANGED jobs
  BY DEF CrashRestart, jobTables
<1>2. \A j \in Job : futures'[j] = IF j \in IncompleteJobs THEN "pending" ELSE "none"
  BY DEF CrashRestart
<1>3. Futures'
  BY <1>1, <1>2 DEF Futures, IncompleteJobs
<1>4. InHand'
  <2>1. \A a \in Actors : \/ proc'[a].pc = "idle" /\ proc'[a].job = 0
                          \/ a \in Exports /\ proc'[a] = proc[a]
    BY DEF CrashRestart, Idle
  <2>2. \A a \in Exports : a \in Actors /\ a \notin Clients /\ a # Worker
    BY ActorsAssumption DEF Actors
  <2> QED
    BY <2>1, <2>2, WorkerActor DEF Cancellations, InHand
<1>5. WorkItems'
  <2>1. PICK q \in [1..Cardinality(IncompleteJobs) -> IncompleteJobs] :
            /\ \A m, n \in DOMAIN q : m < n => q[m] < q[n]
            /\ queue' = q
    BY DEF CrashRestart
  <2>2. Cardinality(IncompleteJobs) \in Nat
    BY IncompleteFinite
  <2>3. Len(q) = Cardinality(IncompleteJobs) /\ DOMAIN q = 1..Len(q)
    BY <2>1, <2>2
  <2>4. \A i \in 1..Len(q) : q[i] \in IncompleteJobs /\ q[i] \in Nat
    BY <2>1, <2>3, BoundsAssumption DEF IncompleteJobs, Job
  <2>5. \A i, k \in 1..Len(q) : i = k \/ i < k \/ k < i
    BY <2>2, <2>3
  <2>6. \A i, k \in 1..Len(q) : q[i] = q[k] => i = k
    BY <2>1, <2>3, <2>4, <2>5
  <2>7. \A i \in 1..Len(q) : futures'[q[i]] = "pending"
    BY <1>2, <2>4 DEF IncompleteJobs
  <2> QED
    BY <2>1, <2>6, <2>7 DEF WorkItems
<1> QED
  BY <1>3, <1>4, <1>5 DEF Cancellations

\* At the start there is no job.
LEMMA CancellationsInit == Init => Cancellations
<1> SUFFICES ASSUME Init PROVE Cancellations
  OBVIOUS
<1>1. \A a \in Actors : proc[a].pc = "idle" /\ proc[a].job = 0
  BY DEF Init, Idle
<1> QED
  BY <1>1, WorkerActor DEF Init, Cancellations, Futures, InHand, WorkItems

\* The steps that write no job.
LEMMA NoJobWritten == ASSUME UNCHANGED jobs, NEW a PROVE JobsWritten(a)
BY DEF JobsWritten

\* Whatever else a step does, the jobs see one of these.
LEMMA StepKinds ==
    ASSUME Good, Cancellations, [Next]_vars
    PROVE  \/ \E a \in Actors : JobsWritten(a) /\ (Onward(a) \/ Ends(a))
           \/ \E c \in Clients : \/ SaveNewJob(c) \/ Schedule(c) \/ CancelFuture(c)
                                 \/ \E j \in Job : BeginCancel(c, j)
           \/ TakeJob
           \/ CrashRestart
           \/ UNCHANGED vars
<1> DEFINE Kind == \E a \in Actors : JobsWritten(a) /\ (Onward(a) \/ Ends(a))
<1>1. ASSUME NEW a \in Actors, Build(a) PROVE Kind
  BY <1>1, BuildMoves, NoJobWritten
<1>2. ASSUME RunJob, ~TakeJob PROVE Kind
  BY <1>1, <1>2, WorkerMoves, WorkerActor DEF RunJob
<1>3. ASSUME NEW c \in Clients, Request(c)
      PROVE  \/ Kind
             \/ SaveNewJob(c) \/ Schedule(c) \/ CancelFuture(c) \/ \E j \in Job : BeginCancel(c, j)
  <2>1. c \in Actors
    BY ClientIsNotWorker
  <2>2. CASE \/ CreatePackage(c) \/ CreateVersion(c) \/ BeginValidate(c) \/ SaveValidation(c)
             \/ SaveCancelled(c)
    BY <2>1, <2>2, RequestMoves
  <2>3. CASE \/ ReadPackage(c) \/ CheckVersion(c) \/ ReadActive(c) \/ ReadVersion(c)
             \/ VersionNotFound(c) \/ SaveNewVersion(c) \/ ActivateVersion(c)
    BY <1>1, <2>1, <2>3 DEF Build, Prepare
  <2> HIDE DEF Kind
  <2> QED
    BY <1>3, <2>2, <2>3 DEF Request, Answer
<1>4. ASSUME NEW x \in Exports, KillExport(x) PROVE Kind
  <2>1. x \in Actors /\ x # Worker /\ UNCHANGED jobs
    BY <1>4, ActorsAssumption DEF Actors, KillExport, jobTables
  <2>2. Onward(x)
    BY <1>4, <2>1, ProcType DEF KillExport, Exited, Onward
  <2> QED
    BY <2>1, <2>2, NoJobWritten
<1>5. ASSUME NEW a \in Actors, Fault(a) PROVE Kind
  BY <1>5, RaiseMoves, NoJobWritten DEF Fault, jobTables
<1> HIDE DEF Kind
<1>6. Exports \subseteq Actors
  BY DEF Actors
<1>7. \/ Kind
      \/ \E c \in Clients : \/ SaveNewJob(c) \/ Schedule(c) \/ CancelFuture(c)
                            \/ \E j \in Job : BeginCancel(c, j)
      \/ TakeJob
      \/ CrashRestart
      \/ UNCHANGED vars
  BY <1>1, <1>2, <1>3, <1>4, <1>5, <1>6 DEF Next
<1> QED
  BY <1>7 DEF Kind

\* Cancellations is kept by every step.
LEMMA CancellationsStep == Good /\ Good' /\ Cancellations /\ [Next]_vars => Cancellations'
<1> SUFFICES ASSUME Good, Good', Cancellations, [Next]_vars PROVE Cancellations'
  OBVIOUS
<1>1. CASE UNCHANGED vars
  BY <1>1 DEF vars, jobTables, runner, Cancellations, Futures, InHand, WorkItems
<1> QED
  BY <1>1, StepKinds, OnwardCancellations, EndCancellations, SaveNewJobCancellations,
     ScheduleCancellations, CancelFutureCancellations, BeginCancelCancellations,
     TakeJobCancellations, CrashRestartCancellations

\* No step writes the row of a cancelled job.
LEMMA CancelledRowKept ==
    ASSUME Good, Cancellations, [Next]_vars, NEW j \in Job, jobs[j].status = "cancelled"
    PROVE  jobs'[j] = jobs[j]
<1>1. ASSUME NEW a \in Actors, JobsWritten(a) PROVE jobs'[j] = jobs[j]
  <2>1. ~(a = Worker /\ j = proc[a].job /\ proc[a].pc # "idle")
    BY DEF Cancellations, Futures, InHand
  <2>2. [jobs[j] EXCEPT !.status = "cancelled"] = jobs[j]
    BY DEF Good, TypeOK
  <2> QED
    BY <1>1, <2>1, <2>2 DEF JobsWritten
<1>2. ASSUME NEW c \in Clients, SaveNewJob(c) PROVE jobs'[j] = jobs[j]
  BY <1>2 DEF SaveNewJob, Unused, Good, TypeOK
<1>3. ASSUME NEW c \in Clients, Schedule(c) \/ CancelFuture(c) \/ \E k \in Job : BeginCancel(c, k)
      PROVE  jobs'[j] = jobs[j]
  BY <1>3 DEF Schedule, CancelFuture, BeginCancel, jobTables
<1>4. CASE TakeJob \/ CrashRestart \/ UNCHANGED vars
  BY <1>4 DEF TakeJob, CrashRestart, vars, jobTables
<1> QED
  BY <1>1, <1>2, <1>3, <1>4, StepKinds

\* Every reachable state satisfies it.
LEMMA CancellationsHold == Spec => []Cancellations
<1>1. Init => Cancellations
  BY CancellationsInit
<1>2. Good /\ Good' /\ Cancellations /\ [Next]_vars => Cancellations'
  BY CancellationsStep
<1> QED
  BY <1>1, <1>2, Invariance, PTL DEF Spec

\* A cancelled job is final: no thread writes its row again and the worker never runs it,
\* whatever was read before the future was cancelled and however often the server restarts.
THEOREM CancelledJobsAreFinal == Spec => CancelledIsFinal
<1>1. ASSUME Good, Cancellations, Cancellations', [Next]_vars
      PROVE  [\A j \in Job : jobs[j].status = "cancelled" =>
                 /\ jobs'[j] = jobs[j]
                 /\ proc'[Worker].job # j]_vars
  <2> SUFFICES ASSUME NEW j \in Job, jobs[j].status = "cancelled"
               PROVE  jobs'[j] = jobs[j] /\ proc'[Worker].job # j
    OBVIOUS
  <2>1. jobs'[j] = jobs[j]
    BY <1>1, CancelledRowKept
  <2>2. proc'[Worker].job # j
    BY <1>1, <2>1, BoundsAssumption DEF Cancellations, Futures, InHand, Job
  <2> QED
    BY <2>1, <2>2
<1> QED
  BY <1>1, Invariance, CancellationsHold, PTL DEF Spec, CancelledIsFinal
=============================================================================
