-------------------------- MODULE MaterialIngestion --------------------------
(***************************************************************************)
(* The materials of one course: MaterialService and IngestionPipeline over *)
(* the material directories, the catalog's rows and the course's vector    *)
(* index.  Uploads run on the event loop, one at a time, and process small *)
(* files there; large files are processed by the single worker thread of   *)
(* MaterialJobRunner; retries, reprocesses, regenerations, deletions and   *)
(* searches run in request threads, which the event loop starts between    *)
(* its uploads.                                                            *)
(*                                                                         *)
(* A step is one call on a store.  Everyone keeps the copy of the record   *)
(* it read at the start of its request and saves changed copies of it.     *)
(* The runner's lock is a plain threading.Lock: a variable naming its      *)
(* owner, and whoever asks for it waits until nobody owns it.              *)
(***************************************************************************)
EXTENDS Naturals, Sequences, FiniteSets

CONSTANTS
    Clients,    \* request threads
    Loop,       \* the event loop, where uploads run
    Worker,     \* the thread of MaterialJobRunner
    None,       \* no content, no module, no owner of the lock
    Contents,   \* what uploaded files contain, told apart by their hash
    Modules,    \* modules of the course files are uploaded to, or to none
    ParseCache, \* settings.enable_parse_cache: look for the same content first
    MaxMaterial,\* bound: materials registered
    Ops,        \* requests clients make
    MaxOp,      \* bound: requests clients make
    Failures,   \* "parse" (MaterialIngestionError), "raise" (any other exception)
    CallbackFirst,  \* scheduling: a job never ends before the thread that
                \* submitted it has registered the future's callback
    MaxKill     \* bound: times the server is killed

ASSUME ActorsAssumption ==
    /\ Loop # Worker
    /\ None \notin Clients \cup {Loop, Worker}
    /\ Clients \cap {Loop, Worker} = {}

ASSUME BoundsAssumption ==
    /\ MaxMaterial \in Nat
    /\ MaxOp \in Nat
    /\ MaxKill \in Nat

ASSUME ChoicesAssumption ==
    /\ None \notin Contents \cup Modules
    /\ ParseCache \in BOOLEAN
    /\ CallbackFirst \in BOOLEAN
    /\ Ops \subseteq {"retry", "reprocess", "regenerate", "delete", "search"}
    /\ Failures \subseteq {"parse", "raise"}

VARIABLES
    rec,        \* the record last saved for each material
    listed,     \* materials with a row in material_records
    files,      \* files in each material's directory, {} if there is none
    catalog,    \* what the catalog's section rows of each material come from
    index,      \* materials in the course's vector index, {} if there is none
    futures,    \* MaterialJobRunner._futures, by material
    queue,      \* the executor's work queue
    lock,       \* owner of MaterialJobRunner._lock
    proc,       \* what each thread is doing
    fate,       \* what has happened to each material besides being processed
    ops,        \* how many requests clients have made
    kills       \* how often the server was killed

stores == <<rec, listed, files, catalog, index>>
runner == <<futures, queue, lock>>
counts == <<ops, kills>>
vars == <<stores, runner, proc, fate, counts>>

Material == 1..MaxMaterial
Actors == Clients \cup {Loop, Worker}
NoFile == [hash |-> None, module |-> None]
NoRecord == [file |-> NoFile, status |-> "failed", stage |-> "failed"]

Free == [op |-> "none", pc |-> "idle", m |-> 0, copy |-> NoRecord, docs |-> {}]

Init ==
    /\ rec = [m \in Material |-> NoRecord]
    /\ listed = {}
    /\ files = [m \in Material |-> {}]
    /\ catalog = [m \in Material |-> "none"]
    /\ index = {}
    /\ futures = [m \in Material |-> "none"]
    /\ queue = <<>>
    /\ lock = None
    /\ proc = [a \in Actors |-> Free]
    /\ fate = [m \in Material |-> {}]
    /\ ops = 0
    /\ kills = 0

-----------------------------------------------------------------------------
\* The store.

\* get_record: the catalog's row, else record.json.
Found(m) == m \in listed \/ "record" \in files[m]
ParsedDocs == {m \in Material : "parsed" \in files[m]}

\* A copy is kept as it will be saved next; only regenerate keeps the status it read.
Extracting(r) == [r EXCEPT !.status = "processing", !.stage = "extracting"]

\* save_record makes the directory, the file and the row, whoever removed them.
Save(m, r) ==
    /\ rec' = [rec EXCEPT ![m] = r]
    /\ files' = [files EXCEPT ![m] = @ \cup {"record"}]
    /\ listed' = listed \cup {m}

GoOn(a, pc) == proc' = [proc EXCEPT ![a].pc = pc]
Return(a) == proc' = [proc EXCEPT ![a] = Free]
Suffers(m, what) == fate' = [fate EXCEPT ![m] = @ \cup {what}]

\* A request is answered; a job returns to the executor.
Leave(a, m) ==
    IF proc[a].op = "job"
    THEN proc' = [proc EXCEPT ![a] = [Free EXCEPT !.op = "job", !.pc = "return", !.m = m]]
    ELSE Return(a)

\* An exception of process_registered_material: logged by the worker, answered by
\* the upload, caught by reprocess_material, which marks the record.
Raise(a, m) ==
    /\ Suffers(m, "failed")
    /\ IF proc[a].op = "reprocess"
       THEN GoOn(a, "mark")
       ELSE Leave(a, m)

-----------------------------------------------------------------------------
\* Uploading.

Fresh == {m \in Material : rec[m] = NoRecord}

\* Mutant: a material without a module is found only by uploads without one.
StoredInModule(k, x) ==
    {m \in listed : rec[m].file.hash = k /\ rec[m].file.module = x}

\* _find_existing_upload looks in the module the file is for, or in the whole course.
Stored(k, x) ==
    {m \in listed : rec[m].file.hash = k /\ (x = None \/ rec[m].file.module = x)}

\* ingest_material answers with a record that has the content, when it looks for one,
\* or registers a new one, to be queued when the file is large and processed here when
\* it is not.
Upload(k, x) ==
    /\ proc[Loop].pc = "idle"
    /\ ParseCache => Stored(k, x) = {}
    /\ \E m \in Fresh, next \in {"enqueue", "read"} :
           /\ \A n \in Fresh : m <= n
           /\ rec' = [rec EXCEPT ![m] = [file |-> [hash |-> k, module |-> x],
                                         status |-> "pending", stage |-> "registered"]]
           /\ files' = [files EXCEPT ![m] = {"record", "source"}]
           /\ listed' = listed \cup {m}
           /\ proc' = [proc EXCEPT ![Loop] = [Free EXCEPT !.op = "upload", !.pc = next,
                                                          !.m = m]]
    /\ UNCHANGED <<catalog, index, runner, fate, counts>>

\* Mutant: the future is named, the job is never handed to the executor.
EnqueueNothing(a) ==
    /\ proc[a].pc \in {"enqueue", "requeue"}
    /\ lock = None
    /\ futures' = [futures EXCEPT ![proc[a].m] = "pending"]
    /\ Return(a)
    /\ UNCHANGED <<stores, queue, lock, fate, counts>>

\* enqueue takes the lock and drops the request when the material's future is not done;
\* nobody sees what happens under it before the future is stored and the job queued.
Enqueue(a) ==
    LET m == proc[a].m IN
    /\ proc[a].pc \in {"enqueue", "requeue"}
    /\ lock = None
    /\ IF futures[m] \in {"pending", "running"}
       THEN Return(a) /\ Suffers(m, "dropped") /\ UNCHANGED runner
       ELSE /\ futures' = [futures EXCEPT ![m] = "pending"]
            /\ queue' = Append(queue, m)
            /\ lock' = a
            /\ GoOn(a, "add_callback")
            /\ UNCHANGED fate
    /\ UNCHANGED <<stores, counts>>

\* Mutant: the lock is not released.
AddCallbackKeepsLock(a) ==
    /\ proc[a].pc = "add_callback"
    /\ Return(a)
    /\ UNCHANGED <<stores, runner, fate, counts>>

\* add_done_callback calls the callback at once, in this thread and with the lock held,
\* when the future is already done: _clear then waits for the lock that its own thread
\* owns, and there is no step from there.
AddCallback(a) ==
    /\ proc[a].pc = "add_callback"
    /\ IF futures[proc[a].m] = "done"
       THEN GoOn(a, "clear_future") /\ UNCHANGED lock
       ELSE Return(a) /\ lock' = None
    /\ UNCHANGED <<stores, futures, queue, fate, counts>>

-----------------------------------------------------------------------------
\* The worker.

\* The future starts running, unless _futures names a younger one queued behind it.
TakeJob ==
    LET m == Head(queue)
        younger == \E i \in 2..Len(queue) : queue[i] = m
    IN
    /\ proc[Worker].pc = "idle"
    /\ queue # <<>>
    /\ queue' = Tail(queue)
    /\ futures' = [futures EXCEPT ![m] = IF @ = "pending" /\ ~younger THEN "running" ELSE @]
    /\ proc' = [proc EXCEPT ![Worker] = [Free EXCEPT !.op = "job", !.pc = "read", !.m = m]]
    /\ UNCHANGED <<stores, lock, fate, counts>>

Unregistered(m) ==
    /\ futures[m] = "running"
    /\ \E a \in Actors : proc[a].pc = "add_callback" /\ proc[a].m = m

\* The future is done; its callback runs here if it is registered by now.
EndJob ==
    LET m == proc[Worker].m IN
    /\ proc[Worker].pc = "return"
    /\ CallbackFirst => ~Unregistered(m)
    /\ IF Unregistered(m) THEN Return(Worker) ELSE GoOn(Worker, "clear_future")
    /\ futures' = [futures EXCEPT ![m] = IF @ = "running" THEN "done" ELSE @]
    /\ UNCHANGED <<stores, queue, lock, fate, counts>>

\* _clear removes the future the material has now, which may be a younger one.
ClearFuture ==
    /\ proc[Worker].pc = "clear_future"
    /\ lock = None
    /\ futures' = [futures EXCEPT ![proc[Worker].m] = "none"]
    /\ Return(Worker)
    /\ UNCHANGED <<stores, queue, lock, fate, counts>>

-----------------------------------------------------------------------------
\* process_registered_material, run by the worker, an upload or a reprocess.

\* A record without its source file is left as it is.
ReadMaterial(a) ==
    LET m == proc[a].m IN
    /\ proc[a].pc = "read"
    /\ \/ /\ Found(m) /\ "source" \in files[m]
          /\ proc' = [proc EXCEPT ![a].pc = "extract", ![a].copy = Extracting(rec[m])]
          /\ UNCHANGED fate
       \/ /\ ~(Found(m) /\ "source" \in files[m])
          /\ Raise(a, m)
    /\ UNCHANGED <<stores, runner, counts>>

SaveExtracting(a) ==
    /\ proc[a].pc = "extract"
    /\ Save(proc[a].m, proc[a].copy)
    /\ GoOn(a, "parse")
    /\ UNCHANGED <<catalog, index, runner, fate, counts>>

\* The parser refuses the file, fails in another way, or returns sections, and the
\* record is saved again.
Parse(a) ==
    LET m == proc[a].m IN
    /\ proc[a].pc = "parse"
    /\ \/ /\ Save(m, proc[a].copy)
          /\ GoOn(a, "files")
          /\ UNCHANGED fate
       \/ /\ "parse" \in Failures
          /\ GoOn(a, "fail")
          /\ UNCHANGED <<rec, files, listed, fate>>
       \/ /\ "raise" \in Failures
          /\ Raise(a, m)
          /\ UNCHANGED <<rec, files, listed>>
    /\ UNCHANGED <<catalog, index, runner, counts>>

\* save_parsed_document: the files, the record, the section and chunk rows.
WriteParsed(a) ==
    /\ proc[a].pc = "files"
    /\ files' = [files EXCEPT ![proc[a].m] = @ \cup {"source", "parsed"}]
    /\ GoOn(a, "record")
    /\ UNCHANGED <<rec, listed, catalog, index, runner, fate, counts>>

SaveCompleted(a) ==
    /\ proc[a].pc = "record"
    /\ Save(proc[a].m, [proc[a].copy EXCEPT !.status = "completed", !.stage = "enriching"])
    /\ GoOn(a, "catalog")
    /\ UNCHANGED <<catalog, index, runner, fate, counts>>

ReplaceSections(a) ==
    /\ proc[a].pc = "catalog"
    /\ catalog' = [catalog EXCEPT ![proc[a].m] = "parsed"]
    /\ GoOn(a, "build")
    /\ UNCHANGED <<rec, listed, files, index, runner, fate, counts>>

\* ensure_study_document(force=True) gives None when parsed.json is gone: the debug
\* report of the pipeline then raises, regenerate_study_material carries on.
BuildStudy(a) ==
    LET m == proc[a].m IN
    /\ proc[a].pc = "build"
    /\ \/ /\ "parsed" \in files[m]
          /\ GoOn(a, "study")
          /\ UNCHANGED fate
       \/ /\ "parsed" \notin files[m]
          /\ IF proc[a].op = "regenerate"
             THEN GoOn(a, "reread") /\ UNCHANGED fate
             ELSE Raise(a, m)
    /\ UNCHANGED <<stores, runner, counts>>

\* Mutant: the study document is written, the catalog keeps the parsed rows.
SaveStudyFile(a) ==
    LET m == proc[a].m IN
    /\ proc[a].pc = "study"
    /\ IF files[m] # {}
       THEN /\ files' = [files EXCEPT ![m] = @ \cup {"study"}]
            /\ GoOn(a, "reread")
            /\ UNCHANGED fate
       ELSE Raise(a, m) /\ UNCHANGED files
    /\ UNCHANGED <<rec, listed, catalog, index, runner, counts>>

\* save_study_document makes no directory: the write fails when it is gone.
SaveStudy(a) ==
    LET m == proc[a].m IN
    /\ proc[a].pc = "study"
    /\ IF files[m] # {}
       THEN /\ files' = [files EXCEPT ![m] = @ \cup {"study"}]
            /\ catalog' = [catalog EXCEPT ![m] = "study"]
            /\ GoOn(a, "reread")
            /\ UNCHANGED fate
       ELSE Raise(a, m) /\ UNCHANGED <<files, catalog>>
    /\ UNCHANGED <<rec, listed, index, runner, counts>>

\* The pipeline falls back on its completed copy, regenerate on the record it read.
RereadRecord(a) ==
    LET m == proc[a].m
        fallback == IF proc[a].op = "regenerate" THEN proc[a].copy
                    ELSE [proc[a].copy EXCEPT !.status = "completed"]
    IN
    /\ proc[a].pc = "reread"
    /\ proc' = [proc EXCEPT ![a].pc = "ready",
                            ![a].copy = IF Found(m) THEN rec[m] ELSE fallback]
    /\ UNCHANGED <<stores, runner, fate, counts>>

\* Mutant: the record is saved as it was read again.
SaveReread(a) ==
    /\ proc[a].pc = "ready"
    /\ Save(proc[a].m, proc[a].copy)
    /\ IF proc[a].op = "regenerate" THEN Return(a)
       ELSE proc' = [proc EXCEPT ![a].pc = "list", ![a].copy = Extracting(@)]
    /\ UNCHANGED <<catalog, index, runner, fate, counts>>

SaveReady(a) ==
    /\ proc[a].pc = "ready"
    /\ Save(proc[a].m, [proc[a].copy EXCEPT !.stage = "ready"])
    /\ IF proc[a].op = "regenerate" THEN Return(a)
       ELSE proc' = [proc EXCEPT ![a].pc = "list", ![a].copy = Extracting(@)]
    /\ UNCHANGED <<catalog, index, runner, fate, counts>>

SaveFailed(a) ==
    LET m == proc[a].m IN
    /\ proc[a].pc = "fail"
    /\ Save(m, [proc[a].copy EXCEPT !.status = "failed", !.stage = "failed"])
    /\ Raise(a, m)
    /\ UNCHANGED <<catalog, index, runner, counts>>

-----------------------------------------------------------------------------
\* refresh_course_index: list the parsed documents, embed them, write the index.

ListDocuments(a) ==
    LET op == proc[a].op IN
    /\ proc[a].pc = "list"
    /\ IF ParsedDocs # {}
       THEN proc' = [proc EXCEPT ![a].pc = "index", ![a].docs = ParsedDocs,
                                    ![a].copy = NoRecord]
       ELSE IF op \in {"delete", "search"} THEN Return(a) ELSE GoOn(a, "fail")
    /\ UNCHANGED <<stores, runner, fate, counts>>

SaveIndex(a) ==
    /\ proc[a].pc = "index"
    /\ index' = proc[a].docs
    /\ Leave(a, proc[a].m)
    /\ UNCHANGED <<rec, listed, files, catalog, runner, fate, counts>>

-----------------------------------------------------------------------------
\* Requests.

\* The event loop starts a request between two uploads; every request on a material
\* first reads its record.
Ask(c, op, m, pc) ==
    /\ proc[Loop].pc = "idle"
    /\ proc[c].pc = "idle"
    /\ op \in Ops
    /\ ops < MaxOp
    /\ ops' = ops + 1
    /\ proc' = [proc EXCEPT ![c] = [Free EXCEPT !.op = op, !.pc = pc, !.m = m,
                    !.copy = IF op \in {"delete", "search"} THEN NoRecord
                             ELSE IF op = "regenerate" THEN rec[m] ELSE Extracting(rec[m])]]

\* Mutant: a retry does not ask whether the record is there.
RetryAnyway(c, m) ==
    /\ rec[m] # NoRecord
    /\ Ask(c, "retry", m, "save_queued")
    /\ UNCHANGED <<stores, runner, fate, kills>>

Retry(c, m) ==
    /\ Found(m)
    /\ Ask(c, "retry", m, "save_queued")
    /\ UNCHANGED <<stores, runner, fate, kills>>

SaveQueued(c) ==
    /\ proc[c].pc = "save_queued"
    /\ Save(proc[c].m, proc[c].copy)
    /\ GoOn(c, "requeue")
    /\ UNCHANGED <<catalog, index, runner, fate, counts>>

Reprocess(c, m) ==
    /\ Found(m)
    /\ Ask(c, "reprocess", m, "clear")
    /\ UNCHANGED <<stores, runner, fate, kills>>

ClearArtifacts(c) ==
    LET m == proc[c].m IN
    /\ proc[c].pc = "clear"
    /\ catalog' = [catalog EXCEPT ![m] = "none"]
    /\ files' = [files EXCEPT ![m] = @ \ {"parsed", "study"}]
    /\ GoOn(c, "save_cleared")
    /\ UNCHANGED <<rec, listed, index, runner, fate, counts>>

\* The route gives no runner, so the material is processed in the request thread.
SaveCleared(c) ==
    /\ proc[c].pc = "save_cleared"
    /\ Save(proc[c].m, proc[c].copy)
    /\ GoOn(c, "read")
    /\ UNCHANGED <<catalog, index, runner, fate, counts>>

MarkFailed(c) ==
    /\ proc[c].pc = "mark"
    /\ Save(proc[c].m, [proc[c].copy EXCEPT !.status = "failed", !.stage = "failed"])
    /\ Return(c)
    /\ UNCHANGED <<catalog, index, runner, fate, counts>>

Regenerate(c, m) ==
    /\ Found(m)
    /\ Ask(c, "regenerate", m, "enrich")
    /\ UNCHANGED <<stores, runner, fate, kills>>

SaveEnriching(c) ==
    /\ proc[c].pc = "enrich"
    /\ Save(proc[c].m, [proc[c].copy EXCEPT !.stage = "enriching"])
    /\ GoOn(c, "build")
    /\ UNCHANGED <<catalog, index, runner, fate, counts>>

\* A deletion removes the rows in one transaction, then the directory.
Delete(c, m) ==
    /\ Found(m)
    /\ files[m] # {}
    /\ Ask(c, "delete", m, "rmtree")
    /\ listed' = listed \ {m}
    /\ catalog' = [catalog EXCEPT ![m] = "none"]
    /\ Suffers(m, "deleted")
    /\ UNCHANGED <<rec, files, index, runner, kills>>

RemoveDirectory(c) ==
    /\ proc[c].pc = "rmtree"
    /\ files' = [files EXCEPT ![proc[c].m] = {}]
    /\ GoOn(c, "remaining")
    /\ UNCHANGED <<rec, listed, catalog, index, runner, fate, counts>>

\* The index is rebuilt from a second listing, or removed when nothing is parsed.
ListRemaining(c) ==
    /\ proc[c].pc = "remaining"
    /\ IF ParsedDocs # {}
       THEN GoOn(c, "list") /\ UNCHANGED index
       ELSE index' = {} /\ Return(c)
    /\ UNCHANGED <<rec, listed, files, catalog, runner, fate, counts>>

\* retrieve rebuilds an index that is missing.
Search(c) ==
    /\ index = {}
    /\ Ask(c, "search", 0, "list")
    /\ UNCHANGED <<stores, runner, fate, kills>>

-----------------------------------------------------------------------------
\* The server is killed: threads, queue and futures are gone, the stores stay, and
\* nothing takes the materials up again when it starts.

Working(a, m) ==
    /\ proc[a].m = m
    /\ proc[a].op \notin {"none", "delete", "search"}
    /\ proc[a].pc \notin {"add_callback", "return", "clear_future"}
InHand(m) == (\E a \in Actors : Working(a, m)) \/ (\E i \in 1..Len(queue) : queue[i] = m)

Kill ==
    /\ kills < MaxKill
    /\ \E a \in Actors : proc[a] # Free
    /\ kills' = kills + 1
    /\ fate' = [m \in Material |-> IF InHand(m) THEN fate[m] \cup {"killed"} ELSE fate[m]]
    /\ futures' = [m \in Material |-> "none"]
    /\ queue' = <<>>
    /\ lock' = None
    /\ proc' = [a \in Actors |-> Free]
    /\ UNCHANGED <<stores, ops>>

Process(a) ==
    \/ ReadMaterial(a) \/ SaveExtracting(a) \/ Parse(a) \/ WriteParsed(a)
    \/ SaveCompleted(a) \/ ReplaceSections(a) \/ BuildStudy(a) \/ SaveStudy(a)
    \/ RereadRecord(a) \/ SaveReady(a) \/ SaveFailed(a)
    \/ ListDocuments(a) \/ SaveIndex(a)

Work == Process(Worker) \/ EndJob \/ ClearFuture

Answer(c) ==
    \/ Process(c) \/ SaveQueued(c) \/ Enqueue(c) \/ AddCallback(c)
    \/ ClearArtifacts(c) \/ SaveCleared(c) \/ MarkFailed(c) \/ SaveEnriching(c)
    \/ RemoveDirectory(c) \/ ListRemaining(c)

Request(c) ==
    \/ Search(c)
    \/ \E m \in Material :
           Retry(c, m) \/ Reprocess(c, m) \/ Regenerate(c, m) \/ Delete(c, m)

Next ==
    \/ \E k \in Contents, x \in Modules \cup {None} : Upload(k, x)
    \/ Enqueue(Loop) \/ AddCallback(Loop) \/ Process(Loop)
    \/ TakeJob \/ Work
    \/ \E c \in Clients : Request(c) \/ Answer(c)
    \/ Kill

Spec == Init /\ [][Next]_vars

\* Threads keep running, and get the lock when it is free: requests are finitely many, so
\* somebody who waits for it meets it free for good.  Nobody has to upload or to ask.
Fairness ==
    /\ WF_vars(TakeJob) /\ WF_vars(Work)
    /\ WF_vars(Enqueue(Loop) \/ AddCallback(Loop) \/ Process(Loop))
    /\ \A c \in Clients : WF_vars(Answer(c))

FairSpec == Spec /\ Fairness

-----------------------------------------------------------------------------
Settled(m) == rec[m].stage \in {"ready", "failed"}

\* With the parse cache on, a content is listed a second time only for another module
\* than the one it was listed for first, or after one of the two was deleted and somebody
\* who still held its record saved it again (_find_existing_upload).
ContentListedOnce ==
    ParseCache =>
        \A m, n \in listed :
            m < n /\ rec[m].file.hash = rec[n].file.hash =>
                \/ rec[n].file.module \notin {None, rec[m].file.module}
                \/ "deleted" \in fate[m] \cup fate[n]

\* A record that is not settled is in somebody's hand, unless its processing raised,
\* was killed, its enqueue was dropped or it was deleted meanwhile.
UnsettledIsInHand ==
    \A m \in listed : Settled(m) \/ InHand(m) \/ fate[m] # {}

\* A ready, completed material that nobody works on and that nothing has happened to
\* has its source, parsed and study files, and its rows come from the study document,
\* whatever retries, reprocesses and regenerations ran beside each other.
ReadyIsStudied ==
    \A m \in listed :
        /\ rec[m].status = "completed"
        /\ rec[m].stage = "ready"
        /\ ~InHand(m)
        /\ fate[m] = {}
        => {"source", "parsed", "study"} \subseteq files[m] /\ catalog[m] = "study"

\* Nobody can save the record of a material again: it is deleted, and whoever works on
\* it has still to read its record first, or is about to leave.
Gone(m) ==
    /\ rec[m] # NoRecord
    /\ ~Found(m)
    /\ \A a \in Actors :
           Working(a, m) =>
               \/ proc[a].pc \in {"enqueue", "requeue"}
               \/ proc[a].pc = "read" /\ proc[a].op # "reprocess"

\* From that point there is no return: jobs that are still queued, or dropped, or taken
\* up later do not bring a deleted material back.
GoneStaysGone == [][\A m \in Material : Gone(m) => Gone(m)']_vars

\* An uploaded material is settled in the end, unless something happened to it.
MaterialsSettle ==
    \A m \in Material :
        m \in listed /\ ~Settled(m) ~> Settled(m) \/ fate[m] # {}

\* Everyone who uploads or asks is answered, whoever else enqueues and whenever jobs end.
RequestsAnswered ==
    \A a \in Clients \cup {Loop} :
        [](proc[a].pc # "idle" => <>(proc[a].pc = "idle"))
=============================================================================
