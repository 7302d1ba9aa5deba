--------------------------- MODULE ImportLifecycle ---------------------------
(***************************************************************************)
(* The life of an import job, from the bytes of an upload to a completed   *)
(* import: services/imports.py (receive), services/import_processing.py    *)
(* (parse), services/matching.py and services/snapshots.py (the two later  *)
(* stages), as run by API upload requests and by the vendor-mail intake.   *)
(*                                                                         *)
(* A worker holds the job as a session-local object (the session is        *)
(* created with expire_on_commit=False): its guards read that copy, which  *)
(* another worker may have made stale, and an UPDATE carries only the      *)
(* columns the worker changed with respect to its copy.  Only a rollback   *)
(* expires the copy.  Rows, match verdicts and snapshots are committed one *)
(* chunk at a time; a chunk stands for up to CHUNK_ROWS source rows, and   *)
(* since every walk goes through the chunks in order a job's staged rows   *)
(* are described by how many chunks have been written.                     *)
(***************************************************************************)
EXTENDS Naturals, FiniteSets

CONSTANTS
    Vendors,
    Contents,         \* the byte contents that may be uploaded
    Sheets,           \* worksheet titles of a workbook
    None,             \* SQL NULL
    MaxJobs,          \* bound: jobs ever created
    Requests,         \* API upload requests
    Intakes,          \* vendor-mail intake sessions
    ProcessOnUpload,  \* settings.import_process_on_upload
    ChunksOf,         \* content -> number of chunks its rows fill
    BadChunkOf,       \* content -> the chunk with an invalid row, 0 if none
    Workbooks,        \* contents that are XLSX files; the others are CSV
    Readable,         \* contents that pass the header and format checks
    MaxCrashes,       \* bound: processes that die
    MaxCloses,        \* bound: jobs an operator closes by hand
    MaxLosses         \* bound: stored objects that disappear

Jobs == 1 .. MaxJobs
Workers == Requests \union Intakes

ASSUME NoneAssumption == None \notin Vendors \union Contents \union Sheets
ASSUME BoundsAssumption ==
    /\ MaxJobs \in Nat
    /\ MaxCrashes \in Nat
    /\ MaxCloses \in Nat
    /\ MaxLosses \in Nat
ASSUME ContentsAssumption ==
    /\ ChunksOf \in [Contents -> Nat]
    /\ BadChunkOf \in [Contents -> Nat]
    /\ Readable \subseteq Contents
    /\ Workbooks \subseteq Contents
    /\ ProcessOnUpload \in BOOLEAN

VARIABLES
    file,      \* import_files: content -> the vendor it was received for
    stored,    \* contents whose retained object exists
    job,       \* import_jobs
    rows,      \* job -> chunks of import_job_rows written
    matched,   \* job -> chunks whose rows carry a verdict
    lines,     \* vendor_products: <<vendor, chunk>> pairs whose lines exist
    snapped,   \* job -> chunks with vendor_inventory_snapshots
    worker,    \* what each worker is doing
    crashes, closes, losses

dbVars == <<file, stored, job, rows, matched, lines, snapped>>
vars == <<file, stored, job, rows, matched, lines, snapped, worker,
          crashes, closes, losses>>

----------------------------------------------------------------------------
(* Types *)

Statuses == {"ABSENT", "PENDING", "RUNNING", "COMPLETED",
             "COMPLETED_WITH_ERRORS", "FAILED"}
Stages == {"NULL", "PARSING", "MATCHING", "SNAPSHOTTING"}
Completed == {"COMPLETED", "COMPLETED_WITH_ERRORS"}

JobRows == [status : Statuses, stage : Stages,
            content : Contents \union {None}, sheet : Sheets \union {None},
            profiled : BOOLEAN, total : Nat, errors : BOOLEAN]

AbsentJob == [status |-> "ABSENT", stage |-> "NULL", content |-> None,
              sheet |-> None, profiled |-> FALSE, total |-> 0,
              errors |-> FALSE]

PCs == {"idle", "insert", "start", "parse", "parsed", "hold", "match",
        "matchWrite", "snapshot", "snapshotWrite", "fail"}

\* view is the session's copy of the job; next the chunk the walk is at; saw
\* what the worker's last read found of it; vendor the upload's vendor.
WorkerStates == [pc : PCs, job : Jobs \union {0}, view : JobRows, next : Nat,
                 saw : {"absent", "present", "stale"},
                 vendor : Vendors \union {None}]

IdleWorker == [pc |-> "idle", job |-> 0, view |-> AbsentJob, next |-> 1,
               saw |-> "absent", vendor |-> None]

TypeOK ==
    /\ file \in [Contents -> Vendors \union {None}]
    /\ stored \subseteq Contents
    /\ job \in [Jobs -> JobRows]
    /\ rows \in [Jobs -> Nat]
    /\ matched \in [Jobs -> Nat]
    /\ lines \subseteq Vendors \X Nat
    /\ snapped \in [Jobs -> Nat]
    /\ worker \in [Workers -> WorkerStates]
    /\ crashes \in 0 .. MaxCrashes
    /\ closes \in 0 .. MaxCloses
    /\ losses \in 0 .. MaxLosses

Init ==
    /\ file = [c \in Contents |-> None]
    /\ stored = {}
    /\ job = [j \in Jobs |-> AbsentJob]
    /\ rows = [j \in Jobs |-> 0]
    /\ matched = [j \in Jobs |-> 0]
    /\ lines = {}
    /\ snapped = [j \in Jobs |-> 0]
    /\ worker = [w \in Workers |-> IdleWorker]
    /\ crashes = 0
    /\ closes = 0
    /\ losses = 0

----------------------------------------------------------------------------
(* Reading and writing the job row *)

\* Not in RETRYABLE_STATUSES: the job occupies its file's slot.
Live(r) == r.status \notin {"ABSENT", "FAILED"}

\* Mutant: a worksheet import is not kept apart from a file-level one.
LiveJobsForSheetOnly(c, s) ==
    {j \in Jobs : Live(job[j]) /\ job[j].content = c /\ job[j].sheet = s}

\* live_job_for_file: the worksheet's job or a file-level one; without a
\* worksheet, any live job of the file.
LiveJobsFor(c, s) ==
    {j \in Jobs : /\ Live(job[j])
                  /\ job[j].content = c
                  /\ s = None \/ job[j].sheet \in {s, None}}

Oldest(j, S) == j \in S /\ \A k \in S : j <= k

\* Writing r to job j would break uq_import_jobs_active_import_file.
SlotTaken(j, r) ==
    /\ Live(r)
    /\ \E k \in Jobs \ {j} : /\ Live(job[k])
                             /\ job[k].content = r.content
                             /\ job[k].sheet = r.sheet

\* The row an UPDATE leaves behind: the columns where new differs from the
\* session's copy old, over whatever the row holds now.
Flushed(r, old, new) ==
    [r EXCEPT
        !.status = IF new.status # old.status THEN new.status ELSE @,
        !.stage = IF new.stage # old.stage THEN new.stage ELSE @,
        !.total = IF new.total # old.total THEN new.total ELSE @,
        !.errors = IF new.errors # old.errors THEN new.errors ELSE @]

My(w) == worker[w].view
MyJob(w) == worker[w].job
At(w, pc) == worker[w].pc = pc

\* Worker w commits new for its job.
Save(w, new) ==
    job' = [job EXCEPT ![MyJob(w)] = Flushed(@, My(w), new)]

Goto(w, pc, view, next) ==
    worker' = [worker EXCEPT ![w] =
                  [@ EXCEPT !.pc = pc, !.view = view, !.next = next]]

Leave(w) == worker' = [worker EXCEPT ![w] = IdleWorker]

\* A rollback: the session's copy is read again when next used.
RollBack(w, pc) ==
    worker' = [worker EXCEPT ![w] = [@ EXCEPT !.pc = pc, !.view = job[MyJob(w)]]]

\* Mutant: a job left at SNAPSHOTTING is not taken up again.
DispatchForgettingSnapshots(w, view) ==
    CASE view.status = "PENDING" -> "start"
      [] view.status = "RUNNING" /\ view.stage = "MATCHING" ->
            IF w \in Intakes /\ view.errors THEN "hold" ELSE "match"
      [] OTHER -> "idle"

\* Mutant: a RUNNING job is taken to be parsed, whatever its stage.
DispatchAnyRunning(w, view) ==
    CASE view.status = "PENDING" -> "start"
      [] view.status = "RUNNING" /\ view.stage # "SNAPSHOTTING" -> "match"
      [] view.status = "RUNNING" /\ view.stage = "SNAPSHOTTING" -> "snapshot"
      [] OTHER -> "idle"

\* Where the caller of the stages goes with the copy it holds: the API route
\* only ever continues its own job, the intake picks up any job it is given.
Dispatch(w, view) ==
    CASE view.status = "PENDING" -> "start"
      [] view.status = "RUNNING" /\ view.stage = "MATCHING" ->
            IF w \in Intakes /\ view.errors THEN "hold" ELSE "match"
      [] view.status = "RUNNING" /\ view.stage = "SNAPSHOTTING" -> "snapshot"
      [] OTHER -> "idle"

Adopt(w, j, view) ==
    LET pc == Dispatch(w, view) IN
    worker' = [worker EXCEPT ![w] =
        IF pc = "idle" THEN IdleWorker
        ELSE [IdleWorker EXCEPT !.pc = pc, !.job = j, !.view = view]]

----------------------------------------------------------------------------
(* Receiving an upload *)

\* _selected_sheet: a worksheet is resolved only for a workbook under an XLSX
\* profile.  The intake's sources always pin a profile.
Uploads == [content : Contents, vendor : Vendors, sheet : Sheets \union {None},
            profiled : BOOLEAN]

Admissible(w, u) ==
    /\ u.sheet # None => u.profiled /\ u.content \in Workbooks
    /\ w \in Intakes => u.profiled

PendingJob(u) ==
    [AbsentJob EXCEPT !.status = "PENDING", !.content = u.content,
                      !.sheet = u.sheet, !.profiled = u.profiled]

\* The bound on jobs: an upload begins only if its job will have an identifier.
JobsLeft ==
    Cardinality({j \in Jobs : job[j].status = "ABSENT"})
        > Cardinality({w \in Workers : At(w, "insert")})

\* _add_job, and what the caller does with the job it created.
AddJob(w, r) ==
    \E j \in Jobs :
        /\ job[j].status = "ABSENT"
        /\ \A k \in Jobs : k < j => job[k].status # "ABSENT"
        /\ job' = [job EXCEPT ![j] = r]
        /\ IF w \in Requests /\ ~(ProcessOnUpload /\ r.profiled)
           THEN Leave(w)
           ELSE Adopt(w, j, r)

\* Mutant: an upload request carries on with the live job it was refused for.
ReceiveKnownAndRun(w, u) ==
    /\ At(w, "idle")
    /\ Admissible(w, u)
    /\ file[u.content] = u.vendor
    /\ stored' = stored \union {u.content}
    /\ LET live == LiveJobsFor(u.content, u.sheet) IN
       \/ /\ \E j \in live : Oldest(j, live) /\ Adopt(w, j, job[j])
          /\ UNCHANGED job
       \/ live = {} /\ JobsLeft /\ AddJob(w, PendingJob(u))
    /\ UNCHANGED <<file, rows, matched, lines, snapped, crashes, closes, losses>>

\* The bytes are known: the file row is locked FOR UPDATE from the read to the
\* commit, so the look for a live job and the insert are one step.  A missing
\* object is restored from the bytes in hand.  A request answers with the live
\* job and stops; the intake carries on with it.
ReceiveKnown(w, u) ==
    /\ At(w, "idle")
    /\ Admissible(w, u)
    /\ file[u.content] = u.vendor
    /\ stored' = stored \union {u.content}
    /\ LET live == LiveJobsFor(u.content, u.sheet) IN
       \/ /\ live # {}
          /\ w \in Requests
          /\ UNCHANGED <<job, worker>>
       \/ /\ w \in Intakes
          /\ \E j \in live : Oldest(j, live) /\ Adopt(w, j, job[j])
          /\ UNCHANGED job
       \/ /\ live = {}
          /\ JobsLeft
          /\ AddJob(w, PendingJob(u))
    /\ UNCHANGED <<file, rows, matched, lines, snapped, crashes, closes, losses>>

\* Mutant: the object is left for later.
StoreNewLater(w, u) ==
    /\ At(w, "idle")
    /\ Admissible(w, u)
    /\ file[u.content] = None
    /\ JobsLeft
    /\ worker' = [worker EXCEPT ![w] = [IdleWorker EXCEPT
                     !.pc = "insert", !.view = PendingJob(u),
                     !.vendor = u.vendor]]
    /\ UNCHANGED <<dbVars, crashes, closes, losses>>

\* New bytes: the object is written before anything is recorded.
StoreNew(w, u) ==
    /\ At(w, "idle")
    /\ Admissible(w, u)
    /\ file[u.content] = None
    /\ JobsLeft
    /\ stored' = stored \union {u.content}
    /\ worker' = [worker EXCEPT ![w] = [IdleWorker EXCEPT
                     !.pc = "insert", !.view = PendingJob(u),
                     !.vendor = u.vendor]]
    /\ UNCHANGED <<file, job, rows, matched, lines, snapped,
                   crashes, closes, losses>>

\* The file row and its job, in one transaction.  The unique checksum refuses
\* the later of two concurrent receipts (ImportFileConflict).
RecordNew(w) ==
    /\ At(w, "insert")
    /\ IF file[My(w).content] = None
       THEN /\ file' = [file EXCEPT ![My(w).content] = worker[w].vendor]
            /\ AddJob(w, My(w))
       ELSE /\ Leave(w)
            /\ UNCHANGED <<file, job>>
    /\ UNCHANGED <<stored, rows, matched, lines, snapped,
                   crashes, closes, losses>>

----------------------------------------------------------------------------
(* The parsing stage *)

\* _start and the file-level checks that follow it.  When the active-job index
\* refuses the update, the handler rolls back and fails the job.
Start(w) ==
    /\ At(w, "start")
    /\ LET new == [My(w) EXCEPT !.status = "RUNNING", !.stage = "PARSING"]
           row == Flushed(job[MyJob(w)], My(w), new)
           c == My(w).content
           acceptable ==
              /\ My(w).profiled
              /\ c \in stored
              /\ c \in Readable
              /\ c \in Workbooks <=> My(w).sheet # None
       IN IF SlotTaken(MyJob(w), row)
          THEN RollBack(w, "fail") /\ UNCHANGED job
          ELSE /\ Save(w, new)
               /\ Goto(w, IF acceptable THEN "parse" ELSE "fail", new, 1)
    /\ UNCHANGED <<file, stored, rows, matched, lines, snapped,
                   crashes, closes, losses>>

HasErrors(c, k) == BadChunkOf[c] \in 1 .. k

\* flush(): a chunk's rows and the running counters in one transaction.  The
\* unique (job, row_number) index refuses rows another run has written.
ParseChunk(w) ==
    /\ At(w, "parse")
    /\ LET c == My(w).content
           j == MyJob(w)
           k == worker[w].next
           new == [My(w) EXCEPT !.total = @ + 1,
                                !.errors = @ \/ BadChunkOf[c] = k]
       IN /\ k <= ChunksOf[c]
          /\ IF k <= rows[j]
             THEN RollBack(w, "fail") /\ UNCHANGED <<job, rows>>
             ELSE /\ rows' = [rows EXCEPT ![j] = k]
                  /\ Save(w, new)
                  /\ Goto(w, "parse", new, k + 1)
    /\ UNCHANGED <<file, stored, matched, lines, snapped,
                   crashes, closes, losses>>

\* _reconcile: counters from the rows themselves.
Reconcile(w) ==
    /\ At(w, "parse")
    /\ LET c == My(w).content
           n == rows[MyJob(w)]
           new == [My(w) EXCEPT !.total = n, !.errors = HasErrors(c, n)]
       IN /\ worker[w].next > ChunksOf[c]
          /\ Save(w, new)
          /\ Goto(w, "parsed", new, 1)
    /\ UNCHANGED <<file, stored, rows, matched, lines, snapped,
                   crashes, closes, losses>>

\* _Run._finish: the job waits for the matcher, and its caller goes on to it.
FinishParsing(w) ==
    /\ At(w, "parsed")
    /\ LET new == [My(w) EXCEPT !.stage = "MATCHING"] IN
       /\ Save(w, new)
       /\ Goto(w, Dispatch(w, new), new, 1)
    /\ UNCHANGED <<file, stored, rows, matched, lines, snapped,
                   crashes, closes, losses>>

\* _Run.fail, and the intake's hold of a file with invalid rows: FAILED, no
\* stage, whatever the row says by now.
Fail(w) ==
    /\ At(w, "fail") \/ At(w, "hold")
    /\ Save(w, [My(w) EXCEPT !.status = "FAILED", !.stage = "NULL"])
    /\ Leave(w)
    /\ UNCHANGED <<file, stored, rows, matched, lines, snapped,
                   crashes, closes, losses>>

----------------------------------------------------------------------------
(* The matching stage *)

VendorOf(w) == file[My(w).content]

\* Mutant: every chunk is read from the first row.
ReadForMatchFromStart(w) ==
    /\ At(w, "match")
    /\ worker[w].next <= rows[MyJob(w)]
    /\ worker' = [worker EXCEPT ![w] =
                    [@ EXCEPT !.pc = "matchWrite", !.next = 1, !.saw = "present"]]
    /\ UNCHANGED <<dbVars, crashes, closes, losses>>

\* _next_rows and _load_context: a chunk's rows and the vendor lines they name.
ReadForMatch(w) ==
    /\ At(w, "match")
    /\ worker[w].next <= rows[MyJob(w)]
    /\ worker' = [worker EXCEPT ![w] = [@ EXCEPT
            !.pc = "matchWrite",
            !.saw = IF <<VendorOf(w), worker[w].next>> \in lines
                    THEN "present" ELSE "absent"]]
    /\ UNCHANGED <<dbVars, crashes, closes, losses>>

\* Others that read the same vendor lines before this commit hold queue items
\* that may have changed under them.
MakeStale(w, ws) ==
    [v \in Workers |->
        IF /\ v # w
           /\ ws[v].pc = "matchWrite"
           /\ ws[v].saw = "present"
           /\ ws[v].next = ws[w].next
           /\ file[ws[v].view.content] = VendorOf(w)
        THEN [ws[v] EXCEPT !.saw = "stale"]
        ELSE ws[v]]

\* The chunk's transaction: lines, queue items and verdicts together.  Lines
\* inserted meanwhile by someone else hit uq_vendor_products_vendor_id_vendor_sku;
\* queue items inserted meanwhile may hit the one-pending-item index.  Either
\* way the exception leaves the job as it is.
MatchChunk(w) ==
    /\ At(w, "matchWrite")
    /\ LET j == MyJob(w)
           k == worker[w].next
           collided == worker[w].saw = "absent" /\ <<VendorOf(w), k>> \in lines
       IN \/ /\ ~collided
             /\ lines' = lines \union {<<VendorOf(w), k>>}
             /\ matched' = [matched EXCEPT ![j] = IF k > @ THEN k ELSE @]
             /\ worker' = MakeStale(w, [worker EXCEPT ![w] =
                              [@ EXCEPT !.pc = "match", !.next = k + 1]])
          \/ /\ collided \/ worker[w].saw = "stale"
             /\ Leave(w)
             /\ UNCHANGED <<lines, matched>>
    /\ UNCHANGED <<file, stored, job, rows, snapped, crashes, closes, losses>>

\* Mutant: the stage is closed with its last chunk still to match.
FinishMatchingEarly(w) ==
    /\ At(w, "match")
    /\ worker[w].next >= rows[MyJob(w)]
    /\ LET new == [My(w) EXCEPT !.stage = "SNAPSHOTTING"] IN
       /\ Save(w, new)
       /\ Goto(w, "snapshot", new, 1)
    /\ UNCHANGED <<file, stored, rows, matched, lines, snapped,
                   crashes, closes, losses>>

\* _Matcher._finish.
FinishMatching(w) ==
    /\ At(w, "match")
    /\ worker[w].next > rows[MyJob(w)]
    /\ LET new == [My(w) EXCEPT !.stage = "SNAPSHOTTING"] IN
       /\ Save(w, new)
       /\ Goto(w, "snapshot", new, 1)
    /\ UNCHANGED <<file, stored, rows, matched, lines, snapped,
                   crashes, closes, losses>>

----------------------------------------------------------------------------
(* The snapshotting stage *)

\* snapshotted_lines: what this job has already written for the chunk.
ReadForSnapshot(w) ==
    /\ At(w, "snapshot")
    /\ worker[w].next <= matched[MyJob(w)]
    /\ worker' = [worker EXCEPT ![w] = [@ EXCEPT
            !.pc = "snapshotWrite",
            !.saw = IF worker[w].next <= snapped[MyJob(w)]
                    THEN "present" ELSE "absent"]]
    /\ UNCHANGED <<dbVars, crashes, closes, losses>>

\* _snapshot_chunk: lines already covered are skipped; a snapshot written
\* meanwhile by another run hits the unique (job, vendor line) index.
SnapshotChunk(w) ==
    /\ At(w, "snapshotWrite")
    /\ LET j == MyJob(w)
           k == worker[w].next
       IN CASE worker[w].saw = "present" ->
                 Goto(w, "snapshot", My(w), k + 1) /\ UNCHANGED snapped
            [] worker[w].saw # "present" /\ k <= snapped[j] ->
                 Leave(w) /\ UNCHANGED snapped
            [] OTHER ->
                 /\ snapped' = [snapped EXCEPT ![j] = k]
                 /\ Goto(w, "snapshot", My(w), k + 1)
    /\ UNCHANGED <<file, stored, job, rows, matched, lines,
                   crashes, closes, losses>>

\* _Snapshotter._finish closes the job; the active-job index may refuse.
Complete(w) ==
    /\ At(w, "snapshot")
    /\ worker[w].next > matched[MyJob(w)]
    /\ LET new == [My(w) EXCEPT !.stage = "NULL",
                        !.status = IF My(w).errors
                                   THEN "COMPLETED_WITH_ERRORS"
                                   ELSE "COMPLETED"]
           row == Flushed(job[MyJob(w)], My(w), new)
       IN IF SlotTaken(MyJob(w), row) THEN UNCHANGED job ELSE Save(w, new)
    /\ Leave(w)
    /\ UNCHANGED <<file, stored, rows, matched, lines, snapped,
                   crashes, closes, losses>>

----------------------------------------------------------------------------
(* The environment *)

\* The process dies: its session and everything uncommitted are gone.
Crash(w) ==
    /\ crashes < MaxCrashes
    /\ ~At(w, "idle")
    /\ crashes' = crashes + 1
    /\ Leave(w)
    /\ UNCHANGED <<dbVars, closes, losses>>

\* The runbook's way out of a job a dead process left RUNNING.  Nothing tells
\* the operator that the process is really dead.
OperatorClose(j) ==
    /\ closes < MaxCloses
    /\ job[j].status = "RUNNING"
    /\ closes' = closes + 1
    /\ job' = [job EXCEPT ![j] = [@ EXCEPT !.status = "FAILED", !.stage = "NULL"]]
    /\ UNCHANGED <<file, stored, rows, matched, lines, snapped, worker,
                   crashes, losses>>

\* "Should never happen" (ADR 0004): a retained object disappears.
LoseObject(c) ==
    /\ losses < MaxLosses
    /\ c \in stored
    /\ losses' = losses + 1
    /\ stored' = stored \ {c}
    /\ UNCHANGED <<file, job, rows, matched, lines, snapped, worker,
                   crashes, closes>>

----------------------------------------------------------------------------

\* What a running process does next without being asked.
Step(w) ==
    \/ RecordNew(w)
    \/ Start(w)
    \/ ParseChunk(w)
    \/ Reconcile(w)
    \/ FinishParsing(w)
    \/ Fail(w)
    \/ ReadForMatch(w)
    \/ MatchChunk(w)
    \/ FinishMatching(w)
    \/ ReadForSnapshot(w)
    \/ SnapshotChunk(w)
    \/ Complete(w)

Receive(w, u) == ReceiveKnown(w, u) \/ StoreNew(w, u)

Next ==
    \/ \E w \in Workers : Step(w)
    \/ \E w \in Workers, u \in Uploads : Receive(w, u)
    \/ \E w \in Workers : Crash(w)
    \/ \E j \in Jobs : OperatorClose(j)
    \/ \E c \in Contents : LoseObject(c)

Spec == Init /\ [][Next]_vars

\* A live process keeps executing: the operating system schedules it and the
\* database answers.  Nobody is obliged to upload, to crash or to intervene.
FairSpec == Spec /\ \A w \in Workers : WF_vars(Step(w))

----------------------------------------------------------------------------
(* Properties *)

\* A job that says it completed has every row staged, every row matched and
\* every vendor line snapshotted, whatever raced, crashed or was resumed on
\* the way (matching.py and snapshots.py walk from the first row on resume).
CompletedIsWhole ==
    \A j \in Jobs : job[j].status \in Completed =>
        /\ rows[j] = ChunksOf[job[j].content]
        /\ matched[j] = rows[j]
        /\ snapped[j] = rows[j]

\* The stage a resume starts from never claims work that was not done:
\* MATCHING means all rows are staged, SNAPSHOTTING that all are matched.
StageTellsTheTruth ==
    \A j \in Jobs :
        /\ job[j].stage \in {"MATCHING", "SNAPSHOTTING"} =>
              rows[j] = ChunksOf[job[j].content]
        /\ job[j].stage = "SNAPSHOTTING" => matched[j] = rows[j]

\* total_rows and error_rows agree with import_job_rows at every commit, not
\* only after _reconcile ("so the job never disagrees with its rows").
CountersMatchRows ==
    \A j \in Jobs : job[j].status # "ABSENT" =>
        /\ job[j].total = rows[j]
        /\ job[j].errors = HasErrors(job[j].content, rows[j])

\* What the tables say of a job is so at every commit, whoever else runs, dies
\* on or closes the same job: its stage, its counters and its verdict (and every
\* value has its type).
JobsTellTheTruth == TypeOK /\ StageTellsTheTruth /\ CountersMatchRows /\ CompletedIsWhole

\* Everything recorded can be read back: the object is written before the row
\* that names it (AC-5.4), also when the process dies in between.
RecordedIsRetained ==
    losses = 0 => \A c \in Contents : file[c] # None => c \in stored

\* One live import per file and worksheet, and a file-level import excludes
\* worksheet imports of the same file (live_job_for_file; ADR 0018).
SelectionsApart ==
    \A j, k \in Jobs :
        /\ j # k /\ Live(job[j]) /\ Live(job[k])
        /\ job[j].content = job[k].content
        => /\ job[j].sheet # job[k].sheet
           /\ None \notin {job[j].sheet, job[k].sheet}

\* The same until an operator closes a job: a process that outlives its job may
\* write RUNNING over it when the file has another (section 4 of the README).
OneImportPerSelection == closes = 0 => SelectionsApart

\* A successful import is never re-processed: its status is final.
CompletedIsFinal ==
    [][\A j \in Jobs : job[j].status \in Completed =>
            job'[j].status = job[j].status]_vars

\* Every process that picks up an import comes to an end with it: no stage
\* walks forever, and nothing waits for another worker.
WorkersReturn == \A w \in Workers : ~At(w, "idle") ~> At(w, "idle")

----------------------------------------------------------------------------
(* The abstract pipeline this module implements *)

Pipeline == INSTANCE StagedPipeline WITH
    Sizes <- {ChunksOf[c] : c \in Contents},
    queued <- {j \in Jobs : job[j].status # "ABSENT"},
    size <- [j \in Jobs |-> IF job[j].status = "ABSENT" THEN 0
                            ELSE ChunksOf[job[j].content]],
    parsed <- rows

PipelineSpec == Pipeline!Spec
=============================================================================
