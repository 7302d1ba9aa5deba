----------------------------- MODULE AmazonOrders -----------------------------
(***************************************************************************)
(* The Amazon orders job (jobs/amazon.py, services/amazon_orders.py) and   *)
(* the run rows it shares with the other Amazon jobs                       *)
(* (services/amazon_runs.py).  A job closes what a dead process left       *)
(* RUNNING, and then, for each window of the trailing days, claims the one *)
(* RUNNING row, fetches the report of the lines Amazon last changed in the *)
(* window, upserts them and closes the row with its counts in the same     *)
(* transaction.                                                            *)
(*                                                                         *)
(* Sessions are READ COMMITTED and keep their copy of a row after a commit *)
(* (expire_on_commit=False), so closing a run writes over whatever another *)
(* process has made of it.  A row an upsert has written stays locked until *)
(* its transaction ends.  A line is an (order, SKU) pair whose rows parse; *)
(* its columns are one value, its version, ordered as last_updated_at.     *)
(***************************************************************************)
EXTENDS Naturals, Sequences, FiniteSets

CONSTANTS
    Lines,
    Workers,        \* the scheduler's process and a command line's
    Days,           \* the trailing window
    ChunkDays,      \* what Amazon accepts in one report
    BatchSize,      \* lines of one upsert statement
    MaxVersion,     \* bound: changes of a line
    MaxRuns,        \* bound: run rows
    MaxFaults,      \* bound: failed calls of Amazon or the database
    MaxCrashes,     \* bound: processes that die
    MaxSpent,       \* bound: both of them together
    Disciplines     \* which of the disciplines below to look at

Runs == 1 .. MaxRuns

ASSUME WindowAssumption == Days \in Nat \ {0} /\ ChunkDays \in Nat \ {0}
ASSUME BatchAssumption == BatchSize \in Nat \ {0}
ASSUME BoundsAssumption == /\ MaxVersion \in Nat \ {0} /\ MaxRuns \in Nat
                           /\ MaxFaults \in Nat /\ MaxCrashes \in Nat /\ MaxSpent \in Nat
ASSUME LinesAssumption == IsFiniteSet(Lines)

\* FREE: a job may take any time.  TIMELY: nothing reaches
\* amazon_run_timeout_minutes while its process lives.
ASSUME DisciplineAssumption == Disciplines \subseteq {"FREE", "TIMELY"}

VARIABLES
    amazon,     \* what Amazon knows: line -> version, 0 before it is ordered, and
                \* the days since its last change
    stored,     \* amazon_order_lines
    run,        \* amazon_sync_runs
    job,        \* what each process is doing
    spent,      \* faults and crashes so far
    discipline

vars == <<amazon, stored, run, job, spent, discipline>>

----------------------------------------------------------------------------
(* Types *)

Versions == 0 .. MaxVersion
Counts == [created : Nat, updated : Nat, unchanged : Nat]
\* COMPLETED is also COMPLETED_WITH_ERRORS: rows that do not parse are dropped
\* and only counted.
Statuses == {"ABSENT", "RUNNING", "COMPLETED", "FAILED"}

StoredLines == [version : Versions, first : Runs \union {0}, last : Runs \union {0}]
RunRows == [status : Statuses, overdue : BOOLEAN, counts : Counts]

\* found: the stale runs that were read; window: the window at work; changed:
\* lines Amazon has changed since the job's now; todo: lines not yet upserted;
\* batch: those that have been classified; written: the uncommitted rows, where
\* their version is not 0.
JobStates ==
    [pc : {"idle", "recover", "open", "fetch", "read", "upsert", "close", "fail"},
     found : SUBSET Runs, window : Nat, changed : SUBSET Lines,
     run : Runs \union {0}, report : [Lines -> Versions],
     todo : SUBSET Lines, batch : SUBSET Lines,
     counts : Counts, written : [Lines -> StoredLines]]

NoCounts == [created |-> 0, updated |-> 0, unchanged |-> 0]
NoRow == [version |-> 0, first |-> 0, last |-> 0]
NoRun == [status |-> "ABSENT", overdue |-> FALSE, counts |-> NoCounts]
Idle == [pc |-> "idle", found |-> {}, window |-> 1, changed |-> {}, run |-> 0,
         report |-> [l \in Lines |-> 0], todo |-> {},
         batch |-> {}, counts |-> NoCounts,
         written |-> [l \in Lines |-> NoRow]]

WellTyped ==
    /\ amazon \in [Lines -> [version : Versions, age : 0 .. Days]]
    /\ stored \in [Lines -> StoredLines]
    /\ run \in [Runs -> RunRows]
    /\ job \in [Workers -> JobStates]
    /\ spent \in [faults : 0 .. MaxFaults, crashes : 0 .. MaxCrashes]
    /\ discipline \in Disciplines

\* A closed run counts each of its lines once.
TypeOK ==
    /\ WellTyped
    /\ \A r \in Runs : LET c == run[r].counts IN
           c.created + c.updated + c.unchanged <= Cardinality(Lines)

Init ==
    /\ amazon \in [Lines -> [version : {1}, age : 0 .. Days]
                            \union [version : {0}, age : {0}]]
    /\ stored = [l \in Lines |-> NoRow]
    /\ run = [r \in Runs |-> NoRun]
    /\ job = [p \in Workers |-> Idle]
    /\ spent = [faults |-> 0, crashes |-> 0]
    /\ discipline \in Disciplines

----------------------------------------------------------------------------
(* Windows *)

\* Mutant: only full chunks.
FullWindows ==
    [k \in 1 .. Days \div ChunkDays |->
        [from |-> Days - (k - 1) * ChunkDays, to |-> Days - k * ChunkDays]]

\* The k-th chunk, oldest first, in days before the job's now; the last one
\* ends now however short it is.
OrdersWindows ==
    [k \in 1 .. (Days + ChunkDays - 1) \div ChunkDays |->
        [from |-> Days - (k - 1) * ChunkDays,
         to |-> IF k * ChunkDays < Days THEN Days - k * ChunkDays ELSE 0]]

LastWindow(p) == job[p].window = Len(OrdersWindows)

\* What a report of p's window lists: the lines last changed in it.  A line that
\* changed after the job's now is in no later window of the job.
Reported(p) ==
    LET w == OrdersWindows[job[p].window] IN
    {l \in Lines \ job[p].changed :
        amazon[l].version > 0 /\ amazon[l].age \in w.to .. w.from}

----------------------------------------------------------------------------
(* Amazon and time *)

\* Amazon changes a line; order lines are not deleted.
Change(l) ==
    /\ amazon[l].version < MaxVersion
    /\ amazon' = [amazon EXCEPT ![l] = [version |-> @.version + 1, age |-> 0]]
    /\ job' = [p \in Workers |-> IF job[p].pc = "idle" THEN job[p]
                  ELSE [job[p] EXCEPT !.changed = @ \union {l}]]
    /\ UNCHANGED <<stored, run, spent, discipline>>

\* A run has been RUNNING for longer than the timeout.
Overdue(r) ==
    /\ run[r].status = "RUNNING" /\ ~run[r].overdue
    /\ discipline = "TIMELY" => \A p \in Workers : job[p].run # r
    /\ run' = [run EXCEPT ![r].overdue = TRUE]
    /\ UNCHANGED <<amazon, stored, job, spent, discipline>>

----------------------------------------------------------------------------
(* Opening a run *)

\* Mutant: the cutoff is forgotten.
RunningRuns == {r \in Runs : run[r].status = "RUNNING"}

StaleRuns == {r \in Runs : run[r].status = "RUNNING" /\ run[r].overdue}
SlotTaken == \E r \in Runs : run[r].status = "RUNNING"
Unused == {r \in Runs : run[r].status = "ABSENT"}

\* Mutant: nobody looks for stale runs.
StartAtOnce(p) ==
    /\ job[p].pc = "idle"
    /\ job' = [job EXCEPT ![p] = [Idle EXCEPT !.pc = "open"]]
    /\ UNCHANGED <<amazon, stored, run, spent, discipline>>

\* prepare_run reads the stale runs; the list of windows is fixed by its now.
Start(p) ==
    /\ job[p].pc = "idle"
    /\ job' = [job EXCEPT ![p] = [Idle EXCEPT
            !.found = StaleRuns,
            !.pc = IF StaleRuns = {} THEN "open" ELSE "recover"]]
    /\ UNCHANGED <<amazon, stored, run, spent, discipline>>

\* The rest of recover_stale_runs, a transaction that does not look again.
RecoverStaleRuns(p) ==
    /\ job[p].pc = "recover"
    /\ run' = [r \in Runs |-> IF r \in job[p].found
                  THEN [run[r] EXCEPT !.status = "FAILED"] ELSE run[r]]
    /\ job' = [job EXCEPT ![p].pc = "open", ![p].found = {}]
    /\ UNCHANGED <<amazon, stored, spent, discipline>>

\* The partial unique index admits one RUNNING row.  Rows are used in order.
OpenRun(p) ==
    /\ job[p].pc = "open"
    /\ ~SlotTaken
    /\ \E r \in Unused :
         /\ \A q \in Unused : r <= q
         /\ run' = [run EXCEPT ![r].status = "RUNNING"]
         /\ job' = [job EXCEPT ![p] = [Idle EXCEPT
                !.pc = "fetch", !.run = r, !.window = job[p].window,
                !.changed = job[p].changed]]
    /\ UNCHANGED <<amazon, stored, spent, discipline>>

\* SyncAlreadyRunning ends the job.  (Bound: so does the last row being used.)
OpenRefused(p) ==
    /\ job[p].pc = "open"
    /\ SlotTaken \/ Unused = {}
    /\ job' = [job EXCEPT ![p] = Idle]
    /\ UNCHANGED <<amazon, stored, run, spent, discipline>>

----------------------------------------------------------------------------
(* The work of a run *)

MaySpend == spent.faults + spent.crashes < MaxSpent

\* fetch_report and parse_orders_report, which keeps one line of each pair.
FetchReport(p) ==
    /\ job[p].pc = "fetch"
    /\ job' = [job EXCEPT
            ![p].report = [l \in Lines |-> IF l \in Reported(p) THEN amazon[l].version ELSE 0],
            ![p].todo = Reported(p),
            ![p].pc = IF Reported(p) = {} THEN "close" ELSE "read"]
    /\ UNCHANGED <<amazon, stored, run, spent, discipline>>

\* The report never comes, or lacks a column.
FetchFails(p) ==
    /\ job[p].pc = "fetch"
    /\ spent.faults < MaxFaults /\ MaySpend
    /\ spent' = [spent EXCEPT !.faults = @ + 1]
    /\ job' = [job EXCEPT ![p].pc = "fail"]
    /\ UNCHANGED <<amazon, stored, run, discipline>>

\* The next lines of the report, whose order is Amazon's.
Batches(p) ==
    {b \in SUBSET job[p].todo : Cardinality(b) =
        IF Cardinality(job[p].todo) < BatchSize THEN Cardinality(job[p].todo) ELSE BatchSize}

\* The counts of p with the lines of b classified by the versions stored.
Classified(p, b) ==
    LET known == {l \in b : stored[l].version > 0}
        newer == {l \in known : job[p].report[l] > stored[l].version}
    IN [created |-> job[p].counts.created + Cardinality(b \ known),
        updated |-> job[p].counts.updated + Cardinality(newer),
        unchanged |-> job[p].counts.unchanged + Cardinality(known \ newer)]

\* _existing_last_updated and the counting of upsert_order_lines.
ReadExisting(p) ==
    /\ job[p].pc = "read"
    /\ \E b \in Batches(p) :
         job' = [job EXCEPT ![p].batch = b, ![p].counts = Classified(p, b), ![p].pc = "upsert"]
    /\ UNCHANGED <<amazon, stored, run, spent, discipline>>

\* Mutant: the newest statement wins, not the newest version.
UpsertedLast(row, version, r) ==
    IF row.version = 0 THEN [version |-> version, first |-> r, last |-> r]
    ELSE [row EXCEPT !.version = version, !.last = r]

\* INSERT ... ON CONFLICT DO UPDATE of one line, over its row as committed: the
\* columns move only forward, the run that saw the line is always noted.
Upserted(row, version, r) ==
    IF row.version = 0 THEN [version |-> version, first |-> r, last |-> r]
    ELSE [row EXCEPT !.version = IF version > @ THEN version ELSE @, !.last = r]

Locked(q) == {l \in Lines : job[q].written[l].version > 0}
Waits(p, q) == /\ p # q /\ job[p].pc = "upsert" /\ job[p].batch \intersect Locked(q) # {}

UpsertBatch(p) ==
    /\ job[p].pc = "upsert"
    /\ \A q \in Workers : ~Waits(p, q)
    /\ LET rest == job[p].todo \ job[p].batch IN
       job' = [job EXCEPT
            ![p].written = [l \in Lines |-> IF l \in job[p].batch
                THEN Upserted(stored[l], job[p].report[l], job[p].run) ELSE @[l]],
            ![p].todo = rest,
            ![p].batch = {},
            ![p].report = [l \in Lines |-> IF l \in rest THEN @[l] ELSE 0],
            ![p].pc = IF rest = {} THEN "close" ELSE "read"]
    /\ UNCHANGED <<amazon, stored, run, spent, discipline>>

\* close_run and the commit; the next window, if any, opens a run of its own.
CloseRun(p) ==
    /\ job[p].pc = "close"
    /\ stored' = [l \in Lines |-> IF l \in Locked(p) THEN job[p].written[l] ELSE stored[l]]
    /\ run' = [run EXCEPT ![job[p].run] = [@ EXCEPT
            !.status = "COMPLETED", !.counts = job[p].counts]]
    /\ job' = [job EXCEPT ![p] = IF LastWindow(p) THEN Idle
            ELSE [Idle EXCEPT !.pc = "open", !.window = job[p].window + 1,
                              !.changed = job[p].changed]]
    /\ UNCHANGED <<amazon, spent, discipline>>

----------------------------------------------------------------------------
(* Failure *)

InTransaction(p) == job[p].pc \in {"read", "upsert", "close"}

\* The transaction is rolled back: what was written and its locks are gone.
RolledBack(p) ==
    [job EXCEPT ![p] = [Idle EXCEPT !.pc = "fail", !.window = job[p].window,
                            !.changed = job[p].changed, !.run = job[p].run]]

WriteFails(p) ==
    /\ InTransaction(p)
    /\ spent.faults < MaxFaults /\ MaySpend
    /\ spent' = [spent EXCEPT !.faults = @ + 1]
    /\ job' = RolledBack(p)
    /\ UNCHANGED <<amazon, stored, run, discipline>>

\* Two upserts wait for each other; the database ends one of them.
Deadlock(p) ==
    /\ \E q \in Workers : Waits(p, q) /\ Waits(q, p)
    /\ job' = RolledBack(p)
    /\ UNCHANGED <<amazon, stored, run, spent, discipline>>

\* fail_run; the exception ends the job.
FailRun(p) ==
    /\ job[p].pc = "fail"
    /\ run' = [run EXCEPT ![job[p].run].status = "FAILED"]
    /\ job' = [job EXCEPT ![p] = Idle]
    /\ UNCHANGED <<amazon, stored, spent, discipline>>

\* fail_run fails itself, is logged, and leaves the row as it is.
FailRunFails(p) ==
    /\ job[p].pc = "fail"
    /\ spent.faults < MaxFaults /\ MaySpend
    /\ spent' = [spent EXCEPT !.faults = @ + 1]
    /\ job' = [job EXCEPT ![p] = Idle]
    /\ UNCHANGED <<amazon, stored, run, discipline>>

Crash(p) ==
    /\ job[p].pc # "idle"
    /\ spent.crashes < MaxCrashes /\ MaySpend
    /\ spent' = [spent EXCEPT !.crashes = @ + 1]
    /\ job' = [job EXCEPT ![p] = Idle]
    /\ UNCHANGED <<amazon, stored, run, discipline>>

Step(p) ==
    \/ Start(p) \/ RecoverStaleRuns(p) \/ OpenRun(p) \/ OpenRefused(p)
    \/ FetchReport(p) \/ ReadExisting(p) \/ UpsertBatch(p) \/ CloseRun(p)
    \/ Deadlock(p) \/ FailRun(p)

Next ==
    \/ \E l \in Lines : Change(l)
    \/ \E r \in Runs : Overdue(r)
    \/ \E p \in Workers :
         \/ Step(p) \/ FetchFails(p) \/ WriteFails(p) \/ FailRunFails(p) \/ Crash(p)

Spec == Init /\ [][Next]_vars

\* The scheduler starts the job again and again, every call returns or fails
\* (fetch_report gives up after its timeout_s), the database resolves deadlocks,
\* and time passes.
Fairness == /\ \A p \in Workers : WF_vars(Step(p))
            /\ \A r \in Runs : WF_vars(Overdue(r))
FairSpec == Spec /\ Fairness

----------------------------------------------------------------------------
(* Properties *)

\* services/amazon_orders.py:339: whatever reports overlap, fail or arrive late,
\* what is stored for a line never goes back to an older version, nor does the
\* run that first saw it change.
NeverRegresses ==
    [][\A l \in Lines : stored[l].version > 0 =>
         /\ stored'[l].version >= stored[l].version
         /\ stored'[l].first = stored[l].first]_vars

\* The counts of a run can be trusted: a run created the lines that it was the
\* first to see, and a run that failed or is still open left nothing behind.  Of
\* jobs that stay under the timeout: a run that is declared dead while it lives
\* can complete after all, next to its successor.  (And the tables keep their
\* types.)
RunRecordsAreTrue ==
    /\ TypeOK
    /\ discipline = "TIMELY" =>
        /\ \A l \in Lines : stored[l].version > 0 =>
              run[stored[l].first].status = "COMPLETED" /\ run[stored[l].last].status = "COMPLETED"
        /\ \A r \in Runs : run[r].status = "COMPLETED" =>
              run[r].counts.created = Cardinality({l \in Lines : stored[l].first = r})

\* jobs/amazon.py:53: the chunks leave no gap.  When the last window of a job has
\* been written, every line Amazon did not change meanwhile is stored as it is.
JobsLeaveNothingOut ==
    [][\A p \in Workers : CloseRun(p) /\ LastWindow(p) =>
         \A l \in Lines \ job[p].changed :
             stored'[l].version = amazon[l].version]_vars

\* services/amazon_runs.py:77: no RUNNING row blocks the job for ever, whichever
\* way its process ended.
RunsClose ==
    \A r \in Runs : run[r].status = "RUNNING" ~> run[r].status # "RUNNING"

\* services/amazon_orders.py:349: the table is a mirror of Amazon that
\* lags behind it but never goes back or ahead, whatever reports overlap, fail or
\* arrive late; a run's new lines are its own, and a job that ends well has
\* missed only what changed under it.
Mirror == INSTANCE LaggingMirror WITH
    Keys <- Lines,
    Pullers <- Workers,
    Labels <- Runs,
    NoLabel <- 0,
    source <- [l \in Lines |-> amazon[l].version],
    copy <- [l \in Lines |-> stored[l].version],
    label <- [l \in Lines |-> stored[l].first],
    pulling <- {p \in Workers : job[p].pc # "idle"},
    changed <- [p \in Workers |-> IF job[p].pc = "idle" THEN {} ELSE job[p].changed]

MirrorSpec == Mirror!Spec
===============================================================================
