-------------------------- MODULE ImportInvariant --------------------------
(***************************************************************************)
(* The inductive invariant of ImportLifecycle.                             *)
(*                                                                         *)
(* A worker acts on the copy of the job it read long ago, so the invariant *)
(* says, for every program point, what the tables must hold there whatever *)
(* other workers did since: progress only ever grows, and of the workers   *)
(* that stage the rows of one job only one gets past the first chunk.      *)
(***************************************************************************)
EXTENDS ImportLifecycle

Exists(j) == job[j].status # "ABSENT"
SizeOf(j) == ChunksOf[job[j].content]

\* What the tables hold for a job.
JobOK(j) ==
    /\ ~Exists(j) =>
        /\ job[j].stage = "NULL"
        /\ rows[j] = 0 /\ matched[j] = 0 /\ snapped[j] = 0
    /\ Exists(j) =>
        /\ job[j].content \in Contents
        /\ file[job[j].content] \in Vendors
        /\ rows[j] <= SizeOf(j)
        /\ matched[j] <= SizeOf(j)
        /\ snapped[j] <= SizeOf(j)
        /\ matched[j] > 0 => rows[j] = SizeOf(j)
        /\ snapped[j] > 0 => matched[j] = SizeOf(j)
        /\ job[j].total = rows[j]
        /\ job[j].errors = HasErrors(job[j].content, rows[j])
        /\ job[j].status = "PENDING" => rows[j] = 0
        /\ job[j].stage \in {"MATCHING", "SNAPSHOTTING"} => rows[j] = SizeOf(j)
        /\ job[j].stage = "SNAPSHOTTING" => matched[j] = SizeOf(j)
        /\ job[j].status \in Completed =>
              /\ rows[j] = SizeOf(j)
              /\ matched[j] = SizeOf(j)
              /\ snapped[j] = SizeOf(j)

Engaged(w) == worker[w].pc \notin {"idle", "insert"}

\* What a worker may rely on at each point.
WorkerOK(w) ==
    /\ At(w, "insert") =>
        /\ My(w).status = "PENDING"
        /\ My(w).stage = "NULL"
        /\ My(w).content \in Contents
        /\ My(w).total = 0
        /\ My(w).errors = FALSE
        /\ worker[w].vendor \in Vendors
    /\ Engaged(w) =>
        /\ MyJob(w) \in Jobs
        /\ Exists(MyJob(w))
        /\ My(w).content = job[MyJob(w)].content
    /\ At(w, "start") =>
        /\ My(w).status = "PENDING"
        /\ My(w).total = 0
        /\ My(w).errors = FALSE
    /\ Engaged(w) /\ worker[w].pc \notin {"start", "fail"} =>
        job[MyJob(w)].status # "PENDING"
    /\ At(w, "parse") =>
        /\ worker[w].next \in 1 .. SizeOf(MyJob(w)) + 1
        /\ My(w).status = "RUNNING"
        /\ My(w).stage = "PARSING"
        /\ My(w).total = worker[w].next - 1
        /\ My(w).errors = HasErrors(My(w).content, worker[w].next - 1)
        /\ worker[w].next > 1 => rows[MyJob(w)] = worker[w].next - 1
    /\ worker[w].pc \in {"parsed", "hold", "match", "matchWrite",
                         "snapshot", "snapshotWrite"} =>
        /\ rows[MyJob(w)] = SizeOf(MyJob(w))
        /\ My(w).errors = HasErrors(My(w).content, SizeOf(MyJob(w)))
    /\ At(w, "parsed") => My(w).status = "RUNNING" /\ My(w).stage = "PARSING"
    /\ worker[w].pc \in {"match", "matchWrite"} =>
        /\ My(w).stage = "MATCHING"
        /\ worker[w].next \in 1 .. SizeOf(MyJob(w)) + 1
        /\ worker[w].next - 1 <= matched[MyJob(w)]
    /\ At(w, "matchWrite") => worker[w].next <= SizeOf(MyJob(w))
    /\ worker[w].pc \in {"snapshot", "snapshotWrite"} =>
        /\ matched[MyJob(w)] = SizeOf(MyJob(w))
        /\ worker[w].next \in 1 .. SizeOf(MyJob(w)) + 1
        /\ worker[w].next - 1 <= snapped[MyJob(w)]
    /\ At(w, "snapshotWrite") =>
        /\ worker[w].next <= SizeOf(MyJob(w))
        /\ worker[w].saw = "present" => worker[w].next <= snapped[MyJob(w)]

\* Of the workers staging one job's rows, only one is past the first chunk.
OneParser ==
    \A v, w \in Workers :
        /\ v # w
        /\ At(v, "parse") /\ At(w, "parse")
        /\ MyJob(v) = MyJob(w)
        => worker[v].next = 1 \/ worker[w].next = 1

\* Every worker may rely, at every point of its walk, on what the code there
\* takes for granted (import_processing.py, matching.py and snapshots.py check
\* none of it again), whatever the other workers did meanwhile.
IInv ==
    /\ TypeOK
    /\ \A j \in Jobs : JobOK(j)
    /\ \A w \in Workers : WorkerOK(w)
    /\ OneParser
=============================================================================
