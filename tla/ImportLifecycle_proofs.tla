----------------------- MODULE ImportLifecycle_proofs -----------------------
(***************************************************************************)
(* For every number of workers, jobs, contents, crashes and operator       *)
(* interventions: a completed import is whole, its stage and counters tell *)
(* the truth, and the lifecycle implements the staged pipeline.            *)
(***************************************************************************)
EXTENDS ImportInvariant, TLAPS

----------------------------------------------------------------------------
(* Types of what the actions build *)

USE NoneAssumption, BoundsAssumption, ContentsAssumption

\* What an UPDATE of a job row leaves behind is a job row of the same file.
LEMMA FlushedRow ==
    ASSUME NEW r \in JobRows, NEW old \in JobRows, NEW new \in JobRows
    PROVE  LET row == Flushed(r, old, new) IN
           /\ row \in JobRows
           /\ row.content = r.content
           /\ row.sheet = r.sheet
           /\ row.status = IF new.status # old.status THEN new.status ELSE r.status
           /\ row.stage = IF new.stage # old.stage THEN new.stage ELSE r.stage
           /\ row.total = IF new.total # old.total THEN new.total ELSE r.total
           /\ new.errors = old.errors => row.errors = r.errors
           /\ new.errors # old.errors => row.errors = new.errors
    BY DEF Flushed, JobRows

LEMMA IdleTypes == AbsentJob \in JobRows /\ IdleWorker \in WorkerStates
    BY DEF AbsentJob, IdleWorker, JobRows, WorkerStates, Statuses, Stages, PCs, Jobs

----------------------------------------------------------------------------
(* The invariant holds initially and is preserved by every action *)

LEMMA InitIInv == Init => IInv
<1> SUFFICES ASSUME Init PROVE IInv
    OBVIOUS
<1>1. TypeOK
    BY IdleTypes DEF Init, TypeOK
<1>2. \A j \in Jobs : JobOK(j)
    BY DEF Init, JobOK, Exists, AbsentJob
<1>3. \A w \in Workers : WorkerOK(w)
    BY DEF Init, WorkerOK, Engaged, At, IdleWorker
<1>4. OneParser
    BY DEF Init, OneParser, At, IdleWorker
<1> QED BY <1>1, <1>2, <1>3, <1>4 DEF IInv

\* What a worker is about, and that its job exists.
LEMMA Holds ==
    ASSUME IInv, NEW w \in Workers
    PROVE  /\ worker[w].pc \in PCs
           /\ worker[w].job \in Jobs \union {0}
           /\ worker[w].view \in JobRows
           /\ worker[w].next \in Nat
           /\ worker[w].vendor \in Vendors \union {None}
           /\ Engaged(w) =>
                /\ worker[w].job \in Jobs
                /\ job[worker[w].job] \in JobRows
                /\ job[worker[w].job].status # "ABSENT"
                /\ worker[w].view.content = job[worker[w].job].content
<1>1. worker[w] \in WorkerStates
    BY DEF IInv, TypeOK
<1>2. WorkerOK(w)
    BY DEF IInv
<1> QED BY <1>1, <1>2 DEF WorkerStates, WorkerOK, My, MyJob, Exists, IInv, TypeOK

\* Saving the session's copy rewrites one row, column by column.
LEMMA SaveRow ==
    ASSUME IInv, NEW w \in Workers, Engaged(w), NEW new \in JobRows, Save(w, new)
    PROVE  LET row == job'[MyJob(w)]
               was == job[MyJob(w)]
               old == My(w) IN
           /\ job' \in [Jobs -> JobRows]
           /\ \A j \in Jobs \ {MyJob(w)} : job'[j] = job[j]
           /\ row.content = was.content
           /\ row.sheet = was.sheet
           /\ row.status = IF new.status # old.status THEN new.status ELSE was.status
           /\ row.stage = IF new.stage # old.stage THEN new.stage ELSE was.stage
           /\ row.total = IF new.total # old.total THEN new.total ELSE was.total
           /\ new.errors = old.errors => row.errors = was.errors
           /\ new.errors # old.errors => row.errors = new.errors
<1> DEFINE j0 == MyJob(w)
           row0 == Flushed(job[j0], My(w), new)
<1>1. j0 \in Jobs /\ job[j0] \in JobRows /\ My(w) \in JobRows
    BY Holds DEF MyJob, My
<1>2. job' = [job EXCEPT ![j0] = row0] /\ job \in [Jobs -> JobRows]
    BY DEF Save, IInv, TypeOK
<1> HIDE DEF row0
<1>3. job'[j0] = row0 /\ row0 \in JobRows
    BY <1>1, <1>2, FlushedRow DEF row0
<1>4. job' \in [Jobs -> JobRows] /\ \A j \in Jobs \ {j0} : job'[j] = job[j]
    BY <1>1, <1>2, <1>3
<1> QED BY <1>1, <1>3, <1>4, FlushedRow DEF row0

LEMMA GotoWorker ==
    ASSUME IInv, NEW w \in Workers, NEW pc \in PCs, NEW view \in JobRows,
           NEW next \in Nat, Goto(w, pc, view, next)
    PROVE  /\ worker' \in [Workers -> WorkerStates]
           /\ \A v \in Workers \ {w} : worker'[v] = worker[v]
           /\ worker'[w].pc = pc
           /\ worker'[w].view = view
           /\ worker'[w].next = next
           /\ worker'[w].job = worker[w].job
           /\ worker'[w].saw = worker[w].saw
           /\ worker'[w].vendor = worker[w].vendor
<1> DEFINE me == [worker[w] EXCEPT !.pc = pc, !.view = view, !.next = next]
<1>1. worker \in [Workers -> WorkerStates] /\ worker[w] \in WorkerStates
    BY DEF IInv, TypeOK
<1>2. worker' = [worker EXCEPT ![w] = me]
    BY DEF Goto
<1>3. /\ me \in WorkerStates /\ me.pc = pc /\ me.view = view /\ me.next = next
      /\ me.job = worker[w].job /\ me.saw = worker[w].saw
      /\ me.vendor = worker[w].vendor
    BY <1>1 DEF WorkerStates
<1> HIDE DEF me
<1> QED BY <1>1, <1>2, <1>3

LEMMA RollBackWorker ==
    ASSUME IInv, NEW w \in Workers, Engaged(w), NEW pc \in PCs, RollBack(w, pc)
    PROVE  /\ worker' \in [Workers -> WorkerStates]
           /\ \A v \in Workers \ {w} : worker'[v] = worker[v]
           /\ worker'[w].pc = pc
           /\ worker'[w].view = job[MyJob(w)]
           /\ worker'[w].job = worker[w].job
<1> DEFINE me == [worker[w] EXCEPT !.pc = pc, !.view = job[MyJob(w)]]
<1>1. worker \in [Workers -> WorkerStates] /\ worker[w] \in WorkerStates
    BY DEF IInv, TypeOK
<1>2. worker' = [worker EXCEPT ![w] = me]
    BY DEF RollBack
<1>3. job[MyJob(w)] \in JobRows
    BY Holds DEF MyJob
<1>4. /\ me \in WorkerStates /\ me.pc = pc /\ me.view = job[MyJob(w)]
      /\ me.job = worker[w].job
    BY <1>1, <1>3 DEF WorkerStates
<1> HIDE DEF me
<1> QED BY <1>1, <1>2, <1>4

LEMMA LeaveWorker ==
    ASSUME IInv, NEW w \in Workers, Leave(w)
    PROVE  /\ worker' \in [Workers -> WorkerStates]
           /\ \A v \in Workers \ {w} : worker'[v] = worker[v]
           /\ worker'[w] = IdleWorker
           /\ worker'[w].pc = "idle"
    BY IdleTypes DEF Leave, IInv, TypeOK, IdleWorker

\* Whatever a step does to the tables, jobs stay and their progress grows.
Grows ==
    \A j \in Jobs :
        /\ Exists(j) => /\ Exists(j)'
                        /\ job'[j].content = job[j].content
                        /\ job'[j].status = "PENDING" => job[j].status = "PENDING"
        /\ rows[j] <= rows'[j]
        /\ matched[j] <= matched'[j]
        /\ snapped[j] <= snapped'[j]

\* What a worker relies on survives the steps of the others.
LEMMA OthersOK ==
    ASSUME IInv, TypeOK', \A j \in Jobs : JobOK(j)', Grows, NEW v \in Workers,
           /\ worker'[v].pc = worker[v].pc
           /\ worker'[v].job = worker[v].job
           /\ worker'[v].view = worker[v].view
           /\ worker'[v].next = worker[v].next
           /\ worker'[v].vendor = worker[v].vendor,
           At(v, "snapshotWrite") => worker'[v].saw = worker[v].saw,
           At(v, "parse") /\ worker[v].next > 1 =>
               rows'[MyJob(v)] = rows[MyJob(v)]
    PROVE  WorkerOK(v)'
<1> DEFINE j0 == MyJob(v)
<1>1. WorkerOK(v)
    BY DEF IInv
<1>2. My(v)' = My(v) /\ MyJob(v)' = j0 /\ (Engaged(v)' <=> Engaged(v))
      /\ \A pc \in PCs : At(v, pc)' <=> At(v, pc)
    BY DEF My, MyJob, Engaged, At
<1>3. CASE ~Engaged(v)
    BY <1>1, <1>2, <1>3 DEF WorkerOK, Engaged, At, My
<1>4. CASE Engaged(v)
  <2>1. j0 \in Jobs /\ Exists(j0) /\ My(v).content = job[j0].content
      BY <1>4, Holds DEF MyJob, My, Exists
  <2>2. /\ Exists(j0)' /\ job'[j0].content = job[j0].content
        /\ SizeOf(j0)' = SizeOf(j0)
        /\ job[j0].status # "PENDING" => job'[j0].status # "PENDING"
      BY <1>2, <2>1 DEF Grows, SizeOf, Exists
  <2>3. /\ rows[j0] \in Nat /\ rows'[j0] \in Nat /\ rows[j0] <= rows'[j0]
        /\ matched[j0] \in Nat /\ matched'[j0] \in Nat /\ matched[j0] <= matched'[j0]
        /\ snapped[j0] \in Nat /\ snapped'[j0] \in Nat /\ snapped[j0] <= snapped'[j0]
        /\ SizeOf(j0) \in Nat
        /\ worker[v].next \in Nat
      BY <2>1, Holds DEF Grows, IInv, TypeOK, JobOK, SizeOf
  <2>4. rows'[j0] <= SizeOf(j0) /\ matched'[j0] <= SizeOf(j0)
      BY <1>2, <2>1, <2>2 DEF JobOK, Exists, SizeOf
  <2>5. My(v).content = job'[j0].content /\ SizeOf(MyJob(v))' = SizeOf(j0)
      BY <1>2, <2>1, <2>2 DEF SizeOf
  <2> QED BY <1>1, <1>2, <1>4, <2>1, <2>2, <2>3, <2>4, <2>5
          DEF WorkerOK, At, My, MyJob, Engaged, Exists, SizeOf
<1> QED BY <1>3, <1>4

\* A step after which the worker that took it is staging no rows.
LEMMA OneParserKept ==
    ASSUME IInv, NEW w \in Workers, worker'[w].pc # "parse",
           \A v \in Workers \ {w} :
               /\ worker'[v].pc = worker[v].pc
               /\ worker'[v].job = worker[v].job
               /\ worker'[v].next = worker[v].next
    PROVE  OneParser'
    BY DEF IInv, OneParser, At, MyJob

\* A step that rewrites one job row, keeps its counters and claims no more
\* than the tables show.
LEMMA RowRewritten ==
    ASSUME IInv, NEW j0 \in Jobs, Exists(j0), job' \in [Jobs -> JobRows],
           UNCHANGED <<file, rows, matched, snapped>>,
           \A j \in Jobs \ {j0} : job'[j] = job[j],
           job'[j0].content = job[j0].content,
           job'[j0].total = job[j0].total,
           job'[j0].errors = job[j0].errors,
           job'[j0].status # "ABSENT",
           job'[j0].status = "PENDING" => job[j0].status = "PENDING",
           job'[j0].stage \in {"MATCHING", "SNAPSHOTTING"} => rows[j0] = SizeOf(j0),
           job'[j0].stage = "SNAPSHOTTING" => matched[j0] = SizeOf(j0),
           job'[j0].status \in Completed =>
               /\ rows[j0] = SizeOf(j0)
               /\ matched[j0] = SizeOf(j0)
               /\ snapped[j0] = SizeOf(j0)
    PROVE  (\A j \in Jobs : JobOK(j)') /\ Grows
<1>1. ASSUME NEW j \in Jobs, j # j0 PROVE JobOK(j)'
    BY <1>1 DEF IInv, JobOK, Exists, SizeOf, Completed
<1>2. JobOK(j0)'
    BY DEF IInv, JobOK, Exists, SizeOf
<1>3. Grows
    BY DEF Grows, Exists, IInv, TypeOK
<1> QED BY <1>1, <1>2, <1>3

\* A step that leaves the jobs and their progress as they are.
LEMMA TablesKept ==
    ASSUME IInv, UNCHANGED <<file, job, rows, matched, snapped>>
    PROVE  (\A j \in Jobs : JobOK(j)') /\ Grows
<1>1. \A j \in Jobs : JobOK(j)'
    BY DEF IInv, JobOK, Exists, SizeOf
<1>2. Grows
    BY DEF Grows, Exists, IInv, TypeOK
<1> QED BY <1>1, <1>2

\* What an existing job's row may claim.
LEMMA Claims ==
    ASSUME IInv, NEW j \in Jobs, Exists(j)
    PROVE  /\ job[j].content \in Contents /\ SizeOf(j) \in Nat
           /\ rows[j] \in Nat /\ matched[j] \in Nat /\ snapped[j] \in Nat
           /\ rows[j] <= SizeOf(j)
           /\ job[j].total = rows[j]
           /\ job[j].errors = HasErrors(job[j].content, rows[j])
           /\ job[j].stage \in {"MATCHING", "SNAPSHOTTING"} => rows[j] = SizeOf(j)
           /\ job[j].stage = "SNAPSHOTTING" => matched[j] = SizeOf(j)
           /\ job[j].status \in Completed =>
                /\ rows[j] = SizeOf(j)
                /\ matched[j] = SizeOf(j)
                /\ snapped[j] = SizeOf(j)
    BY DEF IInv, JobOK, TypeOK, SizeOf

LEMMA FailIInv ==
    ASSUME IInv, NEW w \in Workers, Fail(w)
    PROVE  IInv'
<1> DEFINE new == [My(w) EXCEPT !.status = "FAILED", !.stage = "NULL"]
           j0 == MyJob(w)
<1>0. Engaged(w)
    BY DEF Fail, Engaged, At
<1>1. /\ j0 \in Jobs /\ Exists(j0) /\ My(w) \in JobRows
    BY <1>0, Holds DEF MyJob, My, Exists
<1>2. /\ Save(w, new) /\ Leave(w)
      /\ UNCHANGED <<file, stored, rows, matched, lines, snapped,
                     crashes, closes, losses>>
    BY DEF Fail
<1>3. /\ new \in JobRows /\ new.status = "FAILED" /\ new.stage = "NULL"
      /\ new.total = My(w).total /\ new.errors = My(w).errors
    BY <1>1 DEF JobRows, Statuses, Stages
<1> HIDE DEF new, j0
<1>4. /\ job' \in [Jobs -> JobRows]
      /\ \A j \in Jobs \ {j0} : job'[j] = job[j]
      /\ job'[j0].content = job[j0].content
      /\ job'[j0].total = job[j0].total
      /\ job'[j0].errors = job[j0].errors
      /\ job'[j0].status \in {"FAILED", job[j0].status}
      /\ job'[j0].stage \in {"NULL", job[j0].stage}
    BY <1>0, <1>2, <1>3, SaveRow DEF j0
<1>5. TypeOK'
    BY <1>2, <1>4, LeaveWorker DEF IInv, TypeOK
<1>7. (\A j \in Jobs : JobOK(j)') /\ Grows
    BY <1>1, <1>2, <1>4, Claims, RowRewritten DEF Completed, Exists
<1>8. ASSUME NEW v \in Workers PROVE WorkerOK(v)'
    BY <1>2, <1>5, <1>7, LeaveWorker, OthersOK DEF WorkerOK, Engaged, At, My
<1>9. OneParser'
    BY <1>2, LeaveWorker, OneParserKept
<1> QED BY <1>5, <1>7, <1>8, <1>9 DEF IInv
LEMMA StartIInv ==
    ASSUME IInv, NEW w \in Workers, Start(w)
    PROVE  IInv'
<1> DEFINE new == [My(w) EXCEPT !.status = "RUNNING", !.stage = "PARSING"]
           j0 == MyJob(w)
<1>0. Engaged(w) /\ At(w, "start")
    BY DEF Start, Engaged, At
<1>1. /\ j0 \in Jobs /\ Exists(j0) /\ job[j0] \in JobRows /\ My(w) \in JobRows
      /\ My(w).content = job[j0].content
      /\ My(w).total = 0 /\ My(w).errors = FALSE
    BY <1>0, Holds DEF MyJob, My, Exists, IInv, WorkerOK
<1>2. PICK pc \in {"parse", "fail"} :
         \/ RollBack(w, "fail") /\ UNCHANGED job
         \/ Save(w, new) /\ Goto(w, pc, new, 1)
    BY DEF Start
<1>3. UNCHANGED <<file, stored, rows, matched, lines, snapped,
                  crashes, closes, losses>>
    BY DEF Start
<1>4. /\ new \in JobRows /\ new.status = "RUNNING" /\ new.stage = "PARSING"
      /\ new.total = My(w).total /\ new.errors = My(w).errors
      /\ new.content = My(w).content
    BY <1>1 DEF JobRows, Statuses, Stages
<1> HIDE DEF new, j0
<1>5. CASE RollBack(w, "fail") /\ UNCHANGED job
  <2>1. TypeOK'
      BY <1>0, <1>3, <1>5, RollBackWorker DEF IInv, TypeOK, PCs
  <2>2. (\A j \in Jobs : JobOK(j)') /\ Grows
      BY <1>3, <1>5, TablesKept
  <2>3. WorkerOK(w)'
      BY <1>0, <1>1, <1>5, RollBackWorker
         DEF WorkerOK, Engaged, At, My, MyJob, Exists, j0, PCs
  <2>4. ASSUME NEW v \in Workers \ {w} PROVE WorkerOK(v)'
      BY <1>0, <1>3, <1>5, <2>1, <2>2, RollBackWorker, OthersOK DEF PCs
  <2>5. OneParser'
      BY <1>0, <1>5, RollBackWorker, OneParserKept DEF PCs
  <2> QED BY <2>1, <2>2, <2>3, <2>4, <2>5 DEF IInv
<1>6. CASE Save(w, new) /\ Goto(w, pc, new, 1)
  <2>1. /\ job' \in [Jobs -> JobRows]
        /\ \A j \in Jobs \ {j0} : job'[j] = job[j]
        /\ job'[j0].content = job[j0].content
        /\ job'[j0].total = job[j0].total
        /\ job'[j0].errors = job[j0].errors
        /\ job'[j0].status \in {"RUNNING", job[j0].status}
        /\ job'[j0].stage \in {"PARSING", job[j0].stage}
        /\ My(w).status = "PENDING" => job'[j0].status = "RUNNING"
      BY <1>0, <1>4, <1>6, SaveRow DEF j0
  <2>2. /\ worker' \in [Workers -> WorkerStates]
        /\ \A v \in Workers \ {w} : worker'[v] = worker[v]
        /\ worker'[w].pc = pc /\ worker'[w].view = new /\ worker'[w].next = 1
        /\ worker'[w].job = worker[w].job
      BY <1>4, <1>6, GotoWorker DEF PCs
  <2>3. TypeOK'
      BY <1>3, <2>1, <2>2 DEF IInv, TypeOK
  <2>4. (\A j \in Jobs : JobOK(j)') /\ Grows
      BY <1>1, <1>3, <2>1, Claims, RowRewritten DEF Completed, Exists
  <2>5. WorkerOK(w)'
    <3>1. MyJob(w)' = j0 /\ My(w)' = new /\ SizeOf(MyJob(w))' \in Nat
        BY <1>1, <2>1, <2>2, Claims DEF SizeOf, MyJob, My, j0
    <3>2. worker'[w].next - 1 = 0 /\ new.total = 0 /\ new.errors = FALSE
        BY <1>1, <1>4, <2>2
    <3>3. new.errors = HasErrors(new.content, worker'[w].next - 1)
      <4>1. HasErrors(new.content, 0) = FALSE
          BY DEF HasErrors
      <4> QED BY <3>2, <4>1
    <3>4. /\ MyJob(w)' \in Jobs /\ Exists(MyJob(w))'
          /\ My(w)'.content = job'[MyJob(w)'].content
          /\ job'[MyJob(w)'].status # "PENDING"
      <4>1. My(w).status = "PENDING"
          BY <1>0 DEF IInv, WorkerOK
      <4> QED BY <1>1, <1>4, <2>1, <3>1, <4>1 DEF Exists
    <3>5. CASE pc = "parse"
      <4>1. worker'[w].next \in 1 .. SizeOf(MyJob(w))' + 1
          BY <2>2, <3>1
      <4> QED BY <1>4, <2>2, <3>1, <3>2, <3>3, <3>4, <3>5, <4>1
              DEF WorkerOK, Engaged, At
    <3>6. CASE pc = "fail"
        BY <2>2, <3>4, <3>6 DEF WorkerOK, Engaged, At
    <3> QED BY <3>5, <3>6
  <2>6. ASSUME NEW v \in Workers \ {w} PROVE WorkerOK(v)'
      BY <1>3, <2>2, <2>3, <2>4, OthersOK
  <2>7. OneParser'
      BY <2>2 DEF IInv, OneParser, At, MyJob
  <2> QED BY <2>3, <2>4, <2>5, <2>6, <2>7 DEF IInv
<1> QED BY <1>2, <1>5, <1>6

LEMMA ReconcileIInv ==
    ASSUME IInv, NEW w \in Workers, Reconcile(w)
    PROVE  IInv'
<1> DEFINE c == My(w).content
           j0 == MyJob(w)
           n == rows[j0]
           new == [My(w) EXCEPT !.total = n, !.errors = HasErrors(c, n)]
<1>0. Engaged(w) /\ At(w, "parse")
    BY DEF Reconcile, Engaged, At
<1>1. /\ j0 \in Jobs /\ Exists(j0) /\ My(w) \in JobRows
      /\ c = job[j0].content /\ c \in Contents
    BY <1>0, Holds, Claims DEF MyJob, My, Exists
<1>2. /\ worker[w].next > SizeOf(j0)
      /\ Save(w, new) /\ Goto(w, "parsed", new, 1)
      /\ UNCHANGED <<file, stored, rows, matched, lines, snapped,
                     crashes, closes, losses>>
    BY <1>1 DEF Reconcile, SizeOf
<1>3. n = SizeOf(j0) /\ n \in Nat /\ My(w).total = n
      /\ My(w).errors = HasErrors(c, n)
      /\ My(w).status = "RUNNING" /\ My(w).stage = "PARSING"
      /\ job[j0].status # "PENDING"
    <2>1. WorkerOK(w)
        BY DEF IInv
    <2>2. /\ worker[w].next \in Nat /\ worker[w].next = SizeOf(j0) + 1
          /\ worker[w].next > 1 => rows[j0] = worker[w].next - 1
          /\ My(w).total = worker[w].next - 1
          /\ My(w).errors = HasErrors(c, worker[w].next - 1)
        BY <1>0, <1>1, <1>2, <2>1, Claims, Holds DEF WorkerOK
    <2>3. n = SizeOf(j0) /\ n \in Nat
        BY <1>1, <2>2, Claims
    <2> QED BY <1>0, <1>1, <2>1, <2>2, <2>3 DEF WorkerOK, At
<1>4. /\ new \in JobRows /\ new.status = My(w).status /\ new.stage = My(w).stage
      /\ new.total = My(w).total /\ new.errors = My(w).errors
      /\ new.content = c
    BY <1>1, <1>3 DEF JobRows, HasErrors
<1> HIDE DEF new, j0, c
<1>5. /\ job' \in [Jobs -> JobRows]
      /\ \A j \in Jobs \ {j0} : job'[j] = job[j]
      /\ job'[j0].content = job[j0].content
      /\ job'[j0].total = job[j0].total
      /\ job'[j0].errors = job[j0].errors
      /\ job'[j0].status = job[j0].status
      /\ job'[j0].stage = job[j0].stage
    BY <1>0, <1>2, <1>4, SaveRow DEF j0
<1>6. /\ worker' \in [Workers -> WorkerStates]
      /\ \A v \in Workers \ {w} : worker'[v] = worker[v]
      /\ worker'[w].pc = "parsed" /\ worker'[w].view = new
      /\ worker'[w].job = worker[w].job
    BY <1>2, <1>4, GotoWorker DEF PCs
<1>7. TypeOK'
    BY <1>2, <1>5, <1>6 DEF IInv, TypeOK
<1>8. (\A j \in Jobs : JobOK(j)') /\ Grows
    BY <1>1, <1>2, <1>5, Claims, RowRewritten DEF Exists
<1>9. WorkerOK(w)'
    BY <1>1, <1>2, <1>3, <1>4, <1>5, <1>6
       DEF WorkerOK, Engaged, At, Exists, SizeOf, My, MyJob, j0
<1>10. ASSUME NEW v \in Workers \ {w} PROVE WorkerOK(v)'
    BY <1>2, <1>6, <1>7, <1>8, OthersOK
<1>11. OneParser'
    BY <1>6, OneParserKept
<1> QED BY <1>7, <1>8, <1>9, <1>10, <1>11 DEF IInv
LEMMA FinishParsingIInv ==
    ASSUME IInv, NEW w \in Workers, FinishParsing(w)
    PROVE  IInv'
<1> DEFINE new == [My(w) EXCEPT !.stage = "MATCHING"]
           j0 == MyJob(w)
           pc == Dispatch(w, new)
<1>0. Engaged(w) /\ At(w, "parsed")
    BY DEF FinishParsing, Engaged, At
<1>1. /\ j0 \in Jobs /\ Exists(j0) /\ My(w) \in JobRows
      /\ My(w).content = job[j0].content
      /\ My(w).status = "RUNNING" /\ My(w).stage = "PARSING"
      /\ rows[j0] = SizeOf(j0)
      /\ My(w).errors = HasErrors(My(w).content, SizeOf(j0))
      /\ job[j0].status # "PENDING"
    BY <1>0, Holds DEF MyJob, My, Exists, IInv, WorkerOK, At
<1>2. /\ Save(w, new) /\ Goto(w, pc, new, 1)
      /\ UNCHANGED <<file, stored, rows, matched, lines, snapped,
                     crashes, closes, losses>>
    BY DEF FinishParsing
<1>3. /\ new \in JobRows /\ new.status = "RUNNING" /\ new.stage = "MATCHING"
      /\ new.total = My(w).total /\ new.errors = My(w).errors
      /\ new.content = My(w).content
    BY <1>1 DEF JobRows, Stages
<1>4. pc \in {"hold", "match"}
    BY <1>3 DEF Dispatch
<1> HIDE DEF new, j0, pc
<1>5. /\ job' \in [Jobs -> JobRows]
      /\ \A j \in Jobs \ {j0} : job'[j] = job[j]
      /\ job'[j0].content = job[j0].content
      /\ job'[j0].total = job[j0].total
      /\ job'[j0].errors = job[j0].errors
      /\ job'[j0].status \in {"RUNNING", job[j0].status}
      /\ job'[j0].stage = "MATCHING"
    BY <1>0, <1>1, <1>2, <1>3, SaveRow DEF j0
<1>6. /\ worker' \in [Workers -> WorkerStates]
      /\ \A v \in Workers \ {w} : worker'[v] = worker[v]
      /\ worker'[w].pc = pc /\ worker'[w].view = new /\ worker'[w].next = 1
      /\ worker'[w].job = worker[w].job
    BY <1>2, <1>3, <1>4, GotoWorker DEF PCs
<1>7. TypeOK'
    BY <1>2, <1>5, <1>6 DEF IInv, TypeOK
<1>8. (\A j \in Jobs : JobOK(j)') /\ Grows
    BY <1>1, <1>2, <1>5, Claims, RowRewritten DEF Exists, Completed
<1>9. WorkerOK(w)'
  <2>1. MyJob(w)' = j0 /\ My(w)' = new /\ SizeOf(j0) \in Nat
        /\ SizeOf(MyJob(w))' = SizeOf(j0) /\ matched'[j0] \in Nat
      BY <1>1, <1>5, <1>6, <1>7, Claims DEF SizeOf, MyJob, My, j0, TypeOK
  <2>2. /\ MyJob(w)' \in Jobs /\ Exists(MyJob(w))'
        /\ My(w)'.content = job'[MyJob(w)'].content
        /\ job'[MyJob(w)'].status # "PENDING"
      BY <1>1, <1>3, <1>5, <2>1 DEF Exists
  <2>3. worker'[w].next \in 1 .. SizeOf(j0) + 1 /\ worker'[w].next - 1 <= matched'[j0]
      BY <1>6, <2>1
  <2> QED BY <1>1, <1>2, <1>3, <1>4, <1>6, <2>1, <2>2, <2>3
          DEF WorkerOK, Engaged, At
<1>10. ASSUME NEW v \in Workers \ {w} PROVE WorkerOK(v)'
    BY <1>2, <1>6, <1>7, <1>8, OthersOK
<1>11. OneParser'
    BY <1>4, <1>6, OneParserKept
<1> QED BY <1>7, <1>8, <1>9, <1>10, <1>11 DEF IInv

LEMMA FinishMatchingIInv ==
    ASSUME IInv, NEW w \in Workers, FinishMatching(w)
    PROVE  IInv'
<1> DEFINE new == [My(w) EXCEPT !.stage = "SNAPSHOTTING"]
           j0 == MyJob(w)
<1>0. Engaged(w) /\ At(w, "match")
    BY DEF FinishMatching, Engaged, At
<1>1. /\ j0 \in Jobs /\ Exists(j0) /\ My(w) \in JobRows
      /\ My(w).content = job[j0].content
      /\ My(w).stage = "MATCHING"
      /\ rows[j0] = SizeOf(j0)
      /\ My(w).errors = HasErrors(My(w).content, SizeOf(j0))
      /\ job[j0].status # "PENDING"
      /\ worker[w].next \in 1 .. SizeOf(j0) + 1
      /\ worker[w].next - 1 <= matched[j0]
    BY <1>0, Holds DEF MyJob, My, Exists, IInv, WorkerOK, At
<1>2. /\ worker[w].next > rows[j0]
      /\ Save(w, new) /\ Goto(w, "snapshot", new, 1)
      /\ UNCHANGED <<file, stored, rows, matched, lines, snapped,
                     crashes, closes, losses>>
    BY DEF FinishMatching
<1>3. /\ new \in JobRows /\ new.status = My(w).status /\ new.stage = "SNAPSHOTTING"
      /\ new.total = My(w).total /\ new.errors = My(w).errors
      /\ new.content = My(w).content
    BY <1>1 DEF JobRows, Stages
<1>4. SizeOf(j0) \in Nat /\ matched[j0] = SizeOf(j0)
  <2>1. matched[j0] \in Nat /\ matched[j0] <= SizeOf(j0) /\ SizeOf(j0) \in Nat
      BY <1>1, Claims DEF IInv, JobOK, Exists
  <2> QED BY <1>1, <1>2, <2>1
<1> HIDE DEF new, j0
<1>5. /\ job' \in [Jobs -> JobRows]
      /\ \A j \in Jobs \ {j0} : job'[j] = job[j]
      /\ job'[j0].content = job[j0].content
      /\ job'[j0].total = job[j0].total
      /\ job'[j0].errors = job[j0].errors
      /\ job'[j0].status = job[j0].status
      /\ job'[j0].stage = "SNAPSHOTTING"
    BY <1>0, <1>1, <1>2, <1>3, SaveRow DEF j0
<1>6. /\ worker' \in [Workers -> WorkerStates]
      /\ \A v \in Workers \ {w} : worker'[v] = worker[v]
      /\ worker'[w].pc = "snapshot" /\ worker'[w].view = new /\ worker'[w].next = 1
      /\ worker'[w].job = worker[w].job
    BY <1>2, <1>3, GotoWorker DEF PCs
<1>7. TypeOK'
    BY <1>2, <1>5, <1>6 DEF IInv, TypeOK
<1>8. (\A j \in Jobs : JobOK(j)') /\ Grows
    BY <1>1, <1>2, <1>4, <1>5, Claims, RowRewritten DEF Exists
<1>9. WorkerOK(w)'
  <2>1. MyJob(w)' = j0 /\ My(w)' = new
        /\ SizeOf(MyJob(w))' = SizeOf(j0) /\ snapped'[j0] \in Nat
      BY <1>1, <1>5, <1>6, <1>7 DEF SizeOf, MyJob, My, j0, TypeOK
  <2>2. /\ MyJob(w)' \in Jobs /\ Exists(MyJob(w))'
        /\ My(w)'.content = job'[MyJob(w)'].content
        /\ job'[MyJob(w)'].status # "PENDING"
      BY <1>1, <1>3, <1>5, <2>1 DEF Exists
  <2>3. worker'[w].next \in 1 .. SizeOf(j0) + 1 /\ worker'[w].next - 1 <= snapped'[j0]
      BY <1>4, <1>6, <2>1
  <2> QED BY <1>1, <1>2, <1>3, <1>4, <1>6, <2>1, <2>2, <2>3
          DEF WorkerOK, Engaged, At
<1>10. ASSUME NEW v \in Workers \ {w} PROVE WorkerOK(v)'
    BY <1>2, <1>6, <1>7, <1>8, OthersOK
<1>11. OneParser'
    BY <1>6, OneParserKept
<1> QED BY <1>7, <1>8, <1>9, <1>10, <1>11 DEF IInv

LEMMA CompleteIInv ==
    ASSUME IInv, NEW w \in Workers, Complete(w)
    PROVE  IInv'
<1> DEFINE new == [My(w) EXCEPT !.stage = "NULL",
                        !.status = IF My(w).errors
                                   THEN "COMPLETED_WITH_ERRORS"
                                   ELSE "COMPLETED"]
           j0 == MyJob(w)
<1>0. Engaged(w) /\ At(w, "snapshot")
    BY DEF Complete, Engaged, At
<1>1. /\ j0 \in Jobs /\ Exists(j0) /\ My(w) \in JobRows
      /\ rows[j0] = SizeOf(j0) /\ matched[j0] = SizeOf(j0)
      /\ worker[w].next \in 1 .. SizeOf(j0) + 1
      /\ worker[w].next - 1 <= snapped[j0]
      /\ worker[w].next > matched[j0]
    BY <1>0, Holds DEF MyJob, My, Exists, IInv, WorkerOK, At, Complete
<1>2. /\ UNCHANGED job \/ Save(w, new)
      /\ Leave(w)
      /\ UNCHANGED <<file, stored, rows, matched, lines, snapped,
                     crashes, closes, losses>>
    BY DEF Complete
<1>3. /\ new \in JobRows /\ new.status \in Completed /\ new.stage = "NULL"
      /\ new.total = My(w).total /\ new.errors = My(w).errors
    BY <1>1 DEF JobRows, Statuses, Stages, Completed
<1>4. snapped[j0] = SizeOf(j0)
  <2>1. snapped[j0] \in Nat /\ snapped[j0] <= SizeOf(j0) /\ SizeOf(j0) \in Nat
      BY <1>1, Claims DEF IInv, JobOK, Exists
  <2> QED BY <1>1, <2>1
<1> HIDE DEF new, j0
<1>5. /\ job' \in [Jobs -> JobRows]
      /\ \A j \in Jobs \ {j0} : job'[j] = job[j]
      /\ job'[j0].content = job[j0].content
      /\ job'[j0].total = job[j0].total
      /\ job'[j0].errors = job[j0].errors
      /\ job'[j0].status \in Completed \union {job[j0].status}
      /\ job'[j0].stage \in {"NULL", job[j0].stage}
  <2>1. CASE UNCHANGED job
      BY <2>1 DEF IInv, TypeOK
  <2>2. CASE Save(w, new)
      BY <1>0, <1>3, <2>2, SaveRow DEF j0
  <2> QED BY <1>2, <2>1, <2>2
<1>6. TypeOK'
    BY <1>2, <1>5, LeaveWorker DEF IInv, TypeOK
<1>7. (\A j \in Jobs : JobOK(j)') /\ Grows
    BY <1>1, <1>2, <1>4, <1>5, Claims, RowRewritten DEF Completed, Exists
<1>8. ASSUME NEW v \in Workers PROVE WorkerOK(v)'
    BY <1>2, <1>6, <1>7, LeaveWorker, OthersOK DEF WorkerOK, Engaged, At, My
<1>9. OneParser'
    BY <1>2, LeaveWorker, OneParserKept
<1> QED BY <1>6, <1>7, <1>8, <1>9 DEF IInv

LEMMA OperatorCloseIInv ==
    ASSUME IInv, NEW j0 \in Jobs, OperatorClose(j0)
    PROVE  IInv'
<1>1. /\ Exists(j0) /\ job[j0] \in JobRows
      /\ job' = [job EXCEPT ![j0] = [@ EXCEPT !.status = "FAILED", !.stage = "NULL"]]
      /\ closes' \in 0 .. MaxCloses
      /\ UNCHANGED <<file, stored, rows, matched, lines, snapped, worker,
                     crashes, losses>>
    BY DEF OperatorClose, Exists, IInv, TypeOK
<1>2. /\ job' \in [Jobs -> JobRows]
      /\ \A j \in Jobs \ {j0} : job'[j] = job[j]
      /\ job'[j0].content = job[j0].content
      /\ job'[j0].total = job[j0].total
      /\ job'[j0].errors = job[j0].errors
      /\ job'[j0].status = "FAILED"
      /\ job'[j0].stage = "NULL"
    BY <1>1 DEF IInv, TypeOK, JobRows, Statuses, Stages
<1>3. TypeOK'
    BY <1>1, <1>2 DEF IInv, TypeOK
<1>4. (\A j \in Jobs : JobOK(j)') /\ Grows
    BY <1>1, <1>2, RowRewritten DEF Completed
<1>5. ASSUME NEW v \in Workers PROVE WorkerOK(v)'
    BY <1>1, <1>3, <1>4, OthersOK
<1>6. OneParser'
    BY <1>1 DEF IInv, OneParser, At, MyJob
<1> QED BY <1>3, <1>4, <1>5, <1>6 DEF IInv

LEMMA LoseObjectIInv ==
    ASSUME IInv, NEW c \in Contents, LoseObject(c)
    PROVE  IInv'
<1>1. /\ stored' \subseteq stored /\ losses' \in 0 .. MaxLosses
      /\ UNCHANGED <<file, job, rows, matched, lines, snapped, worker,
                     crashes, closes>>
    BY DEF LoseObject, IInv, TypeOK
<1>2. TypeOK'
    BY <1>1 DEF IInv, TypeOK
<1>3. (\A j \in Jobs : JobOK(j)') /\ Grows
    BY <1>1, TablesKept
<1>4. ASSUME NEW v \in Workers PROVE WorkerOK(v)'
    BY <1>1, <1>2, <1>3, OthersOK
<1>5. OneParser'
    BY <1>1 DEF IInv, OneParser, At, MyJob
<1> QED BY <1>2, <1>3, <1>4, <1>5 DEF IInv
LEMMA CrashIInv ==
    ASSUME IInv, NEW w \in Workers, Crash(w)
    PROVE  IInv'
<1>1. /\ Leave(w) /\ crashes' \in 0 .. MaxCrashes
      /\ UNCHANGED <<file, stored, job, rows, matched, lines, snapped,
                     closes, losses>>
    BY DEF Crash, dbVars, IInv, TypeOK
<1>2. TypeOK'
    BY <1>1, LeaveWorker DEF IInv, TypeOK
<1>3. (\A j \in Jobs : JobOK(j)') /\ Grows
    BY <1>1, TablesKept
<1>4. ASSUME NEW v \in Workers PROVE WorkerOK(v)'
    BY <1>1, <1>2, <1>3, LeaveWorker, OthersOK DEF WorkerOK, Engaged, At, My
<1>5. OneParser'
    BY <1>1, LeaveWorker, OneParserKept
<1> QED BY <1>2, <1>3, <1>4, <1>5 DEF IInv

LEMMA ReadForMatchIInv ==
    ASSUME IInv, NEW w \in Workers, ReadForMatch(w)
    PROVE  IInv'
<1> DEFINE saw == IF <<VendorOf(w), worker[w].next>> \in lines
                  THEN "present" ELSE "absent"
           me == [worker[w] EXCEPT !.pc = "matchWrite", !.saw = saw]
<1>0. Engaged(w) /\ At(w, "match") /\ worker[w].next <= rows[MyJob(w)]
    BY DEF ReadForMatch, Engaged, At
<1>1. /\ worker' = [worker EXCEPT ![w] = me]
      /\ UNCHANGED <<file, stored, job, rows, matched, lines, snapped,
                     crashes, closes, losses>>
    BY DEF ReadForMatch, dbVars
<1>9. saw \in {"absent", "present"} /\ worker[w] \in WorkerStates
    BY DEF IInv, TypeOK
<1> HIDE DEF saw
<1>2. /\ me \in WorkerStates /\ me.pc = "matchWrite" /\ me.job = worker[w].job
      /\ me.view = worker[w].view /\ me.next = worker[w].next
    BY <1>9 DEF WorkerStates, PCs
<1> HIDE DEF me
<1>3. /\ worker' \in [Workers -> WorkerStates]
      /\ worker'[w] = me
      /\ \A v \in Workers \ {w} : worker'[v] = worker[v]
    BY <1>1, <1>2 DEF IInv, TypeOK
<1>4. TypeOK'
    BY <1>1, <1>3 DEF IInv, TypeOK
<1>5. (\A j \in Jobs : JobOK(j)') /\ Grows
    BY <1>1, TablesKept
<1>6. WorkerOK(w)'
  <2>1. WorkerOK(w)
      BY DEF IInv
  <2> QED BY <1>0, <1>1, <1>2, <1>3, <2>1
          DEF WorkerOK, Engaged, At, My, MyJob, Exists, SizeOf
<1>7. ASSUME NEW v \in Workers \ {w} PROVE WorkerOK(v)'
    BY <1>1, <1>3, <1>4, <1>5, OthersOK
<1>8. OneParser'
    BY <1>2, <1>3, OneParserKept
<1> QED BY <1>4, <1>5, <1>6, <1>7, <1>8 DEF IInv

LEMMA ReadForSnapshotIInv ==
    ASSUME IInv, NEW w \in Workers, ReadForSnapshot(w)
    PROVE  IInv'
<1> DEFINE saw == IF worker[w].next <= snapped[MyJob(w)]
                  THEN "present" ELSE "absent"
           me == [worker[w] EXCEPT !.pc = "snapshotWrite", !.saw = saw]
<1>0. Engaged(w) /\ At(w, "snapshot") /\ worker[w].next <= matched[MyJob(w)]
    BY DEF ReadForSnapshot, Engaged, At
<1>1. /\ worker' = [worker EXCEPT ![w] = me]
      /\ UNCHANGED <<file, stored, job, rows, matched, lines, snapped,
                     crashes, closes, losses>>
    BY DEF ReadForSnapshot, dbVars
<1>9. /\ saw \in {"absent", "present"} /\ worker[w] \in WorkerStates
      /\ saw = "present" => worker[w].next <= snapped[MyJob(w)]
    BY DEF IInv, TypeOK
<1> HIDE DEF saw
<1>2. /\ me \in WorkerStates /\ me.pc = "snapshotWrite" /\ me.job = worker[w].job
      /\ me.view = worker[w].view /\ me.next = worker[w].next
      /\ me.saw = "present" => worker[w].next <= snapped[MyJob(w)]
    BY <1>9 DEF WorkerStates, PCs
<1> HIDE DEF me
<1>3. /\ worker' \in [Workers -> WorkerStates]
      /\ worker'[w] = me
      /\ \A v \in Workers \ {w} : worker'[v] = worker[v]
    BY <1>1, <1>2 DEF IInv, TypeOK
<1>4. TypeOK'
    BY <1>1, <1>3 DEF IInv, TypeOK
<1>5. (\A j \in Jobs : JobOK(j)') /\ Grows
    BY <1>1, TablesKept
<1>6. WorkerOK(w)'
  <2>1. WorkerOK(w)
      BY DEF IInv
  <2> QED BY <1>0, <1>1, <1>2, <1>3, <2>1
          DEF WorkerOK, Engaged, At, My, MyJob, Exists, SizeOf
<1>7. ASSUME NEW v \in Workers \ {w} PROVE WorkerOK(v)'
    BY <1>1, <1>3, <1>4, <1>5, OthersOK
<1>8. OneParser'
    BY <1>2, <1>3, OneParserKept
<1> QED BY <1>4, <1>5, <1>6, <1>7, <1>8 DEF IInv

LEMMA SnapshotChunkIInv ==
    ASSUME IInv, NEW w \in Workers, SnapshotChunk(w)
    PROVE  IInv'
<1> DEFINE j0 == MyJob(w)
           k == worker[w].next
<1>0. Engaged(w) /\ At(w, "snapshotWrite")
    BY DEF SnapshotChunk, Engaged, At
<1>1. /\ j0 \in Jobs /\ Exists(j0) /\ My(w) \in JobRows /\ WorkerOK(w)
      /\ matched[j0] = SizeOf(j0)
      /\ k \in 1 .. SizeOf(j0) /\ k - 1 <= snapped[j0]
      /\ snapped[j0] \in Nat /\ snapped[j0] <= SizeOf(j0) /\ SizeOf(j0) \in Nat
  <2>1. j0 \in Jobs /\ Exists(j0) /\ My(w) \in JobRows /\ WorkerOK(w) /\ k \in Nat
      BY <1>0, Holds DEF MyJob, My, Exists, IInv
  <2>2. snapped[j0] \in Nat /\ snapped[j0] <= SizeOf(j0) /\ SizeOf(j0) \in Nat
      BY <2>1, Claims DEF IInv, JobOK, Exists
  <2> QED BY <1>0, <2>1, <2>2 DEF WorkerOK, At
<1>2. UNCHANGED <<file, stored, job, rows, matched, lines,
                  crashes, closes, losses>>
    BY DEF SnapshotChunk
<1>3. \/ Leave(w) /\ UNCHANGED snapped
      \/ /\ Goto(w, "snapshot", My(w), k + 1)
         /\ k <= snapped[j0] /\ UNCHANGED snapped
      \/ /\ Goto(w, "snapshot", My(w), k + 1)
         /\ k = snapped[j0] + 1 /\ snapped' = [snapped EXCEPT ![j0] = k]
    BY <1>0, <1>1 DEF SnapshotChunk, WorkerOK
<1>4. /\ snapped' \in [Jobs -> Nat]
      /\ \A j \in Jobs \ {j0} : snapped'[j] = snapped[j]
      /\ snapped'[j0] \in snapped[j0] .. SizeOf(j0)
      /\ Leave(w) \/ (Goto(w, "snapshot", My(w), k + 1) /\ k <= snapped'[j0])
    BY <1>1, <1>3 DEF IInv, TypeOK
<1> HIDE DEF j0, k
<1>5. /\ worker' \in [Workers -> WorkerStates]
      /\ \A v \in Workers \ {w} : worker'[v] = worker[v]
      /\ \/ worker'[w].pc = "idle"
         \/ /\ worker'[w].pc = "snapshot" /\ worker'[w].view = My(w)
            /\ worker'[w].next = k + 1 /\ worker'[w].job = worker[w].job
            /\ k <= snapped'[j0]
    BY <1>1, <1>4, LeaveWorker, GotoWorker DEF PCs
<1>6. TypeOK'
    BY <1>2, <1>4, <1>5 DEF IInv, TypeOK
<1>7. (\A j \in Jobs : JobOK(j)') /\ Grows
  <2>1. ASSUME NEW j \in Jobs, j # j0 PROVE JobOK(j)'
      BY <1>2, <1>4, <2>1 DEF IInv, JobOK, Exists, SizeOf
  <2>2. ASSUME NEW j \in Jobs, j = j0 PROVE JobOK(j)'
    <3>1. /\ JobOK(j) /\ Exists(j) /\ SizeOf(j)' = SizeOf(j)
          /\ matched[j] = SizeOf(j) /\ snapped'[j] <= SizeOf(j)
          /\ snapped'[j] \in Nat /\ snapped[j] <= snapped'[j]
          /\ snapped[j] \in Nat /\ snapped[j] <= SizeOf(j) /\ SizeOf(j) \in Nat
        BY <1>1, <1>2, <1>4, <2>2 DEF IInv, SizeOf
    <3> QED BY <1>2, <3>1 DEF JobOK, Exists
  <2>3. Grows
      BY <1>1, <1>2, <1>4 DEF Grows, Exists, IInv, TypeOK
  <2> QED BY <2>1, <2>2, <2>3
<1>8. WorkerOK(w)'
  <2>1. CASE worker'[w].pc = "idle"
      BY <2>1 DEF WorkerOK, Engaged, At
  <2>2. CASE /\ worker'[w].pc = "snapshot" /\ worker'[w].view = My(w)
             /\ worker'[w].next = k + 1 /\ worker'[w].job = worker[w].job
             /\ k <= snapped'[j0]
    <3>1. MyJob(w)' = j0 /\ My(w)' = My(w) /\ SizeOf(MyJob(w))' = SizeOf(j0)
        BY <1>2, <2>2 DEF SizeOf, MyJob, My, j0
    <3>2. /\ worker'[w].next \in 1 .. SizeOf(j0) + 1
          /\ worker'[w].next - 1 <= snapped'[j0]
        BY <1>1, <2>2
    <3> QED BY <1>0, <1>1, <1>2, <2>2, <3>1, <3>2 DEF WorkerOK, Engaged, At, Exists, j0
  <2> QED BY <1>5, <2>1, <2>2
<1>9. ASSUME NEW v \in Workers \ {w} PROVE WorkerOK(v)'
    BY <1>2, <1>5, <1>6, <1>7, OthersOK
<1>10. OneParser'
    BY <1>5, OneParserKept
<1> QED BY <1>6, <1>7, <1>8, <1>9, <1>10 DEF IInv
\* Making the others' reads stale touches nothing else of theirs.
LEMMA MakeStaleWorkers ==
    ASSUME NEW w \in Workers, NEW ws \in [Workers -> WorkerStates]
    PROVE  /\ MakeStale(w, ws) \in [Workers -> WorkerStates]
           /\ MakeStale(w, ws)[w] = ws[w]
           /\ \A v \in Workers :
                LET s == MakeStale(w, ws)[v] IN
                /\ s.pc = ws[v].pc
                /\ s.job = ws[v].job
                /\ s.view = ws[v].view
                /\ s.next = ws[v].next
                /\ s.vendor = ws[v].vendor
                /\ ws[v].pc # "matchWrite" => s.saw = ws[v].saw
<1>1. ASSUME NEW v \in Workers
      PROVE  LET s == [ws[v] EXCEPT !.saw = "stale"] IN
             /\ s \in WorkerStates
             /\ s.pc = ws[v].pc /\ s.job = ws[v].job /\ s.view = ws[v].view
             /\ s.next = ws[v].next /\ s.vendor = ws[v].vendor
    BY DEF WorkerStates
<1> QED BY <1>1 DEF MakeStale

LEMMA MatchChunkIInv ==
    ASSUME IInv, NEW w \in Workers, MatchChunk(w)
    PROVE  IInv'
<1> DEFINE j0 == MyJob(w)
           k == worker[w].next
           me == [worker[w] EXCEPT !.pc = "match", !.next = k + 1]
           ws == [worker EXCEPT ![w] = me]
<1>0. Engaged(w) /\ At(w, "matchWrite")
    BY DEF MatchChunk, Engaged, At
<1>1. /\ j0 \in Jobs /\ Exists(j0) /\ My(w) \in JobRows /\ WorkerOK(w)
      /\ rows[j0] = SizeOf(j0)
      /\ k \in 1 .. SizeOf(j0) /\ k - 1 <= matched[j0]
      /\ matched[j0] \in Nat /\ matched[j0] <= SizeOf(j0) /\ SizeOf(j0) \in Nat
      /\ VendorOf(w) \in Vendors
  <2>1. /\ j0 \in Jobs /\ Exists(j0) /\ My(w) \in JobRows /\ WorkerOK(w) /\ k \in Nat
        /\ My(w).content = job[j0].content
      BY <1>0, Holds DEF MyJob, My, Exists, IInv
  <2>2. /\ matched[j0] \in Nat /\ matched[j0] <= SizeOf(j0) /\ SizeOf(j0) \in Nat
        /\ file[job[j0].content] \in Vendors
      BY <2>1, Claims DEF IInv, JobOK, Exists
  <2> QED BY <1>0, <2>1, <2>2 DEF WorkerOK, At, VendorOf
<1>2. UNCHANGED <<file, stored, job, rows, snapped, crashes, closes, losses>>
    BY DEF MatchChunk
<1>3. /\ me \in WorkerStates /\ me.pc = "match" /\ me.next = k + 1
      /\ me.job = worker[w].job /\ me.view = worker[w].view
  <2>1. worker[w] \in WorkerStates /\ k + 1 \in Nat
      BY <1>1 DEF IInv, TypeOK
  <2> HIDE DEF k
  <2> QED BY <2>1 DEF WorkerStates, PCs
<1>4. \/ Leave(w) /\ UNCHANGED <<lines, matched>>
      \/ /\ lines' = lines \union {<<VendorOf(w), k>>}
         /\ matched' = [matched EXCEPT ![j0] = IF k > @ THEN k ELSE @]
         /\ worker' = MakeStale(w, ws)
    BY DEF MatchChunk
<1> HIDE DEF j0, me
<1>5. /\ lines' \subseteq Vendors \X Nat
      /\ matched' \in [Jobs -> Nat]
      /\ \A j \in Jobs \ {j0} : matched'[j] = matched[j]
      /\ matched'[j0] \in matched[j0] .. SizeOf(j0)
      /\ Leave(w) \/ (worker' = MakeStale(w, ws) /\ k <= matched'[j0])
    BY <1>1, <1>4 DEF IInv, TypeOK
<1>6. /\ worker' \in [Workers -> WorkerStates]
      /\ \A v \in Workers \ {w} :
            /\ worker'[v].pc = worker[v].pc
            /\ worker'[v].job = worker[v].job
            /\ worker'[v].view = worker[v].view
            /\ worker'[v].next = worker[v].next
            /\ worker'[v].vendor = worker[v].vendor
            /\ worker[v].pc # "matchWrite" => worker'[v].saw = worker[v].saw
      /\ worker'[w].pc = "idle" \/ (worker'[w] = me /\ k <= matched'[j0])
  <2>1. CASE Leave(w)
      BY <2>1, LeaveWorker
  <2>2. CASE worker' = MakeStale(w, ws) /\ k <= matched'[j0]
    <3>1. /\ ws \in [Workers -> WorkerStates] /\ ws[w] = me
          /\ \A v \in Workers \ {w} : ws[v] = worker[v]
        BY <1>3 DEF IInv, TypeOK
    <3> HIDE DEF ws
    <3> QED BY <2>2, <3>1, MakeStaleWorkers
  <2> QED BY <1>5, <2>1, <2>2
<1>7. TypeOK'
    BY <1>2, <1>5, <1>6 DEF IInv, TypeOK
<1>8. (\A j \in Jobs : JobOK(j)') /\ Grows
  <2>1. ASSUME NEW j \in Jobs, j # j0 PROVE JobOK(j)'
      BY <1>2, <1>5, <2>1 DEF IInv, JobOK, Exists, SizeOf
  <2>2. ASSUME NEW j \in Jobs, j = j0 PROVE JobOK(j)'
    <3>1. /\ JobOK(j) /\ Exists(j) /\ SizeOf(j)' = SizeOf(j)
          /\ rows[j] = SizeOf(j) /\ matched'[j] <= SizeOf(j)
          /\ matched'[j] \in Nat /\ matched[j] <= matched'[j]
          /\ matched[j] \in Nat /\ matched[j] <= SizeOf(j) /\ SizeOf(j) \in Nat
        BY <1>1, <1>2, <1>5, <2>2 DEF IInv, SizeOf
    <3> QED BY <1>2, <3>1 DEF JobOK, Exists
  <2>3. Grows
      BY <1>1, <1>2, <1>5 DEF Grows, Exists, IInv, TypeOK
  <2> QED BY <2>1, <2>2, <2>3
<1>9. WorkerOK(w)'
  <2>1. CASE worker'[w].pc = "idle"
      BY <2>1 DEF WorkerOK, Engaged, At
  <2>2. CASE worker'[w] = me /\ k <= matched'[j0]
    <3>1. MyJob(w)' = j0 /\ My(w)' = My(w) /\ SizeOf(MyJob(w))' = SizeOf(j0)
        BY <1>2, <1>3, <2>2 DEF SizeOf, MyJob, My, j0
    <3>2. /\ worker'[w].next \in 1 .. SizeOf(j0) + 1
          /\ worker'[w].next - 1 <= matched'[j0]
        BY <1>1, <1>3, <1>5, <2>2
    <3> QED BY <1>0, <1>1, <1>2, <1>3, <2>2, <3>1, <3>2
            DEF WorkerOK, Engaged, At, Exists, j0
  <2> QED BY <1>6, <2>1, <2>2
<1>10. ASSUME NEW v \in Workers \ {w} PROVE WorkerOK(v)'
    BY <1>2, <1>6, <1>7, <1>8, OthersOK DEF At
<1>11. OneParser'
    BY <1>3, <1>6, OneParserKept
<1> QED BY <1>7, <1>8, <1>9, <1>10, <1>11 DEF IInv

LEMMA ParseChunkIInv ==
    ASSUME IInv, NEW w \in Workers, ParseChunk(w)
    PROVE  IInv'
<1> DEFINE c == My(w).content
           j0 == MyJob(w)
           k == worker[w].next
           dirty == My(w).errors \/ BadChunkOf[c] = k
           sum == My(w).total + 1
           new == [My(w) EXCEPT !.total = sum, !.errors = dirty]
<1>0. Engaged(w) /\ At(w, "parse")
    BY DEF ParseChunk, Engaged, At
<1>1. /\ j0 \in Jobs /\ Exists(j0) /\ job[j0] \in JobRows /\ My(w) \in JobRows
      /\ c = job[j0].content /\ c \in Contents /\ SizeOf(j0) = ChunksOf[c]
      /\ SizeOf(j0) \in Nat /\ rows[j0] \in Nat /\ rows[j0] <= SizeOf(j0)
      /\ job[j0].total = rows[j0] /\ job[j0].errors = HasErrors(c, rows[j0])
    BY <1>0, Holds, Claims DEF MyJob, My, Exists, SizeOf
<1>2. /\ k \in Nat /\ k >= 1 /\ k <= SizeOf(j0)
      /\ My(w).status = "RUNNING" /\ My(w).stage = "PARSING"
      /\ My(w).total = k - 1 /\ My(w).errors = HasErrors(c, k - 1)
      /\ k > 1 => rows[j0] = k - 1
      /\ job[j0].status # "PENDING"
  <2>1. WorkerOK(w)
      BY DEF IInv
  <2>2. k <= ChunksOf[c]
      BY DEF ParseChunk
  <2> QED BY <1>0, <1>1, <2>1, <2>2 DEF WorkerOK, At
<1>3. UNCHANGED <<file, stored, matched, lines, snapped, crashes, closes, losses>>
    BY DEF ParseChunk
<1>4. \/ RollBack(w, "fail") /\ UNCHANGED <<job, rows>>
      \/ /\ k = rows[j0] + 1
         /\ rows' = [rows EXCEPT ![j0] = k]
         /\ Save(w, new) /\ Goto(w, "parse", new, k + 1)
    BY <1>1, <1>2 DEF ParseChunk
<1>5. CASE RollBack(w, "fail") /\ UNCHANGED <<job, rows>>
  <2>1. TypeOK'
      BY <1>0, <1>3, <1>5, RollBackWorker DEF IInv, TypeOK, PCs
  <2>2. (\A j \in Jobs : JobOK(j)') /\ Grows
      BY <1>3, <1>5, TablesKept
  <2>3. WorkerOK(w)'
      BY <1>0, <1>1, <1>5, RollBackWorker
         DEF WorkerOK, Engaged, At, My, MyJob, Exists, PCs
  <2>4. ASSUME NEW v \in Workers \ {w} PROVE WorkerOK(v)'
      BY <1>0, <1>3, <1>5, <2>1, <2>2, RollBackWorker, OthersOK DEF PCs
  <2>5. OneParser'
      BY <1>0, <1>5, RollBackWorker, OneParserKept DEF PCs
  <2> QED BY <2>1, <2>2, <2>3, <2>4, <2>5 DEF IInv
<1>6. CASE /\ k = rows[j0] + 1
           /\ rows' = [rows EXCEPT ![j0] = k]
           /\ Save(w, new) /\ Goto(w, "parse", new, k + 1)
  <2>1. HasErrors(c, k) <=> HasErrors(c, k - 1) \/ BadChunkOf[c] = k
      BY <1>1, <1>2 DEF HasErrors
  <2>2. /\ new \in JobRows /\ new.status = My(w).status /\ new.stage = My(w).stage
        /\ new.total = k /\ new.content = c
        /\ new.errors = dirty
    <3>1. dirty \in BOOLEAN /\ sum = k /\ k \in Nat
        BY <1>1, <1>2 DEF JobRows
    <3> HIDE DEF dirty, sum, k, c
    <3> QED BY <1>1, <3>1 DEF JobRows, c
  <2>3. new.errors = HasErrors(c, k)
    <3>1. dirty <=> HasErrors(c, k)
        BY <1>2, <2>1
    <3>2. dirty \in BOOLEAN /\ HasErrors(c, k) \in BOOLEAN
        BY <1>1 DEF JobRows, HasErrors
    <3> QED BY <2>2, <3>1, <3>2
  <2> HIDE DEF new, j0, c
  <2>4. /\ job' \in [Jobs -> JobRows]
        /\ \A j \in Jobs \ {j0} : job'[j] = job[j]
        /\ job'[j0].content = job[j0].content
        /\ job'[j0].total = k
        /\ job'[j0].status = job[j0].status
        /\ job'[j0].stage = job[j0].stage
        /\ new.errors = My(w).errors => job'[j0].errors = job[j0].errors
        /\ new.errors # My(w).errors => job'[j0].errors = new.errors
      BY <1>0, <1>2, <1>6, <2>2, SaveRow DEF j0
  <2>5. job'[j0].errors = HasErrors(c, k)
    <3>1. job[j0].errors = My(w).errors
        BY <1>1, <1>2, <1>6
    <3> QED BY <2>3, <2>4, <3>1
  <2>6. /\ worker' \in [Workers -> WorkerStates]
        /\ \A v \in Workers \ {w} : worker'[v] = worker[v]
        /\ worker'[w].pc = "parse" /\ worker'[w].view = new
        /\ worker'[w].next = k + 1 /\ worker'[w].job = worker[w].job
      BY <1>2, <1>6, <2>2, GotoWorker DEF PCs
  <2>7. /\ rows' \in [Jobs -> Nat] /\ rows'[j0] = k
        /\ \A j \in Jobs \ {j0} : rows'[j] = rows[j]
      BY <1>1, <1>2, <1>6 DEF IInv, TypeOK
  <2>8. TypeOK'
      BY <1>3, <2>4, <2>6, <2>7 DEF IInv, TypeOK
  <2>9. (\A j \in Jobs : JobOK(j)') /\ Grows
    <3>1. ASSUME NEW j \in Jobs, j # j0 PROVE JobOK(j)'
        BY <1>3, <2>4, <2>7, <3>1 DEF IInv, JobOK, Exists, SizeOf, Completed
    <3>2. ASSUME NEW j \in Jobs, j = j0 PROVE JobOK(j)'
      <4>1. /\ JobOK(j) /\ Exists(j) /\ Exists(j)' /\ SizeOf(j)' = SizeOf(j)
            /\ rows[j] < SizeOf(j) /\ rows'[j] = k /\ k <= SizeOf(j)
            /\ rows[j] \in Nat /\ SizeOf(j) \in Nat
            /\ matched[j] \in Nat /\ snapped[j] \in Nat
            /\ job'[j].content = job[j].content
            /\ job'[j].total = rows'[j]
            /\ job'[j].errors = HasErrors(job'[j].content, rows'[j])
            /\ job'[j].status = job[j].status /\ job'[j].stage = job[j].stage
            /\ job'[j].status # "PENDING"
          BY <1>1, <1>2, <1>6, <2>4, <2>5, <2>7, <3>2
             DEF IInv, TypeOK, SizeOf, Exists
      <4>2. matched[j] = 0 /\ snapped[j] = 0
          BY <4>1 DEF JobOK
      <4> QED BY <1>3, <4>1, <4>2 DEF JobOK
    <3>3. Grows
        BY <1>1, <1>3, <1>6, <2>4, <2>7 DEF Grows, Exists, IInv, TypeOK
    <3> QED BY <3>1, <3>2, <3>3
  <2>10. WorkerOK(w)'
    <3>1. MyJob(w)' = j0 /\ My(w)' = new /\ SizeOf(MyJob(w))' = SizeOf(j0)
        BY <2>4, <2>6 DEF SizeOf, MyJob, My, j0
    <3>2. /\ worker'[w].next \in 1 .. SizeOf(j0) + 1
          /\ worker'[w].next - 1 = k /\ rows'[j0] = k
        BY <1>1, <1>2, <2>6, <2>7
    <3>3. Exists(MyJob(w))' /\ job'[MyJob(w)'].status # "PENDING"
        BY <1>1, <1>2, <2>4, <3>1 DEF Exists
    <3> QED BY <1>1, <1>2, <2>2, <2>3, <2>4, <2>6, <3>1, <3>2, <3>3
            DEF WorkerOK, Engaged, At
  <2>11. ASSUME NEW v \in Workers \ {w}, At(v, "parse"), MyJob(v) = j0
         PROVE  worker[v].next <= 1
    <3>1. /\ worker[v].next > 1 => rows[j0] = worker[v].next - 1
          /\ worker[v].next \in Nat
        BY <2>11, Holds DEF IInv, WorkerOK
    <3>2. worker[v].next = 1 \/ k = 1
        BY <1>0, <2>11 DEF IInv, OneParser, j0
    <3> QED BY <1>1, <1>6, <3>1, <3>2
  <2>12. ASSUME NEW v \in Workers \ {w} PROVE WorkerOK(v)'
    <3>1. At(v, "parse") /\ worker[v].next > 1 => rows'[MyJob(v)] = rows[MyJob(v)]
      <4>1. SUFFICES ASSUME At(v, "parse"), worker[v].next > 1
                     PROVE  MyJob(v) \in Jobs /\ MyJob(v) # j0
          BY <2>7
      <4>2. MyJob(v) \in Jobs /\ worker[v].next \in Nat
          BY <4>1, Holds DEF Engaged, At, MyJob
      <4> QED BY <2>11, <4>1, <4>2
    <3> QED BY <2>6, <2>8, <2>9, <3>1, OthersOK
  <2>13. OneParser'
    <3>1. ASSUME NEW v \in Workers \ {w}, At(v, "parse"), MyJob(v) = j0
          PROVE  worker[v].next = 1
      <4>1. worker[v].next \in Nat /\ worker[v].next >= 1
          BY <3>1, Holds DEF IInv, WorkerOK
      <4> QED BY <2>11, <3>1, <4>1
    <3> QED BY <2>6, <3>1 DEF IInv, OneParser, At, MyJob, j0
  <2> QED BY <2>8, <2>9, <2>10, <2>12, <2>13 DEF IInv
<1> QED BY <1>4, <1>5, <1>6
\* No chunk staged, no invalid row seen.
LEMMA NoErrorsYet ==
    ASSUME NEW c
    PROVE  HasErrors(c, 0) = FALSE
    BY DEF HasErrors

LEMMA UploadRow ==
    ASSUME NEW u \in Uploads
    PROVE  LET r == PendingJob(u) IN
           /\ r \in JobRows
           /\ r.status = "PENDING" /\ r.stage = "NULL"
           /\ r.content = u.content /\ u.content \in Contents
           /\ r.total = 0 /\ r.errors = FALSE
           /\ u.vendor \in Vendors
    BY DEF Uploads, PendingJob, AbsentJob, JobRows, Statuses, Stages

\* What picking up job j with the row r read from it makes of the worker.
LEMMA AdoptWorker ==
    ASSUME IInv, NEW w \in Workers, NEW j \in Jobs, NEW r \in JobRows, Adopt(w, j, r)
    PROVE  /\ worker' \in [Workers -> WorkerStates]
           /\ \A v \in Workers \ {w} : worker'[v] = worker[v]
           /\ worker'[w].pc \in {"idle", "start", "hold", "match", "snapshot"}
           /\ worker'[w].pc # "idle" =>
                /\ worker'[w].job = j
                /\ worker'[w].view = r
                /\ worker'[w].next = 1
           /\ worker'[w].pc = "start" => r.status = "PENDING"
           /\ worker'[w].pc \in {"hold", "match"} =>
                r.status = "RUNNING" /\ r.stage = "MATCHING"
           /\ worker'[w].pc = "snapshot" =>
                r.status = "RUNNING" /\ r.stage = "SNAPSHOTTING"
<1> DEFINE pc == Dispatch(w, r)
           me == IF pc = "idle" THEN IdleWorker
                 ELSE [IdleWorker EXCEPT !.pc = pc, !.job = j, !.view = r]
<1>1. /\ pc \in {"idle", "start", "hold", "match", "snapshot"}
      /\ pc = "start" => r.status = "PENDING"
      /\ pc \in {"hold", "match"} => r.status = "RUNNING" /\ r.stage = "MATCHING"
      /\ pc = "snapshot" => r.status = "RUNNING" /\ r.stage = "SNAPSHOTTING"
    BY DEF Dispatch
<1>2. worker' = [worker EXCEPT ![w] = me]
    BY DEF Adopt
<1> HIDE DEF pc
<1>3. /\ me \in WorkerStates /\ me.pc = pc
      /\ pc # "idle" => me.job = j /\ me.view = r /\ me.next = 1
    BY <1>1 DEF IdleWorker, AbsentJob, WorkerStates, PCs, JobRows, Statuses, Stages
<1> HIDE DEF me
<1> QED BY <1>1, <1>2, <1>3 DEF IInv, TypeOK

\* The walk a freshly adopted job starts with may rely on what the row claims.
LEMMA AdoptedOK ==
    ASSUME IInv, NEW w \in Workers, NEW j \in Jobs, NEW r \in JobRows, Adopt(w, j, r),
           TypeOK', JobOK(j)', job'[j] = r, r.status # "ABSENT"
    PROVE  WorkerOK(w)'
<1>1. CASE worker'[w].pc = "idle"
    BY <1>1 DEF WorkerOK, Engaged, At
<1>2. CASE worker'[w].pc # "idle"
  <2>1. /\ MyJob(w)' = j /\ My(w)' = r /\ worker'[w].next = 1
        /\ Exists(MyJob(w))' /\ SizeOf(MyJob(w))' = ChunksOf[r.content]
      BY <1>2, AdoptWorker DEF MyJob, My, Exists, SizeOf
  <2>2. /\ r.content \in Contents /\ ChunksOf[r.content] \in Nat
        /\ rows'[j] \in Nat /\ matched'[j] \in Nat /\ snapped'[j] \in Nat
        /\ r.total = rows'[j] /\ r.errors = HasErrors(r.content, rows'[j])
        /\ r.status = "PENDING" => rows'[j] = 0
        /\ r.stage \in {"MATCHING", "SNAPSHOTTING"} => rows'[j] = ChunksOf[r.content]
        /\ r.stage = "SNAPSHOTTING" => matched'[j] = ChunksOf[r.content]
      BY DEF JobOK, Exists, SizeOf, TypeOK
  <2>3. worker'[w].next \in 1 .. ChunksOf[r.content] + 1 /\ worker'[w].next - 1 = 0
      BY <2>1, <2>2
  <2>4. CASE worker'[w].pc = "start"
    <3>1. r.status = "PENDING" /\ r.total = 0 /\ r.errors = HasErrors(r.content, 0)
        BY <2>2, <2>4, AdoptWorker
    <3>2. r.errors = FALSE
        BY <3>1, NoErrorsYet
    <3> QED BY <2>1, <2>4, <3>1, <3>2 DEF WorkerOK, Engaged, At
  <2>5. CASE worker'[w].pc \in {"hold", "match"}
    <3>1. r.status = "RUNNING" /\ r.stage = "MATCHING"
        BY <2>5, AdoptWorker
    <3> QED BY <2>1, <2>2, <2>3, <2>5, <3>1 DEF WorkerOK, Engaged, At
  <2>6. CASE worker'[w].pc = "snapshot"
    <3>1. r.status = "RUNNING" /\ r.stage = "SNAPSHOTTING"
        BY <2>6, AdoptWorker
    <3> QED BY <2>1, <2>2, <2>3, <2>6, <3>1 DEF WorkerOK, Engaged, At
  <2> QED BY <1>2, <2>4, <2>5, <2>6, AdoptWorker
<1> QED BY <1>1, <1>2

LEMMA StoreNewIInv ==
    ASSUME IInv, NEW w \in Workers, NEW u \in Uploads, StoreNew(w, u)
    PROVE  IInv'
<1> DEFINE r == PendingJob(u)
           me == [IdleWorker EXCEPT !.pc = "insert", !.view = r, !.vendor = u.vendor]
<1>1. /\ worker' = [worker EXCEPT ![w] = me]
      /\ stored' = stored \union {u.content}
      /\ UNCHANGED <<file, job, rows, matched, lines, snapped,
                     crashes, closes, losses>>
    BY DEF StoreNew
<1>2. me \in WorkerStates /\ me.pc = "insert" /\ me.view = r /\ me.vendor = u.vendor
  <2>1. r \in JobRows /\ u.vendor \in Vendors
      BY UploadRow
  <2> HIDE DEF r
  <2> QED BY <2>1, IdleTypes DEF WorkerStates, PCs, IdleWorker
<1> HIDE DEF me
<1>3. /\ worker' \in [Workers -> WorkerStates] /\ worker'[w] = me
      /\ \A v \in Workers \ {w} : worker'[v] = worker[v]
    BY <1>1, <1>2 DEF IInv, TypeOK
<1>4. TypeOK'
    BY <1>1, <1>3, UploadRow DEF IInv, TypeOK
<1>5. (\A j \in Jobs : JobOK(j)') /\ Grows
    BY <1>1, TablesKept
<1>6. WorkerOK(w)'
    BY <1>2, <1>3, UploadRow DEF WorkerOK, Engaged, At, My
<1>7. ASSUME NEW v \in Workers \ {w} PROVE WorkerOK(v)'
    BY <1>1, <1>3, <1>4, <1>5, OthersOK
<1>8. OneParser'
    BY <1>2, <1>3, OneParserKept
<1> QED BY <1>4, <1>5, <1>6, <1>7, <1>8 DEF IInv

\* Inserting the job, in the transaction of a new or of a known file.
LEMMA AddJobIInv ==
    ASSUME IInv, NEW w \in Workers, NEW r \in JobRows, AddJob(w, r),
           r.status = "PENDING", r.stage = "NULL", r.content \in Contents,
           r.total = 0, r.errors = FALSE,
           file' \in [Contents -> Vendors \union {None}],
           file'[r.content] \in Vendors,
           \A c \in Contents : file[c] \in Vendors => file'[c] \in Vendors,
           stored' \subseteq Contents,
           UNCHANGED <<rows, matched, lines, snapped, crashes, closes, losses>>
    PROVE  IInv'
<1>1. PICK j \in Jobs :
        /\ job[j].status = "ABSENT"
        /\ job' = [job EXCEPT ![j] = r]
        /\ Leave(w) \/ Adopt(w, j, r)
    BY DEF AddJob
<1>2. /\ job' \in [Jobs -> JobRows] /\ job'[j] = r
      /\ \A k \in Jobs \ {j} : job'[k] = job[k]
    BY <1>1 DEF IInv, TypeOK
<1>3. /\ worker' \in [Workers -> WorkerStates]
      /\ \A v \in Workers \ {w} : worker'[v] = worker[v]
      /\ worker'[w].pc \in {"idle", "start", "hold", "match", "snapshot"}
    BY <1>1, LeaveWorker, AdoptWorker
<1>4. TypeOK'
    BY <1>2, <1>3 DEF IInv, TypeOK
<1>5. ASSUME NEW k \in Jobs PROVE JobOK(k)'
  <2>1. CASE k # j
      BY <1>2, <2>1 DEF IInv, JobOK, Exists, SizeOf, Completed
  <2>2. CASE k = j
    <3>1. rows[k] = 0 /\ matched[k] = 0 /\ snapped[k] = 0
        BY <1>1, <2>2 DEF IInv, JobOK, Exists
    <3>2. r.errors = HasErrors(r.content, 0)
        BY NoErrorsYet
    <3>3. ChunksOf[r.content] \in Nat
        OBVIOUS
    <3> QED BY <1>2, <2>2, <3>1, <3>2, <3>3 DEF JobOK, Exists, SizeOf, Completed
  <2> QED BY <2>1, <2>2
<1>6. Grows
    BY <1>1, <1>2 DEF Grows, Exists, IInv, TypeOK
<1>7. WorkerOK(w)'
  <2>1. CASE Leave(w)
      BY <2>1, LeaveWorker DEF WorkerOK, Engaged, At
  <2>2. CASE Adopt(w, j, r)
      BY <1>2, <1>4, <1>5, <2>2, AdoptedOK
  <2> QED BY <1>1, <2>1, <2>2
<1>8. ASSUME NEW v \in Workers \ {w} PROVE WorkerOK(v)'
    BY <1>3, <1>4, <1>5, <1>6, OthersOK
<1>9. OneParser'
    BY <1>3, OneParserKept
<1> QED BY <1>4, <1>5, <1>7, <1>8, <1>9 DEF IInv

LEMMA RecordNewIInv ==
    ASSUME IInv, NEW w \in Workers, RecordNew(w)
    PROVE  IInv'
<1> DEFINE r == My(w)
           c == r.content
<1>1. /\ r \in JobRows /\ r.status = "PENDING" /\ r.stage = "NULL"
      /\ c \in Contents /\ r.total = 0 /\ r.errors = FALSE
      /\ worker[w].vendor \in Vendors
  <2>1. WorkerOK(w) /\ At(w, "insert")
      BY DEF IInv, RecordNew
  <2> QED BY <2>1, Holds DEF WorkerOK, My
<1>2. UNCHANGED <<stored, rows, matched, lines, snapped, crashes, closes, losses>>
    BY DEF RecordNew
<1>3. CASE file[c] = None
  <2>1. file' = [file EXCEPT ![c] = worker[w].vendor] /\ AddJob(w, r)
      BY <1>3 DEF RecordNew
  <2> HIDE DEF r, c
  <2>2. /\ file' \in [Contents -> Vendors \union {None}]
        /\ file'[c] \in Vendors
        /\ \A d \in Contents : file[d] \in Vendors => file'[d] \in Vendors
        /\ stored' \subseteq Contents
      BY <1>1, <1>2, <2>1 DEF IInv, TypeOK
  <2> QED BY <1>1, <1>2, <2>1, <2>2, AddJobIInv DEF c
<1>4. CASE file[c] # None
  <2>1. Leave(w) /\ UNCHANGED <<file, job>>
      BY <1>4 DEF RecordNew
  <2>2. TypeOK'
      BY <1>2, <2>1, LeaveWorker DEF IInv, TypeOK
  <2>3. (\A j \in Jobs : JobOK(j)') /\ Grows
      BY <1>2, <2>1, TablesKept
  <2>4. ASSUME NEW v \in Workers PROVE WorkerOK(v)'
      BY <1>2, <2>1, <2>2, <2>3, LeaveWorker, OthersOK DEF WorkerOK, Engaged, At, My
  <2>5. OneParser'
      BY <2>1, LeaveWorker, OneParserKept
  <2> QED BY <2>2, <2>3, <2>4, <2>5 DEF IInv
<1> QED BY <1>3, <1>4

LEMMA ReceiveKnownIInv ==
    ASSUME IInv, NEW w \in Workers, NEW u \in Uploads, ReceiveKnown(w, u)
    PROVE  IInv'
<1>1. /\ file[u.content] = u.vendor /\ u.content \in Contents
      /\ stored' = stored \union {u.content}
      /\ UNCHANGED <<file, rows, matched, lines, snapped, crashes, closes, losses>>
    BY DEF ReceiveKnown, Uploads
<1>2. CASE UNCHANGED <<job, worker>>
  <2>1. TypeOK'
      BY <1>1, <1>2 DEF IInv, TypeOK
  <2>2. (\A j \in Jobs : JobOK(j)') /\ Grows
      BY <1>1, <1>2, TablesKept
  <2>3. ASSUME NEW v \in Workers PROVE WorkerOK(v)'
      BY <1>1, <1>2, <2>1, <2>2, OthersOK
  <2>4. OneParser'
      BY <1>2 DEF IInv, OneParser, At, MyJob
  <2> QED BY <2>1, <2>2, <2>3, <2>4 DEF IInv
<1>3. CASE /\ \E j \in LiveJobsFor(u.content, u.sheet) : Adopt(w, j, job[j])
           /\ UNCHANGED job
  <2>1. PICK o \in Jobs : Live(job[o]) /\ Adopt(w, o, job[o])
      BY <1>3 DEF LiveJobsFor
  <2>2. job[o] \in JobRows /\ job[o].status # "ABSENT"
      BY <2>1 DEF Live, IInv, TypeOK
  <2>3. TypeOK'
      BY <1>1, <1>3, <2>1, <2>2, AdoptWorker DEF IInv, TypeOK
  <2>4. (\A j \in Jobs : JobOK(j)') /\ Grows
      BY <1>1, <1>3, TablesKept
  <2>5. WorkerOK(w)'
      BY <1>3, <2>1, <2>2, <2>3, <2>4, AdoptedOK
  <2>6. ASSUME NEW v \in Workers \ {w} PROVE WorkerOK(v)'
      BY <1>1, <1>3, <2>1, <2>2, <2>3, <2>4, AdoptWorker, OthersOK
  <2>7. OneParser'
      BY <1>3, <2>1, <2>2, AdoptWorker, OneParserKept
  <2> QED BY <2>3, <2>4, <2>5, <2>6, <2>7 DEF IInv
<1>4. CASE AddJob(w, PendingJob(u))
    BY <1>1, <1>4, UploadRow, AddJobIInv DEF IInv, TypeOK
<1> QED BY <1>2, <1>3, <1>4 DEF ReceiveKnown
----------------------------------------------------------------------------
(* The theorems *)

LEMMA StepIInv == IInv /\ [Next]_vars => IInv'
<1> SUFFICES ASSUME IInv, [Next]_vars PROVE IInv'
    OBVIOUS
<1>1. ASSUME NEW w \in Workers, Step(w) PROVE IInv'
    BY <1>1, RecordNewIInv, StartIInv, ParseChunkIInv, ReconcileIInv,
       FinishParsingIInv, FailIInv, ReadForMatchIInv, MatchChunkIInv,
       FinishMatchingIInv, ReadForSnapshotIInv, SnapshotChunkIInv, CompleteIInv
       DEF Step
<1>2. ASSUME NEW w \in Workers, NEW u \in Uploads, Receive(w, u) PROVE IInv'
    BY <1>2, ReceiveKnownIInv, StoreNewIInv DEF Receive
<1>3. CASE UNCHANGED vars
  <2>1. UNCHANGED <<file, stored, job, rows, matched, lines, snapped, worker,
                    crashes, closes, losses>>
      BY <1>3 DEF vars
  <2>2. TypeOK'
      BY <2>1 DEF IInv, TypeOK
  <2>3. (\A j \in Jobs : JobOK(j)') /\ Grows
      BY <2>1, TablesKept
  <2>4. ASSUME NEW v \in Workers PROVE WorkerOK(v)'
      BY <2>1, <2>2, <2>3, OthersOK
  <2>5. OneParser'
      BY <2>1 DEF IInv, OneParser, At, MyJob
  <2> QED BY <2>2, <2>3, <2>4, <2>5 DEF IInv
<1> QED BY <1>1, <1>2, <1>3, CrashIInv, OperatorCloseIInv, LoseObjectIInv DEF Next

\* Every reachable state satisfies the inductive invariant.
THEOREM Invariance == Spec => []IInv
    BY InitIInv, StepIInv, PTL DEF Spec

\* Every reachable state is well typed.
THEOREM TypeCorrect == Spec => []TypeOK
<1>1. IInv => TypeOK
    BY DEF IInv
<1> QED BY Invariance, <1>1, PTL

\* A job that says it completed was staged, matched and snapshotted to the
\* last row, whoever raced, died or was closed by hand on the way.
THEOREM CompletedImportIsWhole == Spec => []CompletedIsWhole
<1>1. IInv => CompletedIsWhole
    BY DEF IInv, JobOK, Exists, SizeOf, CompletedIsWhole, Completed
<1> QED BY Invariance, <1>1, PTL

\* The stage recorded for a job never runs ahead of its rows.
THEOREM StageIsTrue == Spec => []StageTellsTheTruth
<1>1. ASSUME IInv PROVE StageTellsTheTruth
  <2> SUFFICES ASSUME NEW j \in Jobs
               PROVE  /\ job[j].stage \in {"MATCHING", "SNAPSHOTTING"} =>
                            rows[j] = ChunksOf[job[j].content]
                      /\ job[j].stage = "SNAPSHOTTING" => matched[j] = rows[j]
      BY DEF StageTellsTheTruth
  <2>1. CASE Exists(j)
      BY <1>1, <2>1 DEF IInv, JobOK, SizeOf
  <2>2. CASE ~Exists(j)
      BY <1>1, <2>2 DEF IInv, JobOK, Exists
  <2> QED BY <2>1, <2>2
<1> QED BY Invariance, <1>1, PTL

\* The counters of a job agree with its rows at every commit.
THEOREM CountersAreTrue == Spec => []CountersMatchRows
<1>1. IInv => CountersMatchRows
    BY DEF IInv, JobOK, Exists, CountersMatchRows
<1> QED BY Invariance, <1>1, PTL

\* What the tables say of a job is so at every commit, for any number of
\* processes that run, resume, die on or close it.
THEOREM JobsAreAsTheySay == Spec => []JobsTellTheTruth
<1>1. TypeOK /\ StageTellsTheTruth /\ CountersMatchRows /\ CompletedIsWhole => JobsTellTheTruth
    BY DEF JobsTellTheTruth
<1> QED BY TypeCorrect, CompletedImportIsWhole, StageIsTrue, CountersAreTrue, <1>1, PTL

----------------------------------------------------------------------------
(* The lifecycle implements the staged pipeline *)

\* No job appears, disappears or changes its file.
SameJobs ==
    \A j \in Jobs :
        /\ Exists(j)' = Exists(j)
        /\ Exists(j) => job'[j].content = job[j].content

LEMMA SaveKeepsJobs ==
    ASSUME IInv, NEW w \in Workers, Engaged(w), NEW new \in JobRows,
           new.status # "ABSENT" \/ new.status = My(w).status, Save(w, new)
    PROVE  SameJobs
<1>1. MyJob(w) \in Jobs /\ Exists(MyJob(w))
    BY Holds DEF MyJob, Exists
<1>2. ASSUME NEW j \in Jobs, j # MyJob(w)
      PROVE  Exists(j)' = Exists(j) /\ job'[j].content = job[j].content
    BY <1>2, SaveRow DEF Exists
<1>3. ASSUME NEW j \in Jobs, j = MyJob(w)
      PROVE  Exists(j)' = Exists(j) /\ job'[j].content = job[j].content
    BY <1>1, <1>3, SaveRow DEF Exists
<1> QED BY <1>2, <1>3 DEF SameJobs

\* Steps that change only statuses, stages and counters are invisible.
LEMMA Stutters ==
    ASSUME SameJobs, UNCHANGED <<rows, matched, snapped>>
    PROVE  UNCHANGED Pipeline!vars
<1>1. {j \in Jobs : job'[j].status # "ABSENT"} = {j \in Jobs : job[j].status # "ABSENT"}
    BY DEF SameJobs, Exists
<1>2. ASSUME NEW j \in Jobs
      PROVE  (IF job'[j].status = "ABSENT" THEN 0 ELSE ChunksOf[job'[j].content])
           = (IF job[j].status = "ABSENT" THEN 0 ELSE ChunksOf[job[j].content])
    BY DEF SameJobs, Exists
<1>3. [j \in Jobs |-> IF job'[j].status = "ABSENT" THEN 0
                      ELSE ChunksOf[job'[j].content]]
    = [j \in Jobs |-> IF job[j].status = "ABSENT" THEN 0
                      ELSE ChunksOf[job[j].content]]
    BY <1>2
<1> QED BY <1>1, <1>3 DEF Pipeline!vars

\* A new job is a job queued with the chunks of its file.
LEMMA AddJobQueues ==
    ASSUME IInv, NEW w \in Workers, NEW r \in JobRows, AddJob(w, r),
           r.status = "PENDING", r.content \in Contents,
           UNCHANGED <<rows, matched, snapped>>
    PROVE  Pipeline!Next
<1>1. PICK j \in Jobs :
        job[j].status = "ABSENT" /\ job' = [job EXCEPT ![j] = r]
    BY DEF AddJob
<1>2. job'[j] = r /\ \A k \in Jobs \ {j} : job'[k] = job[k]
    BY <1>1 DEF IInv, TypeOK
<1> DEFINE n == ChunksOf[r.content]
           was == [k \in Jobs |-> IF job[k].status = "ABSENT" THEN 0
                                  ELSE ChunksOf[job[k].content]]
           is == [k \in Jobs |-> IF job'[k].status = "ABSENT" THEN 0
                                 ELSE ChunksOf[job'[k].content]]
<1>3. {k \in Jobs : job'[k].status # "ABSENT"}
    = {k \in Jobs : job[k].status # "ABSENT"} \union {j}
    BY <1>1, <1>2
<1>4. is = [was EXCEPT ![j] = n]
  <2>1. ASSUME NEW k \in Jobs PROVE is[k] = IF k = j THEN n ELSE was[k]
      BY <1>1, <1>2
  <2>2. DOMAIN is = Jobs /\ DOMAIN was = Jobs
        /\ is = [k \in Jobs |-> is[k]]
      OBVIOUS
  <2> HIDE DEF is, was, n
  <2> QED BY <2>1, <2>2
<1>5. Pipeline!Queue(j, n)
    BY <1>1, <1>3, <1>4 DEF Pipeline!Queue
<1> QED BY <1>5 DEF Pipeline!Next
LEMMA StepSimulates ==
    ASSUME IInv, IInv', NEW w \in Workers, Step(w)
    PROVE  [Pipeline!Next]_Pipeline!vars
<1> DEFINE j0 == MyJob(w)
           k == worker[w].next
<1>1. ASSUME NEW new \in JobRows, Engaged(w),
             new.status # "ABSENT" \/ new.status = My(w).status, Save(w, new),
             UNCHANGED <<rows, matched, snapped>>
      PROVE  UNCHANGED Pipeline!vars
    BY <1>1, SaveKeepsJobs, Stutters
<1>2. ASSUME UNCHANGED <<job, rows, matched, snapped>>
      PROVE  UNCHANGED Pipeline!vars
    BY <1>2, Stutters DEF SameJobs, Exists
<1>3. My(w) \in JobRows
    BY Holds DEF My
<1>4. CASE RecordNew(w)
  <2>1. My(w).status = "PENDING" /\ My(w).content \in Contents
      BY <1>4 DEF IInv, WorkerOK, RecordNew
  <2>2. UNCHANGED <<rows, matched, snapped>> /\ (UNCHANGED job \/ AddJob(w, My(w)))
      BY <1>4 DEF RecordNew
  <2> QED BY <1>2, <1>3, <2>1, <2>2, AddJobQueues
<1>5. CASE Start(w)
  <2> DEFINE new == [My(w) EXCEPT !.status = "RUNNING", !.stage = "PARSING"]
  <2>1. /\ new \in JobRows /\ new.status = "RUNNING"
        /\ UNCHANGED job \/ Save(w, new)
        /\ UNCHANGED <<rows, matched, snapped>> /\ Engaged(w)
      BY <1>3, <1>5 DEF Start, JobRows, Statuses, Stages, Engaged, At
  <2> HIDE DEF new
  <2> QED BY <1>1, <1>2, <2>1
<1>6. CASE Reconcile(w)
  <2> DEFINE n == rows[j0]
             e == HasErrors(My(w).content, n)
             new == [My(w) EXCEPT !.total = n, !.errors = e]
  <2>1. /\ Save(w, new) /\ UNCHANGED <<rows, matched, snapped>> /\ Engaged(w)
      BY <1>6 DEF Reconcile, Engaged, At
  <2>2. n \in Nat /\ e \in BOOLEAN
      BY <2>1, Holds DEF IInv, TypeOK, HasErrors, MyJob
  <2> HIDE DEF n, e
  <2>3. new \in JobRows /\ new.status = My(w).status
      BY <1>3, <2>2 DEF JobRows
  <2> HIDE DEF new
  <2> QED BY <1>1, <2>1, <2>3
<1>7. CASE FinishParsing(w)
  <2> DEFINE new == [My(w) EXCEPT !.stage = "MATCHING"]
  <2>1. /\ new \in JobRows /\ new.status = My(w).status /\ Save(w, new)
        /\ UNCHANGED <<rows, matched, snapped>> /\ Engaged(w)
      BY <1>3, <1>7 DEF FinishParsing, JobRows, Stages, Engaged, At
  <2> HIDE DEF new
  <2> QED BY <1>1, <2>1
<1>8. CASE Fail(w)
  <2> DEFINE new == [My(w) EXCEPT !.status = "FAILED", !.stage = "NULL"]
  <2>1. /\ new \in JobRows /\ new.status = "FAILED" /\ Save(w, new)
        /\ UNCHANGED <<rows, matched, snapped>> /\ Engaged(w)
      BY <1>3, <1>8 DEF Fail, JobRows, Statuses, Stages, Engaged, At
  <2> HIDE DEF new
  <2> QED BY <1>1, <2>1
<1>9. CASE FinishMatching(w)
  <2> DEFINE new == [My(w) EXCEPT !.stage = "SNAPSHOTTING"]
  <2>1. /\ new \in JobRows /\ new.status = My(w).status /\ Save(w, new)
        /\ UNCHANGED <<rows, matched, snapped>> /\ Engaged(w)
      BY <1>3, <1>9 DEF FinishMatching, JobRows, Stages, Engaged, At
  <2> HIDE DEF new
  <2> QED BY <1>1, <2>1
<1>10. CASE Complete(w)
  <2> DEFINE new == [My(w) EXCEPT !.stage = "NULL",
                        !.status = IF My(w).errors
                                   THEN "COMPLETED_WITH_ERRORS"
                                   ELSE "COMPLETED"]
  <2>1. /\ new \in JobRows /\ new.status # "ABSENT"
        /\ UNCHANGED job \/ Save(w, new)
        /\ UNCHANGED <<rows, matched, snapped>> /\ Engaged(w)
      BY <1>3, <1>10 DEF Complete, JobRows, Statuses, Stages, Engaged, At
  <2> HIDE DEF new
  <2> QED BY <1>1, <1>2, <2>1
<1>11. CASE ReadForMatch(w) \/ ReadForSnapshot(w)
    BY <1>2, <1>11 DEF ReadForMatch, ReadForSnapshot, dbVars
<1>12. CASE ParseChunk(w)
  <2> DEFINE new == [My(w) EXCEPT !.total = @ + 1,
                            !.errors = @ \/ BadChunkOf[My(w).content] = k]
  <2>1. /\ Engaged(w) /\ At(w, "parse") /\ UNCHANGED <<matched, snapped>>
        /\ k <= ChunksOf[My(w).content]
      BY <1>12 DEF ParseChunk, Engaged, At
  <2>2. /\ j0 \in Jobs /\ Exists(j0) /\ My(w).content = job[j0].content
        /\ rows[j0] \in Nat /\ k \in Nat /\ k >= 1
        /\ k > 1 => rows[j0] = k - 1
        /\ ChunksOf[job[j0].content] \in Nat
    <3>1. j0 \in Jobs /\ Exists(j0) /\ k \in Nat /\ My(w).content = job[j0].content
        BY <2>1, Holds DEF MyJob, My, Exists
    <3>2. WorkerOK(w)
        BY DEF IInv
    <3> QED BY <2>1, <3>1, <3>2, Claims DEF WorkerOK, SizeOf, At
  <2>3. CASE UNCHANGED <<job, rows>>
      BY <1>2, <2>1, <2>3
  <2>4. CASE k > rows[j0] /\ rows' = [rows EXCEPT ![j0] = k] /\ Save(w, new)
    <3>1. SameJobs
      <4>1. job' = [job EXCEPT ![j0] = Flushed(job[j0], My(w), new)]
          BY <2>4 DEF Save
      <4>2. /\ Flushed(job[j0], My(w), new).content = job[j0].content
            /\ Flushed(job[j0], My(w), new).status = job[j0].status
        <5> DEFINE sum == My(w).total + 1
                   dirty == My(w).errors \/ BadChunkOf[My(w).content] = k
        <5>1. job[j0] \in JobRows /\ sum \in Nat /\ dirty \in BOOLEAN
            BY <1>3, <2>2 DEF IInv, TypeOK, JobRows
        <5> HIDE DEF sum, dirty
        <5>2. [My(w) EXCEPT !.total = sum, !.errors = dirty] \in JobRows
              /\ [My(w) EXCEPT !.total = sum, !.errors = dirty].status = My(w).status
            BY <1>3, <5>1 DEF JobRows
        <5> QED BY <1>3, <5>1, <5>2 DEF Flushed, JobRows, sum, dirty
      <4> QED BY <2>2, <4>1, <4>2 DEF SameJobs, Exists, IInv, TypeOK
    <3>2. ASSUME NEW j \in Jobs
          PROVE  (IF job'[j].status = "ABSENT" THEN 0 ELSE ChunksOf[job'[j].content])
               = (IF job[j].status = "ABSENT" THEN 0 ELSE ChunksOf[job[j].content])
        BY <3>1 DEF SameJobs, Exists
    <3>3. [j \in Jobs |-> IF job'[j].status = "ABSENT" THEN 0
                          ELSE ChunksOf[job'[j].content]]
        = [j \in Jobs |-> IF job[j].status = "ABSENT" THEN 0
                          ELSE ChunksOf[job[j].content]]
        BY <3>2
    <3>4. {j \in Jobs : job'[j].status # "ABSENT"} = {j \in Jobs : job[j].status # "ABSENT"}
        BY <3>1 DEF SameJobs, Exists
    <3>5. rows' = [rows EXCEPT ![j0] = @ + 1] /\ rows[j0] < ChunksOf[job[j0].content]
      <4>1. k = rows[j0] + 1
          BY <2>2, <2>4
      <4> HIDE DEF k
      <4> QED BY <2>1, <2>2, <2>4, <4>1
    <3>6. Pipeline!Parse(j0)
        BY <2>1, <2>2, <3>3, <3>4, <3>5 DEF Pipeline!Parse, Exists
    <3> QED BY <2>2, <3>6 DEF Pipeline!Next
  <2> QED BY <1>12, <2>2, <2>3, <2>4 DEF ParseChunk
<1>13. CASE MatchChunk(w)
  <2>1. /\ Engaged(w) /\ At(w, "matchWrite")
        /\ UNCHANGED <<job, rows, snapped>>
      BY <1>13 DEF MatchChunk, Engaged, At
  <2>2. /\ j0 \in Jobs /\ Exists(j0) /\ k \in Nat
        /\ rows[j0] = SizeOf(j0) /\ k <= SizeOf(j0) /\ k - 1 <= matched[j0]
        /\ matched[j0] \in Nat /\ SizeOf(j0) \in Nat
    <3>1. j0 \in Jobs /\ Exists(j0) /\ k \in Nat /\ My(w).content = job[j0].content
        BY <2>1, Holds DEF MyJob, My, Exists
    <3>2. WorkerOK(w)
        BY DEF IInv
    <3> QED BY <2>1, <3>1, <3>2, Claims DEF WorkerOK, SizeOf, At
  <2>3. CASE UNCHANGED matched
      BY <1>2, <2>1, <2>3
  <2>4. CASE k > matched[j0] /\ matched' = [matched EXCEPT ![j0] = k]
    <3>1. matched' = [matched EXCEPT ![j0] = @ + 1] /\ matched[j0] < SizeOf(j0)
      <4>1. k = matched[j0] + 1
          BY <2>2, <2>4
      <4> HIDE DEF k
      <4> QED BY <2>2, <2>4, <4>1
    <3>2. Pipeline!Match(j0)
        BY <2>1, <2>2, <3>1 DEF Pipeline!Match, SizeOf, Exists
    <3> QED BY <2>2, <3>2 DEF Pipeline!Next
  <2>5. \/ UNCHANGED matched
        \/ matched' = [matched EXCEPT ![j0] = IF k > @ THEN k ELSE @]
      BY <1>13 DEF MatchChunk
  <2>6. UNCHANGED matched \/ (k > matched[j0] /\ matched' = [matched EXCEPT ![j0] = k])
      BY <2>2, <2>5 DEF IInv, TypeOK
  <2> QED BY <2>3, <2>4, <2>6
<1>14. CASE SnapshotChunk(w)
  <2>1. /\ Engaged(w) /\ At(w, "snapshotWrite")
        /\ UNCHANGED <<job, rows, matched>>
      BY <1>14 DEF SnapshotChunk, Engaged, At
  <2>2. /\ j0 \in Jobs /\ Exists(j0) /\ k \in Nat
        /\ matched[j0] = SizeOf(j0) /\ k <= SizeOf(j0) /\ k - 1 <= snapped[j0]
        /\ snapped[j0] \in Nat /\ SizeOf(j0) \in Nat
    <3>1. j0 \in Jobs /\ Exists(j0) /\ k \in Nat /\ My(w).content = job[j0].content
        BY <2>1, Holds DEF MyJob, My, Exists
    <3>2. WorkerOK(w)
        BY DEF IInv
    <3> QED BY <2>1, <3>1, <3>2, Claims DEF WorkerOK, SizeOf, At
  <2>3. CASE UNCHANGED snapped
      BY <1>2, <2>1, <2>3
  <2>4. CASE ~(k <= snapped[j0]) /\ snapped' = [snapped EXCEPT ![j0] = k]
    <3>1. snapped' = [snapped EXCEPT ![j0] = @ + 1] /\ snapped[j0] < SizeOf(j0)
      <4>1. k = snapped[j0] + 1
          BY <2>2, <2>4
      <4> HIDE DEF k
      <4> QED BY <2>2, <2>4, <4>1
    <3>2. Pipeline!Snapshot(j0)
        BY <2>1, <2>2, <3>1 DEF Pipeline!Snapshot, SizeOf, Exists
    <3> QED BY <2>2, <3>2 DEF Pipeline!Next
  <2>5. worker[w].saw = "present" \/ worker[w].saw # "present"
      OBVIOUS
  <2> QED BY <1>14, <2>3, <2>4, <2>5 DEF SnapshotChunk
<1> QED BY <1>4, <1>5, <1>6, <1>7, <1>8, <1>9, <1>10, <1>11, <1>12, <1>13, <1>14
        DEF Step

LEMMA NextSimulates ==
    ASSUME IInv, IInv', [Next]_vars
    PROVE  [Pipeline!Next]_Pipeline!vars
<1>1. ASSUME UNCHANGED <<job, rows, matched, snapped>>
      PROVE  UNCHANGED Pipeline!vars
    BY <1>1, Stutters DEF SameJobs, Exists
<1>2. ASSUME NEW w \in Workers, Step(w)
      PROVE  [Pipeline!Next]_Pipeline!vars
    BY <1>2, StepSimulates
<1>3. ASSUME NEW w \in Workers, NEW u \in Uploads, Receive(w, u)
      PROVE  [Pipeline!Next]_Pipeline!vars
  <2>1. UNCHANGED <<rows, matched, snapped>>
        /\ (UNCHANGED job \/ AddJob(w, PendingJob(u)))
      BY <1>3 DEF Receive, ReceiveKnown, StoreNew
  <2> QED BY <1>1, <2>1, UploadRow, AddJobQueues
<1>4. ASSUME NEW w \in Workers, Crash(w)
      PROVE  UNCHANGED Pipeline!vars
    BY <1>1, <1>4 DEF Crash, dbVars
<1>5. ASSUME NEW j \in Jobs, OperatorClose(j)
      PROVE  UNCHANGED Pipeline!vars
  <2>1. SameJobs /\ UNCHANGED <<rows, matched, snapped>>
      BY <1>5 DEF OperatorClose, SameJobs, Exists, IInv, TypeOK, JobRows
  <2> QED BY <2>1, Stutters
<1>6. ASSUME NEW c \in Contents, LoseObject(c)
      PROVE  UNCHANGED Pipeline!vars
    BY <1>1, <1>6 DEF LoseObject
<1>7. CASE UNCHANGED vars
    BY <1>1, <1>7 DEF vars
<1> QED BY <1>2, <1>3, <1>4, <1>5, <1>6, <1>7 DEF Next

\* However its jobs are run, raced, killed and resumed, the import lifecycle
\* implements the staged pipeline: each chunk is staged once, then matched,
\* then snapshotted, and nothing is taken back.
THEOREM PipelineImplemented == Spec => PipelineSpec
<1>1. Init => Pipeline!Init
  <2> SUFFICES ASSUME Init PROVE Pipeline!Init
      OBVIOUS
  <2>1. \A j \in Jobs : job[j].status = "ABSENT"
      BY DEF Init, AbsentJob
  <2> QED BY <2>1 DEF Init, Pipeline!Init
<1> QED BY <1>1, NextSimulates, Invariance, PTL DEF Spec, PipelineSpec, Pipeline!Spec

----------------------------------------------------------------------------
(* One driver for a job *)

\* Who may take up jobs: upload requests their own and no intake at all, or one
\* intake and requests that only record.  A request and an intake on one job may
\* revive it after one of them failed it.
OneDriver == Intakes = {} \/ (~ProcessOnUpload /\ \A v, w \in Intakes : v = w)

\* A worker's job is open and its own.
Driven ==
    /\ \A w \in Workers : Engaged(w) =>
         /\ job[MyJob(w)].status \notin Completed
         /\ closes = 0 => job[MyJob(w)].status # "FAILED"
         /\ Intakes # {} => w \in Intakes
    /\ \A v, w \in Workers : Engaged(v) /\ Engaged(w) /\ MyJob(v) = MyJob(w) => v = w

DriverInv == Driven /\ (closes = 0 => SelectionsApart)

LEMMA SavedRow ==
    ASSUME IInv, NEW w \in Workers, Engaged(w), NEW new, Save(w, new)
    PROVE  /\ \A j \in Jobs \ {MyJob(w)} : job'[j] = job[j]
           /\ job'[MyJob(w)].content = job[MyJob(w)].content
           /\ job'[MyJob(w)].sheet = job[MyJob(w)].sheet
           /\ job'[MyJob(w)].status = IF new.status # My(w).status THEN new.status
                                      ELSE job[MyJob(w)].status
<1> DEFINE row == Flushed(job[MyJob(w)], My(w), new)
<1>1. MyJob(w) \in Jobs /\ job[MyJob(w)] \in JobRows /\ job \in [Jobs -> JobRows]
    BY Holds DEF MyJob, IInv, TypeOK
<1>2. /\ row.content = job[MyJob(w)].content /\ row.sheet = job[MyJob(w)].sheet
      /\ row.status = IF new.status # My(w).status THEN new.status
                      ELSE job[MyJob(w)].status
    BY <1>1 DEF Flushed, JobRows
<1>3. job' = [job EXCEPT ![MyJob(w)] = row]
    BY DEF Save
<1> HIDE DEF row
<1> QED BY <1>1, <1>2, <1>3

LEMMA GoneTo ==
    ASSUME IInv, NEW w \in Workers, NEW pc, NEW view, NEW next, Goto(w, pc, view, next)
    PROVE  /\ \A v \in Workers \ {w} : worker'[v] = worker[v]
           /\ worker'[w].pc = pc /\ worker'[w].job = worker[w].job
    BY DEF Goto, IInv, TypeOK, WorkerStates

\* What a walk leaves of the rest.
LEMMA WalkSteps ==
    ASSUME IInv, NEW w \in Workers, Step(w), ~At(w, "insert")
    PROVE  /\ Engaged(w)
           /\ \A v \in Workers \ {w} : /\ worker'[v].pc = worker[v].pc
                                       /\ worker'[v].job = worker[v].job
                                       /\ worker'[v].view = worker[v].view
           /\ worker'[w].pc # "insert"
           /\ Engaged(w)' => worker'[w].job = worker[w].job
           /\ \A j \in Jobs \ {MyJob(w)} : job'[j] = job[j]
           /\ job'[MyJob(w)].content = job[MyJob(w)].content
           /\ job'[MyJob(w)].sheet = job[MyJob(w)].sheet
           /\ Engaged(w)' => job'[MyJob(w)].status \in {job[MyJob(w)].status, "RUNNING"}
           /\ UNCHANGED <<file, stored, closes, losses>>
<1>1. Engaged(w) /\ My(w) \in JobRows
    BY Holds DEF Step, RecordNew, Start, ParseChunk, Reconcile, FinishParsing, Fail,
       ReadForMatch, MatchChunk, FinishMatching, ReadForSnapshot, SnapshotChunk,
       Complete, At, Engaged, My
<1>2. UNCHANGED <<file, stored, closes, losses>>
    BY DEF Step, RecordNew, Start, ParseChunk, Reconcile, FinishParsing, Fail,
       ReadForMatch, MatchChunk, FinishMatching, ReadForSnapshot, SnapshotChunk,
       Complete, At, dbVars
<1>3. CASE Start(w)
  <2> DEFINE new == [My(w) EXCEPT !.status = "RUNNING", !.stage = "PARSING"]
  <2>1. new.status = "RUNNING"
      BY <1>1 DEF JobRows
  <2> HIDE DEF new
  <2>2. \/ RollBack(w, "fail") /\ UNCHANGED job
        \/ Save(w, new) /\ \E pc \in {"parse", "fail"} : Goto(w, pc, new, 1)
      BY <1>3 DEF Start, new
  <2>3. CASE RollBack(w, "fail") /\ UNCHANGED job
      BY <1>1, <1>2, <2>3, RollBackWorker DEF PCs
  <2>4. CASE Save(w, new) /\ \E pc \in {"parse", "fail"} : Goto(w, pc, new, 1)
      BY <1>1, <1>2, <2>1, <2>4, SavedRow, GoneTo
  <2> QED BY <2>2, <2>3, <2>4
<1>4. CASE ParseChunk(w)
  <2> DEFINE new == [My(w) EXCEPT !.total = My(w).total + 1,
                       !.errors = My(w).errors \/ BadChunkOf[My(w).content] = worker[w].next]
  <2>1. new.status = My(w).status
      BY <1>1 DEF JobRows
  <2>2. \/ RollBack(w, "fail") /\ UNCHANGED job
        \/ Save(w, new) /\ Goto(w, "parse", new, worker[w].next + 1)
      BY <1>4 DEF ParseChunk
  <2> HIDE DEF new
  <2>3. CASE RollBack(w, "fail") /\ UNCHANGED job
      BY <1>1, <1>2, <2>3, RollBackWorker DEF PCs
  <2>4. CASE Save(w, new) /\ Goto(w, "parse", new, worker[w].next + 1)
      BY <1>1, <1>2, <2>1, <2>4, SavedRow, GoneTo
  <2> QED BY <2>2, <2>3, <2>4
<1>5. CASE Reconcile(w)
  <2> DEFINE n == rows[MyJob(w)]
             new == [My(w) EXCEPT !.total = n, !.errors = HasErrors(My(w).content, n)]
  <2>1. new.status = My(w).status
      BY <1>1 DEF JobRows
  <2>2. Save(w, new) /\ Goto(w, "parsed", new, 1)
      BY <1>5 DEF Reconcile
  <2> HIDE DEF new
  <2> QED BY <1>1, <1>2, <2>1, <2>2, SavedRow, GoneTo
<1>6. CASE FinishParsing(w)
  <2> DEFINE new == [My(w) EXCEPT !.stage = "MATCHING"]
  <2>1. new.status = My(w).status
      BY <1>1 DEF JobRows
  <2>2. Save(w, new) /\ Goto(w, Dispatch(w, new), new, 1)
      BY <1>6 DEF FinishParsing
  <2> HIDE DEF new
  <2>3. Dispatch(w, new) # "insert"
      BY DEF Dispatch
  <2> QED BY <1>1, <1>2, <2>1, <2>2, <2>3, SavedRow, GoneTo
<1>7. CASE FinishMatching(w)
  <2> DEFINE new == [My(w) EXCEPT !.stage = "SNAPSHOTTING"]
  <2>1. new.status = My(w).status
      BY <1>1 DEF JobRows
  <2>2. Save(w, new) /\ Goto(w, "snapshot", new, 1)
      BY <1>7 DEF FinishMatching
  <2> HIDE DEF new
  <2> QED BY <1>1, <1>2, <2>1, <2>2, SavedRow, GoneTo
<1>8. CASE Fail(w) \/ Complete(w)
  <2>1. Leave(w) /\ (UNCHANGED job \/ \E new : Save(w, new))
      BY <1>8 DEF Fail, Complete
  <2>2. /\ \A v \in Workers \ {w} : worker'[v] = worker[v]
        /\ worker'[w].pc = "idle"
      BY <2>1, LeaveWorker
  <2>3. ~Engaged(w)'
      BY <2>2 DEF Engaged
  <2> QED BY <1>1, <1>2, <2>1, <2>2, <2>3, SavedRow
<1>9. CASE ReadForMatch(w) \/ ReadForSnapshot(w)
  <2>1. UNCHANGED job /\ \E pc \in {"matchWrite", "snapshotWrite"} : \E saw :
            worker' = [worker EXCEPT ![w] = [worker[w] EXCEPT !.pc = pc, !.saw = saw]]
      BY <1>9 DEF ReadForMatch, ReadForSnapshot, dbVars
  <2>2. \A pc, saw : LET me == [worker[w] EXCEPT !.pc = pc, !.saw = saw] IN
                       me.pc = pc /\ me.job = worker[w].job
      BY DEF IInv, TypeOK, WorkerStates
  <2> QED BY <1>1, <1>2, <2>1, <2>2 DEF IInv, TypeOK
<1>10. CASE SnapshotChunk(w)
  <2>1. UNCHANGED job /\ (Leave(w) \/ Goto(w, "snapshot", My(w), worker[w].next + 1))
      BY <1>10 DEF SnapshotChunk
  <2> QED BY <1>1, <1>2, <2>1, LeaveWorker, GoneTo DEF Engaged
<1>11. CASE MatchChunk(w)
  <2> DEFINE k == worker[w].next + 1
             me == [worker[w] EXCEPT !.pc = "match", !.next = k]
             ws == [worker EXCEPT ![w] = me]
  <2>1. UNCHANGED job
      BY <1>11 DEF MatchChunk
  <2>2. CASE Leave(w)
      BY <1>1, <1>2, <2>1, <2>2, LeaveWorker DEF Engaged
  <2>3. CASE worker' = MakeStale(w, ws)
    <3>1. me.pc = "match" /\ me.job = worker[w].job /\ me \in WorkerStates
      <4>1. k \in Nat /\ worker[w] \in WorkerStates
          BY Holds DEF IInv, TypeOK
      <4> HIDE DEF k
      <4> QED BY <4>1 DEF WorkerStates, PCs
    <3> HIDE DEF me
    <3>2. ws \in [Workers -> WorkerStates] /\ ws[w] = me
          /\ \A v \in Workers \ {w} : ws[v] = worker[v]
        BY <3>1 DEF IInv, TypeOK
    <3> HIDE DEF ws
    <3>3. \A v \in Workers : /\ worker'[v].pc = ws[v].pc
                             /\ worker'[v].job = ws[v].job
                             /\ worker'[v].view = ws[v].view
        BY <2>3, <3>2 DEF MakeStale, WorkerStates
    <3> QED BY <1>1, <1>2, <2>1, <3>1, <3>2, <3>3
  <2> QED BY <1>11, <2>2, <2>3 DEF MatchChunk
<1> QED BY <1>3, <1>4, <1>5, <1>6, <1>7, <1>8, <1>9, <1>10, <1>11
        DEF Step, RecordNew
\* What a worker about to record an upload holds.
LEMMA Inserting ==
    ASSUME IInv, NEW w \in Workers, At(w, "insert")
    PROVE  /\ My(w) \in JobRows /\ My(w).status = "PENDING"
           /\ My(w).content \in Contents
           /\ worker[w].vendor \in Vendors
    BY Holds DEF IInv, WorkerOK, My

\* A worker adds a job, and drives it or leaves it.
LEMMA AddedJob ==
    ASSUME IInv, NEW w \in Workers, NEW r \in JobRows, AddJob(w, r)
    PROVE  \E j \in Jobs :
             /\ job[j].status = "ABSENT"
             /\ job'[j] = r
             /\ \A k \in Jobs \ {j} : job'[k] = job[k]
             /\ \A v \in Workers \ {w} : worker'[v] = worker[v]
             /\ worker'[w].pc # "insert"
             /\ Engaged(w)' => worker'[w].job = j
             /\ Engaged(w)' => w \in Intakes \/ ProcessOnUpload
<1>1. PICK j \in Jobs :
        /\ job[j].status = "ABSENT"
        /\ job' = [job EXCEPT ![j] = r]
        /\ \/ Leave(w)
           \/ Adopt(w, j, r) /\ (w \in Intakes \/ ProcessOnUpload)
    BY DEF AddJob, Workers
<1>2. job'[j] = r /\ \A k \in Jobs \ {j} : job'[k] = job[k]
    BY <1>1 DEF IInv, TypeOK
<1>3. /\ \A v \in Workers \ {w} : worker'[v] = worker[v]
      /\ worker'[w].pc # "insert"
      /\ Engaged(w)' => worker'[w].job = j
      /\ Engaged(w)' => w \in Intakes \/ ProcessOnUpload
    BY <1>1, LeaveWorker, AdoptWorker DEF Engaged
<1> QED BY <1>1, <1>2, <1>3

\* What is recorded, or about to be, has its object.
Retained ==
    losses = 0 =>
        /\ \A c \in Contents : file[c] # None => c \in stored
        /\ \A w \in Workers : At(w, "insert") => My(w).content \in stored

\* A step that loses no object and brings no worker to the point of recording.
LEMMA RetainedKept ==
    ASSUME IInv, Retained, NEW w \in Workers, UNCHANGED <<file, losses>>,
           stored \subseteq stored', worker'[w].pc # "insert",
           \A v \in Workers \ {w} : /\ worker'[v].pc = worker[v].pc
                                    /\ worker'[v].view = worker[v].view
    PROVE  Retained'
    BY DEF Retained, At, My

LEMMA RetainedStep == IInv /\ Retained /\ [Next]_vars => Retained'
<1> SUFFICES ASSUME IInv, Retained, [Next]_vars PROVE Retained'
    OBVIOUS
<1>1. ASSUME NEW w \in Workers, Step(w) PROVE Retained'
  <2>1. CASE ~At(w, "insert")
      BY <1>1, <2>1, WalkSteps, RetainedKept
  <2>2. CASE At(w, "insert")
    <3>1. RecordNew(w)
        BY <1>1, <2>2 DEF Step, Start, ParseChunk, Reconcile, FinishParsing, Fail,
           ReadForMatch, MatchChunk, FinishMatching, ReadForSnapshot, SnapshotChunk,
           Complete, At
    <3>2. UNCHANGED <<stored, losses>>
        BY <3>1 DEF RecordNew
    <3>3. /\ worker'[w].pc # "insert"
          /\ \A v \in Workers \ {w} : worker'[v] = worker[v]
        BY <2>2, <3>1, AddedJob, LeaveWorker, Inserting DEF RecordNew
    <3>4. \A c \in Contents : file'[c] # None => file[c] # None \/ c = My(w).content
        BY <2>2, <3>1, Inserting DEF RecordNew, IInv, TypeOK
    <3> QED BY <2>2, <3>2, <3>3, <3>4 DEF Retained, At, My
  <2> QED BY <2>1, <2>2
<1>2. ASSUME NEW w \in Workers, NEW u \in Uploads, Receive(w, u) PROVE Retained'
  <2>1. CASE ReceiveKnown(w, u)
    <3>1. UNCHANGED <<file, losses>> /\ stored' = stored \union {u.content}
          /\ At(w, "idle")
        BY <2>1 DEF ReceiveKnown
    <3>2. \/ UNCHANGED worker
          \/ AddJob(w, PendingJob(u))
          \/ \E j \in Jobs : Adopt(w, j, job[j])
        BY <2>1 DEF ReceiveKnown, LiveJobsFor
    <3>3. \A j \in Jobs : job[j] \in JobRows
        BY DEF IInv, TypeOK
    <3>4. /\ worker'[w].pc # "insert"
          /\ \A v \in Workers \ {w} : worker'[v] = worker[v]
        BY <3>1, <3>2, <3>3, AddedJob, AdoptWorker, UploadRow DEF At
    <3> QED BY <3>1, <3>4, RetainedKept
  <2>2. CASE StoreNew(w, u)
    <3> DEFINE me == [IdleWorker EXCEPT !.pc = "insert", !.view = PendingJob(u),
                                        !.vendor = u.vendor]
    <3>1. /\ UNCHANGED <<file, losses>> /\ stored' = stored \union {u.content}
          /\ worker' = [worker EXCEPT ![w] = me]
        BY <2>2 DEF StoreNew
    <3>2. me.view.content = u.content
        BY UploadRow DEF IdleWorker
    <3> HIDE DEF me
    <3>3. worker'[w] = me /\ \A v \in Workers \ {w} : worker'[v] = worker[v]
        BY <3>1 DEF IInv, TypeOK
    <3> QED BY <3>1, <3>2, <3>3 DEF Retained, At, My
  <2> QED BY <1>2, <2>1, <2>2 DEF Receive
<1>3. ASSUME NEW w \in Workers, Crash(w) PROVE Retained'
  <2>1. Leave(w) /\ UNCHANGED <<file, stored, losses>>
      BY <1>3 DEF Crash, dbVars
  <2> QED BY <2>1, LeaveWorker, RetainedKept
<1>4. ASSUME NEW j \in Jobs, OperatorClose(j) PROVE Retained'
    BY <1>4 DEF OperatorClose, Retained, At, My
<1>5. ASSUME NEW c \in Contents, LoseObject(c) PROVE Retained'
  <2>1. losses' # 0
      BY <1>5 DEF LoseObject, IInv, TypeOK
  <2> QED BY <2>1 DEF Retained
<1>6. CASE UNCHANGED vars
    BY <1>6 DEF vars, Retained, At, My
<1> QED BY <1>1, <1>2, <1>3, <1>4, <1>5, <1>6 DEF Next

\* A recorded file can be read back: its object is written before the row that
\* names it, and no run of the stages takes it away.
THEOREM RecordedObjectsExist == Spec => []RecordedIsRetained
<1>1. Init => Retained
    BY DEF Init, Retained, At, IdleWorker
<1>2. Retained => RecordedIsRetained
    BY DEF Retained, RecordedIsRetained
<1> QED BY <1>1, <1>2, RetainedStep, Invariance, PTL DEF Spec

----------------------------------------------------------------------------
(* One driver for a job, continued: no step gives a job a second one *)

Final == \A j \in Jobs : job[j].status \in Completed => job'[j].status = job[j].status

\* Two rows that may be live together.
Compatible(r, s) ==
    Live(r) /\ Live(s) /\ r.content = s.content =>
        r.sheet # s.sheet /\ None \notin {r.sheet, s.sheet}

LEMMA PairsOfImports ==
    SelectionsApart <=> \A j, k \in Jobs : j # k => Compatible(job[j], job[k])
    BY DEF SelectionsApart, Compatible

\* A walk changes the row of a job nobody else drives, which was live.
LEMMA WalkDriven ==
    ASSUME IInv, DriverInv, NEW w \in Workers, Step(w), ~At(w, "insert")
    PROVE  DriverInv' /\ Final
<1> DEFINE j0 == MyJob(w)
<1>1. /\ Engaged(w)
      /\ \A v \in Workers \ {w} : worker'[v].pc = worker[v].pc /\ worker'[v].job = worker[v].job
      /\ Engaged(w)' => worker'[w].job = worker[w].job
      /\ \A j \in Jobs \ {j0} : job'[j] = job[j]
      /\ job'[j0].content = job[j0].content
      /\ job'[j0].sheet = job[j0].sheet
      /\ Engaged(w)' => job'[j0].status \in {job[j0].status, "RUNNING"}
      /\ closes' = closes
    BY WalkSteps
<1>2. /\ j0 \in Jobs
      /\ job[j0].status \notin Completed \union {"ABSENT"}
      /\ closes = 0 => job[j0].status # "FAILED"
      /\ \A v \in Workers \ {w} : Engaged(v) => MyJob(v) \in Jobs \ {j0}
    BY <1>1, Holds DEF DriverInv, Driven, MyJob
<1>3. \A v \in Workers : Engaged(v)' => Engaged(v) /\ MyJob(v)' = MyJob(v)
    BY <1>1 DEF Engaged, MyJob
<1>4. Driven'
  <2>1. ASSUME NEW v \in Workers, Engaged(v)'
        PROVE  /\ job'[MyJob(v)'].status \notin Completed
               /\ closes' = 0 => job'[MyJob(v)'].status # "FAILED"
               /\ Intakes # {} => v \in Intakes
    <3>1. Intakes # {} => v \in Intakes
        BY <1>3, <2>1 DEF DriverInv, Driven
    <3>2. CASE v = w
        BY <1>1, <1>2, <1>3, <2>1, <3>1, <3>2 DEF Completed
    <3>3. CASE v # w
      <4>1. MyJob(v) \in Jobs \ {j0} /\ MyJob(v)' = MyJob(v)
          BY <1>2, <1>3, <2>1, <3>3
      <4>2. job'[MyJob(v)] = job[MyJob(v)]
          BY <1>1, <4>1
      <4> QED BY <1>1, <1>3, <2>1, <3>1, <4>1, <4>2 DEF DriverInv, Driven
    <3> QED BY <3>2, <3>3
  <2>2. \A u, v \in Workers :
           Engaged(u)' /\ Engaged(v)' /\ MyJob(u)' = MyJob(v)' => u = v
      BY <1>3 DEF DriverInv, Driven
  <2> QED BY <2>1, <2>2 DEF Driven
<1>5. closes = 0 => SelectionsApart'
  <2> SUFFICES ASSUME closes = 0 PROVE SelectionsApart'
      OBVIOUS
  <2>1. Live(job[j0])
      BY <1>2 DEF Live
  <2>2. \A j \in Jobs : /\ Live(job'[j]) => Live(job[j])
                        /\ job'[j].content = job[j].content
                        /\ job'[j].sheet = job[j].sheet
      BY <1>1, <2>1
  <2> QED BY <2>2 DEF DriverInv, SelectionsApart
<1> QED BY <1>1, <1>2, <1>4, <1>5 DEF DriverInv, Final

\* A job that is added takes a free slot, and at most its creator drives it.
LEMMA AddDriven ==
    ASSUME OneDriver, IInv, DriverInv, NEW w \in Workers, ~Engaged(w),
           NEW r \in JobRows, AddJob(w, r), r.status = "PENDING",
           \A k \in Jobs : Compatible(r, job[k]), UNCHANGED closes
    PROVE  DriverInv' /\ Final
<1>1. PICK j \in Jobs :
             /\ job[j].status = "ABSENT"
             /\ job'[j] = r
             /\ \A k \in Jobs \ {j} : job'[k] = job[k]
             /\ \A v \in Workers \ {w} : worker'[v] = worker[v]
             /\ Engaged(w)' => worker'[w].job = j
             /\ Engaged(w)' => w \in Intakes \/ ProcessOnUpload
    BY AddedJob
<1>2. \A v \in Workers \ {w} : Engaged(v)' <=> Engaged(v)
    BY <1>1 DEF Engaged
<1>3. \A v \in Workers \ {w} : Engaged(v)' =>
          MyJob(v)' = MyJob(v) /\ MyJob(v) \in Jobs \ {j} /\ job'[MyJob(v)] = job[MyJob(v)]
    BY <1>1, <1>2, Holds DEF MyJob
<1>4. Driven'
  <2>1. ASSUME NEW v \in Workers \ {w}, Engaged(v)'
        PROVE  /\ job'[MyJob(v)'].status \notin Completed
               /\ closes' = 0 => job'[MyJob(v)'].status # "FAILED"
               /\ Intakes # {} => v \in Intakes
      BY <1>2, <1>3, <2>1 DEF DriverInv, Driven
  <2>2. Engaged(w)' =>
               /\ job'[MyJob(w)'].status \notin Completed
               /\ closes' = 0 => job'[MyJob(w)'].status # "FAILED"
               /\ Intakes # {} => w \in Intakes
      BY <1>1 DEF OneDriver, MyJob, Completed
  <2>3. \A u, v \in Workers \ {w} :
           Engaged(u)' /\ Engaged(v)' /\ MyJob(u)' = MyJob(v)' => u = v
      BY <1>2, <1>3 DEF DriverInv, Driven
  <2>4. \A v \in Workers \ {w} : Engaged(w)' /\ Engaged(v)' => MyJob(w)' # MyJob(v)'
      BY <1>1, <1>3 DEF MyJob
  <2> QED BY <2>1, <2>2, <2>3, <2>4 DEF Driven
<1>5. closes = 0 => SelectionsApart'
  <2> SUFFICES ASSUME closes = 0,
                      NEW k \in Jobs, NEW l \in Jobs, k # l
               PROVE  Compatible(job'[k], job'[l])
      BY DEF SelectionsApart, Compatible
  <2>1. Compatible(job[k], job[l])
      BY PairsOfImports DEF DriverInv
  <2>2. CASE k = j
      BY <1>1, <2>2
  <2>3. CASE l = j
      BY <1>1, <2>3 DEF Compatible
  <2> QED BY <1>1, <2>1, <2>2, <2>3
<1> QED BY <1>1, <1>4, <1>5 DEF DriverInv, Final, Completed

\* A step that touches no job and engages nobody.
LEMMA DrivenKept ==
    ASSUME DriverInv, UNCHANGED <<job, closes>>,
           \A v \in Workers : Engaged(v)' => Engaged(v) /\ worker'[v] = worker[v]
    PROVE  DriverInv' /\ Final
<1>1. Driven'
    BY DEF DriverInv, Driven, MyJob
<1> QED BY <1>1 DEF DriverInv, SelectionsApart, Final

LEMMA ReceiveDriven ==
    ASSUME OneDriver, IInv, DriverInv, NEW w \in Workers, NEW u \in Uploads,
           ReceiveKnown(w, u)
    PROVE  DriverInv' /\ Final
<1> DEFINE live == LiveJobsFor(u.content, u.sheet)
<1>1. ~Engaged(w) /\ UNCHANGED closes
    BY DEF ReceiveKnown, At, Engaged
<1>2. CASE UNCHANGED <<job, worker>>
    BY <1>1, <1>2, DrivenKept DEF Engaged
<1>3. CASE live = {} /\ AddJob(w, PendingJob(u))
  <2> DEFINE r == PendingJob(u)
  <2>0. r \in JobRows /\ r.status = "PENDING" /\ r.content = u.content
      BY UploadRow
  <2>1. r.sheet = u.sheet
      BY DEF PendingJob, AbsentJob
  <2> HIDE DEF r
  <2>2. \A k \in Jobs : Compatible(r, job[k])
      BY <1>3, <2>0, <2>1 DEF LiveJobsFor, Compatible
  <2> QED BY <1>1, <1>3, <2>0, <2>2, AddDriven DEF r
<1>4. CASE w \in Intakes /\ (\E j \in live : Adopt(w, j, job[j])) /\ UNCHANGED job
  <2>1. PICK j \in Jobs : Live(job[j]) /\ Adopt(w, j, job[j])
      BY <1>4 DEF LiveJobsFor
  <2>2. job[j] \in JobRows
      BY DEF IInv, TypeOK
  <2>3. /\ \A v \in Workers \ {w} : worker'[v] = worker[v]
        /\ Engaged(w)' => /\ worker'[w].job = j
                          /\ job[j].status \in {"PENDING", "RUNNING"}
      BY <2>1, <2>2, AdoptWorker DEF Engaged
  <2>4. \A v \in Workers \ {w} : ~Engaged(v)
      BY <1>4 DEF OneDriver, DriverInv, Driven
  <2>5. \A v \in Workers : Engaged(v)' => v = w
      BY <2>3, <2>4 DEF Engaged
  <2>6. Driven'
      BY <1>4, <2>3, <2>5 DEF Driven, MyJob, Completed
  <2> QED BY <1>1, <1>4, <2>6 DEF DriverInv, SelectionsApart, Final
<1> QED BY <1>2, <1>3, <1>4 DEF ReceiveKnown

LEMMA RecordDriven ==
    ASSUME OneDriver, IInv, DriverInv, NEW w \in Workers, RecordNew(w)
    PROVE  DriverInv' /\ Final
<1> DEFINE r == My(w)
<1>1. At(w, "insert") /\ ~Engaged(w) /\ UNCHANGED closes
    BY DEF RecordNew, At, Engaged
<1>2. r \in JobRows /\ r.status = "PENDING" /\ r.content \in Contents
    BY <1>1, Inserting
<1>3. CASE file[r.content] = None
  <2>1. AddJob(w, r)
      BY <1>3 DEF RecordNew
  <2>2. \A k \in Jobs : job[k].status # "ABSENT" => job[k].content # r.content
      BY <1>3 DEF IInv, JobOK, Exists
  <2>3. \A k \in Jobs : Compatible(r, job[k])
      BY <2>2 DEF Compatible, Live
  <2> QED BY <1>1, <1>2, <2>1, <2>3, AddDriven
<1>4. CASE file[r.content] # None
  <2>1. Leave(w) /\ UNCHANGED job
      BY <1>4 DEF RecordNew
  <2> QED BY <1>1, <2>1, LeaveWorker, DrivenKept DEF Engaged
<1> QED BY <1>3, <1>4

LEMMA DriverStep ==
    ASSUME OneDriver, IInv, DriverInv, [Next]_vars
    PROVE  DriverInv' /\ Final
<1>1. ASSUME NEW w \in Workers, Step(w) PROVE DriverInv' /\ Final
  <2>1. CASE At(w, "insert")
    <3>1. RecordNew(w)
        BY <1>1, <2>1 DEF Step, Start, ParseChunk, Reconcile, FinishParsing, Fail,
           ReadForMatch, MatchChunk, FinishMatching, ReadForSnapshot, SnapshotChunk,
           Complete, At
    <3> QED BY <3>1, RecordDriven
  <2>2. CASE ~At(w, "insert")
      BY <1>1, <2>2, WalkDriven
  <2> QED BY <2>1, <2>2
<1>2. ASSUME NEW w \in Workers, NEW u \in Uploads, Receive(w, u)
      PROVE  DriverInv' /\ Final
  <2>1. CASE ReceiveKnown(w, u)
      BY <2>1, ReceiveDriven
  <2>2. CASE StoreNew(w, u)
    <3> DEFINE me == [IdleWorker EXCEPT !.pc = "insert", !.view = PendingJob(u),
                                        !.vendor = u.vendor]
    <3>1. UNCHANGED <<job, closes>> /\ worker' = [worker EXCEPT ![w] = me]
        BY <2>2 DEF StoreNew
    <3>2. me.pc = "insert"
        BY DEF IdleWorker
    <3> HIDE DEF me
    <3>3. worker'[w].pc = "insert" /\ \A v \in Workers \ {w} : worker'[v] = worker[v]
        BY <3>1, <3>2 DEF IInv, TypeOK
    <3> QED BY <3>1, <3>3, DrivenKept DEF Engaged
  <2> QED BY <1>2, <2>1, <2>2 DEF Receive
<1>3. ASSUME NEW w \in Workers, Crash(w) PROVE DriverInv' /\ Final
  <2>1. Leave(w) /\ UNCHANGED <<job, closes>>
      BY <1>3 DEF Crash, dbVars
  <2> QED BY <2>1, LeaveWorker, DrivenKept DEF Engaged
<1>4. ASSUME NEW j \in Jobs, OperatorClose(j) PROVE DriverInv' /\ Final
  <2> DEFINE row == [job[j] EXCEPT !.status = "FAILED", !.stage = "NULL"]
  <2>1. job[j].status = "RUNNING" /\ closes' # 0 /\ UNCHANGED worker
        /\ job' = [job EXCEPT ![j] = row]
      BY <1>4 DEF OperatorClose, IInv, TypeOK
  <2>2. row.status = "FAILED"
      BY DEF IInv, TypeOK, JobRows
  <2> HIDE DEF row
  <2>3. job'[j].status = "FAILED" /\ \A k \in Jobs \ {j} : job'[k] = job[k]
      BY <2>1, <2>2 DEF IInv, TypeOK
  <2>4. \A v \in Workers : Engaged(v) => MyJob(v) \in Jobs
      BY Holds DEF MyJob
  <2>5. Driven'
    <3>1. \A v \in Workers : (Engaged(v)' <=> Engaged(v)) /\ MyJob(v)' = MyJob(v)
        BY <2>1 DEF Engaged, MyJob
    <3> QED BY <2>1, <2>3, <2>4, <3>1 DEF DriverInv, Driven, Completed
  <2> QED BY <2>1, <2>3, <2>5 DEF DriverInv, Final, Completed
<1>5. ASSUME NEW c \in Contents, LoseObject(c) PROVE DriverInv' /\ Final
    BY <1>5, DrivenKept DEF LoseObject, Engaged
<1>6. CASE UNCHANGED vars
    BY <1>6, DrivenKept DEF vars, Engaged
<1> QED BY <1>1, <1>2, <1>3, <1>4, <1>5, <1>6 DEF Next

\* Where every job has one driver, drivers never meet on a job and, until an
\* operator closes jobs under them, no file and worksheet has two live imports.
THEOREM DriversStayApart == ASSUME OneDriver PROVE Spec => []DriverInv
<1>1. Init => DriverInv
    BY DEF Init, DriverInv, Driven, SelectionsApart, Live, Engaged, IdleWorker, AbsentJob
<1>2. IInv /\ DriverInv /\ [Next]_vars => DriverInv'
    BY DriverStep
<1> QED BY <1>1, <1>2, Invariance, PTL DEF Spec

\* One live import per file and worksheet, file-level imports excluding those
\* of worksheets, for any number of requests, crashes and lost objects.
THEOREM OneImportAtATime ==
    ASSUME OneDriver PROVE Spec => []OneImportPerSelection
<1>1. DriverInv => OneImportPerSelection
    BY DEF DriverInv, OneImportPerSelection
<1> QED BY <1>1, DriversStayApart, PTL

\* A job that completed keeps its verdict, also when operators close jobs under
\* the processes that run them.
THEOREM CompletedStaysFinal == ASSUME OneDriver PROVE Spec => CompletedIsFinal
<1> DEFINE Body == \A j \in Jobs : job[j].status \in Completed =>
                                     job'[j].status = job[j].status
<1>1. IInv /\ DriverInv /\ [Next]_vars => [Body]_vars
    BY DriverStep DEF Final
<1>2. Spec => [][Body]_vars
  <2> HIDE DEF Body
  <2> QED BY <1>1, Invariance, DriversStayApart, PTL DEF Spec
<1> QED BY <1>2 DEF CompletedIsFinal
=============================================================================
