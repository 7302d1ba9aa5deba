-------------------------- MODULE AmazonMirror_proofs --------------------------
(***************************************************************************)
(* AmazonOrders implements LaggingMirror: seen from outside, the order     *)
(* lines are a copy of Amazon's that is behind but never goes back or      *)
(* ahead, whose new lines are labelled with the one run that made them,    *)
(* whether or not jobs keep their timeout.                                 *)
(***************************************************************************)
EXTENDS AmazonOrders_proofs

\* A row of the runs belongs to one job at most, from the time it is opened, and
\* no stored line names it as its first before that job closes it.  (OneSlot is
\* more, but only of jobs the timeout spares.)
Named ==
    /\ \A p \in Workers :
         /\ job[p].pc \in Busy <=> job[p].run # 0
         /\ job[p].run # 0 =>
              /\ run[job[p].run].status # "ABSENT"
              /\ \A q \in Workers : q # p => job[q].run # job[p].run
              /\ \A l \in Lines : stored[l].first # job[p].run
         /\ \A l \in Locked(p) :
              stored[l].version = 0 => job[p].written[l].first = job[p].run
    /\ \A l \in Lines :
         /\ stored[l].version = 0 <=> stored[l].first = 0
         /\ stored[l].first # 0 => run[stored[l].first].status # "ABSENT"

MirrorInv == CoverInv /\ Named

----------------------------------------------------------------------------
(* Whose line is it? *)

\* What a step leaves of the name a job works under: the name it had, or none.
NameKept(q) ==
    /\ \/ job'[q].run = job[q].run /\ (job'[q].pc \in Busy <=> job[q].pc \in Busy)
       \/ job'[q].run = 0 /\ job'[q].pc \notin Busy
    /\ \A l \in Locked(q)' :
         stored[l].version = 0 => job'[q].written[l].first = job'[q].run

\* A run that has been opened stays opened.
Opened == \A r \in Runs : run[r].status # "ABSENT" => run'[r].status # "ABSENT"

LEMMA NamedKept ==
    ASSUME WellTyped, Named, UNCHANGED stored, Opened, \A q \in Workers : NameKept(q)
    PROVE  Named'
  <1>1. ASSUME NEW q \in Workers
        PROVE  /\ job'[q].pc \in Busy <=> job'[q].run # 0
               /\ job'[q].run # 0 => job'[q].run = job[q].run
               /\ job[q].run \in Runs \union {0}
    BY DEF NameKept, Named, WellTyped, JobStates
  <1>2. ASSUME NEW q \in Workers, job'[q].run # 0
        PROVE  /\ run'[job'[q].run].status # "ABSENT"
               /\ \A s \in Workers : s # q => job'[s].run # job'[q].run
               /\ \A l \in Lines : stored'[l].first # job'[q].run
    <2>1. job'[q].run = job[q].run /\ job[q].run # 0 /\ job[q].run \in Runs
      BY <1>1, <1>2
    <2>2. /\ run[job[q].run].status # "ABSENT"
          /\ \A s \in Workers : s # q => job[s].run # job[q].run
          /\ \A l \in Lines : stored[l].first # job[q].run
      BY <2>1 DEF Named
    <2> QED
      BY <1>1, <1>2, <2>1, <2>2 DEF Opened
  <1>3. ASSUME NEW l \in Lines
        PROVE  /\ stored'[l].version = 0 <=> stored'[l].first = 0
               /\ stored'[l].first # 0 => run'[stored'[l].first].status # "ABSENT"
    <2>1. stored[l].first \in Runs \union {0}
      BY DEF WellTyped, StoredLines
    <2> QED
      BY <2>1 DEF Named, Opened
  <1> QED
    BY <1>1, <1>2, <1>3 DEF Named, Busy, NameKept

\* A job another one's step leaves alone keeps its name.
LEMMA OthersNamed ==
    ASSUME Named, NEW q \in Workers, job'[q].pc = job[q].pc, job'[q].run = job[q].run,
           job'[q].written = job[q].written
    PROVE  NameKept(q)
  <1>1. Locked(q)' = Locked(q)
    BY DEF Locked
  <1> QED
    BY <1>1 DEF NameKept, Named

\* The steps that neither open nor close a run.
LEMMA QuietNamed ==
    ASSUME IInv, Named, NEW p \in Workers, \A q \in Workers : CountedOnce(q),
           \/ Start(p) \/ OpenRefused(p) \/ FetchReport(p) \/ ReadExisting(p)
           \/ UpsertBatch(p) \/ Deadlock(p) \/ FetchFails(p) \/ WriteFails(p)
           \/ FailRunFails(p) \/ Crash(p)
    PROVE  Named'
  <1>1. UNCHANGED run /\ WellTyped /\ \A q \in Workers : ClaimKept(q)
    BY QuietClaim DEF IInv
  <1>2. UNCHANGED stored /\ Others(p)
    <2>1. CASE UpsertBatch(p)
      BY <1>1, <2>1, UpsertCounted DEF UpsertBatch
    <2>2. CASE ~UpsertBatch(p)
      <3>1. UNCHANGED stored
        BY <1>1, <2>2, OtherSteps
      <3> QED
        BY <1>1, <2>2, <3>1, BlankSteps, IdleCounted, FetchCounted, ReadCounted
    <2> QED
      BY <2>1, <2>2
  <1>3. NameKept(p)
    <2> SUFFICES \A l \in Locked(p)' :
                    stored[l].version = 0 => job'[p].written[l].first = job'[p].run
      BY <1>1 DEF NameKept, ClaimKept
    <2>1. CASE \/ Start(p) \/ OpenRefused(p) \/ Deadlock(p) \/ WriteFails(p)
               \/ FailRunFails(p) \/ Crash(p)
      BY <1>1, <2>1, BlankSteps DEF Blank, Locked, NoRow
    <2>2. CASE FetchReport(p)
      BY <1>1, <2>2, FetchCounted
    <2>3. CASE ReadExisting(p)
      BY <1>1, <2>3, ReadCounted DEF Named
    <2>4. CASE FetchFails(p)
      <3>1. job[p].pc = "fetch" /\ job'[p].written = job[p].written
        BY <1>1, <2>4 DEF FetchFails, WellTyped, JobStates
      <3>2. Locked(p)' = {}
        BY <3>1 DEF CountedOnce, Locked
      <3> QED
        BY <3>2
    <2>5. CASE UpsertBatch(p)
      <3> SUFFICES ASSUME NEW l \in Locked(p)', stored[l].version = 0
                   PROVE  job'[p].written[l].first = job'[p].run
        OBVIOUS
      <3>1. /\ Locked(p)' = Locked(p) \union job[p].batch
            /\ job'[p].run = job[p].run
            /\ job'[p].written[l] = IF l \in job[p].batch
                  THEN Upserted(stored[l], job[p].report[l], job[p].run)
                  ELSE job[p].written[l]
        BY <1>1, <2>5, UpsertCounted DEF Locked
      <3>2. CASE l \in job[p].batch
        BY <3>1, <3>2 DEF Upserted
      <3>3. CASE l \notin job[p].batch
        BY <3>1, <3>3 DEF Named
      <3> QED
        BY <3>2, <3>3
    <2> QED
      BY <2>1, <2>2, <2>3, <2>4, <2>5
  <1>4. \A q \in Workers : NameKept(q)
    BY <1>2, <1>3, OthersNamed DEF Others
  <1> QED
    BY <1>1, <1>2, <1>4, NamedKept DEF Opened

\* A new run has no job and no line yet.
LEMMA OpenNamed ==
    ASSUME WellTyped, Named, NEW p \in Workers, OpenRun(p)
    PROVE  Named'
  <1>0. PICK r \in Unused :
          /\ run' = [run EXCEPT ![r].status = "RUNNING"]
          /\ job' = [job EXCEPT ![p] = [Idle EXCEPT
                 !.pc = "fetch", !.run = r, !.window = job[p].window,
                 !.changed = job[p].changed]]
    BY DEF OpenRun
  <1>1. r \in Runs /\ run[r].status = "ABSENT" /\ r # 0
    BY <1>0, BoundsAssumption DEF Unused, Runs
  <1>2. \A q \in Workers : job[q].run # r
    BY <1>1 DEF Named
  <1>3. \A l \in Lines : stored'[l] = stored[l] /\ stored[l].first # r
    BY <1>1 DEF Named, OpenRun
  <1>4. \A s \in Runs : run[s].status # "ABSENT" \/ s = r => run'[s].status # "ABSENT"
    BY <1>0, <1>1 DEF WellTyped, RunRows
  <1>5. job'[p].run = r /\ job'[p].pc = "fetch"
    <2>1. job'[p] = [Idle EXCEPT !.pc = "fetch", !.run = r, !.window = job[p].window,
                         !.changed = job[p].changed]
      BY <1>0 DEF WellTyped
    <2> QED
      BY <2>1 DEF Idle
  <1>6. Locked(p)' = {} /\ Others(p)
    BY BlankSteps DEF Blank, Locked, NoRow
  <1>7. ASSUME NEW q \in Workers
        PROVE  /\ job'[q].pc \in Busy <=> job'[q].run # 0
               /\ job'[q].run # 0 =>
                    /\ run'[job'[q].run].status # "ABSENT"
                    /\ \A s \in Workers : s # q => job'[s].run # job'[q].run
                    /\ \A l \in Lines : stored'[l].first # job'[q].run
               /\ \A l \in Locked(q)' :
                    stored'[l].version = 0 => job'[q].written[l].first = job'[q].run
    <2>1. CASE q = p
      BY <1>1, <1>2, <1>3, <1>4, <1>5, <1>6, <2>1 DEF Busy, Others
    <2>2. CASE q # p
      <3>1. job'[q] = job[q] /\ job[q].run \in Runs \union {0}
        BY <1>6, <2>2 DEF Others, WellTyped, JobStates
      <3>2. Locked(q)' = Locked(q) /\ \A l \in Locked(q) : l \in Lines
        BY <3>1 DEF Locked
      <3>3. \A s \in Workers : s # q /\ job[q].run # 0 => job'[s].run # job[q].run
        BY <1>2, <1>5, <1>6, <2>2 DEF Others, Named
      <3>4. job[q].run # 0 => run'[job[q].run].status # "ABSENT"
        BY <1>4, <3>1 DEF Named
      <3> QED
        BY <1>3, <3>1, <3>2, <3>3, <3>4 DEF Named, Busy
    <2> QED
      BY <2>1, <2>2
  <1>8. ASSUME NEW l \in Lines
        PROVE  /\ stored'[l].version = 0 <=> stored'[l].first = 0
               /\ stored'[l].first # 0 => run'[stored'[l].first].status # "ABSENT"
    <2>1. stored[l].first \in Runs \union {0}
      BY DEF WellTyped, StoredLines
    <2> QED
      BY <1>3, <1>4, <2>1 DEF Named
  <1> QED
    BY <1>7, <1>8 DEF Named, Busy

\* A close gives the new lines of its transaction the name of its run, which
\* nobody holds afterwards.
LEMMA CloseNamed ==
    ASSUME IInv, Named, \A q \in Workers : CountedOnce(q), NEW p \in Workers, CloseRun(p)
    PROVE  /\ Named'
           /\ job[p].run \in Runs
           /\ \A l \in Lines :
                /\ stored[l].first # job[p].run
                /\ stored'[l].first = IF stored[l].version = 0 /\ stored'[l].version > 0
                                      THEN job[p].run ELSE stored[l].first
  <1> DEFINE r == job[p].run
  <1>1. /\ WellTyped /\ Guarded
        /\ r \in Runs /\ r # 0
        /\ \A q \in Workers : q # p => job[q].run # r
        /\ \A l \in Lines : stored[l].first # r
    <2>1. job[p].pc \in Busy
      BY DEF CloseRun, Busy
    <2>2. r # 0 /\ r \in Runs \union {0}
      BY <2>1 DEF Named, IInv, WellTyped, JobStates
    <2> QED
      BY <2>2 DEF Named, IInv
  <1>2. \A l \in Lines : stored'[l] = IF l \in Locked(p) THEN job[p].written[l] ELSE stored[l]
    BY DEF CloseRun
  <1>3. /\ run'[r].status = "COMPLETED"
        /\ \A s \in Runs : s # r => run'[s] = run[s]
    <2>1. run' = [run EXCEPT ![r] = [run[r] EXCEPT
              !.status = "COMPLETED", !.counts = job[p].counts]]
      BY DEF CloseRun
    <2> QED
      BY <1>1, <2>1 DEF WellTyped, RunRows
  <1>4. Others(p) /\ Locked(p)' = {} /\ job'[p].run = 0 /\ job'[p].pc \notin Busy
    <2>1. Others(p) /\ Locked(p)' = {}
      BY <1>1, BlankSteps DEF Blank, Locked, NoRow
    <2>2. \/ job'[p] = Idle
          \/ job'[p] = [Idle EXCEPT !.pc = "open", !.window = job[p].window + 1,
                                   !.changed = job[p].changed]
      BY <1>1 DEF CloseRun, WellTyped
    <2>3. job'[p].run = 0 /\ (job'[p].pc = "idle" \/ job'[p].pc = "open")
      <3>1. CASE job'[p] = Idle
        BY <3>1 DEF Idle
      <3>2. CASE job'[p] = [Idle EXCEPT !.pc = "open", !.window = job[p].window + 1,
                                        !.changed = job[p].changed]
        BY Zenon, <3>2 DEF Idle
      <3> QED
        BY <2>2, <3>1, <3>2
    <2> QED
      BY <2>1, <2>3 DEF Busy
  <1>5. ASSUME NEW l \in Lines
        PROVE  /\ stored'[l].first = IF stored[l].version = 0 /\ stored'[l].version > 0
                                      THEN r ELSE stored[l].first
               /\ stored'[l].version = 0 <=> stored'[l].first = 0
               /\ stored'[l].first # 0 => run'[stored'[l].first].status # "ABSENT"
    <2>1. /\ stored[l].version \in Nat /\ stored[l].first \in Runs \union {0}
      BY <1>1, BoundsAssumption DEF WellTyped, StoredLines, Versions
    <2>2. /\ stored[l].version = 0 <=> stored[l].first = 0
          /\ stored[l].first # 0 => run'[stored[l].first].status # "ABSENT"
      BY <1>1, <1>3, <2>1 DEF Named
    <2>3. CASE l \in Locked(p)
      <3>1. stored'[l] = job[p].written[l] /\ stored'[l].version > 0
        BY <1>2, <2>3 DEF Locked
      <3>2. stored[l].version = 0 => stored'[l].first = r
        BY <2>3, <3>1 DEF Named
      <3>3. stored[l].version > 0 => stored'[l].first = stored[l].first
        BY <1>1, <2>3, <3>1 DEF Guarded
      <3> QED
        BY <1>1, <1>3, <2>1, <2>2, <3>1, <3>2, <3>3
    <2>4. CASE l \notin Locked(p)
      BY <1>2, <2>1, <2>2, <2>4
    <2> QED
      BY <2>3, <2>4
  <1>6. ASSUME NEW q \in Workers
        PROVE  /\ job'[q].pc \in Busy <=> job'[q].run # 0
               /\ job'[q].run # 0 =>
                    /\ run'[job'[q].run].status # "ABSENT"
                    /\ \A s \in Workers : s # q => job'[s].run # job'[q].run
                    /\ \A l \in Lines : stored'[l].first # job'[q].run
               /\ \A l \in Locked(q)' :
                    stored'[l].version = 0 => job'[q].written[l].first = job'[q].run
    <2>1. CASE q = p
      BY <1>4, <2>1
    <2>2. CASE q # p
      <3>1. job'[q] = job[q] /\ job[q].run \in Runs \union {0} /\ job[q].run # r
        BY <1>1, <1>4, <2>2 DEF Others, WellTyped, JobStates
      <3>2. Locked(q)' = Locked(q) /\ \A l \in Locked(q) : l \in Lines /\ l \notin Locked(p)
        BY <1>1, <2>2, <3>1 DEF Locked, Guarded
      <3>3. \A s \in Workers : s # q /\ job[q].run # 0 => job'[s].run # job[q].run
        BY <1>4 DEF Others, Named
      <3>4. job[q].run # 0 => run'[job[q].run].status # "ABSENT"
        BY <1>3, <3>1 DEF Named
      <3>5. job[q].run # 0 => \A l \in Lines : stored'[l].first # job[q].run
        BY <1>5, <3>1 DEF Named
      <3>6. \A l \in Locked(q) : stored'[l] = stored[l]
        BY <1>2, <3>2
      <3> QED
        BY <3>1, <3>2, <3>3, <3>4, <3>5, <3>6 DEF Named, Busy
    <2> QED
      BY <2>1, <2>2
  <1>7. Named'
    BY <1>5, <1>6 DEF Named, Busy
  <1> QED
    BY <1>1, <1>5, <1>7

LEMMA NamedStep == RunInv /\ Named /\ [Next]_vars => Named'
  <1> SUFFICES ASSUME RunInv, Named, [Next]_vars PROVE Named'
    OBVIOUS
  <1>1. IInv /\ WellTyped /\ \A q \in Workers : CountedOnce(q)
    BY DEF RunInv, IInv
  <1>2. ASSUME NEW l \in Lines, Change(l) PROVE Named'
    <2>1. UNCHANGED <<stored, run>>
      BY <1>2 DEF Change
    <2>2. ASSUME NEW q \in Workers PROVE NameKept(q)
      <3>1. job'[q] = job[q] \/ job'[q] = [job[q] EXCEPT !.changed = job[q].changed \union {l}]
        BY <1>2 DEF Change
      <3>2. /\ job'[q].pc = job[q].pc /\ job'[q].run = job[q].run
            /\ job'[q].written = job[q].written
        BY <1>1, <3>1 DEF WellTyped, JobStates
      <3> QED
        BY <3>2, OthersNamed
    <2> QED
      BY <1>1, <2>1, <2>2, NamedKept DEF Opened
  <1>3. ASSUME NEW r \in Runs, Overdue(r) PROVE Named'
    <2>1. UNCHANGED <<stored, job>> /\ Opened
      BY <1>1, <1>3 DEF Overdue, Opened, WellTyped, RunRows
    <2> QED
      BY <1>1, <2>1, OthersNamed, NamedKept
  <1>4. ASSUME NEW p \in Workers, RecoverStaleRuns(p) PROVE Named'
    <2>1. /\ UNCHANGED stored /\ Opened /\ Others(p)
          /\ job'[p].run = job[p].run /\ job'[p].written = job[p].written
          /\ job'[p].pc \notin Busy /\ job[p].pc \notin Busy
      BY <1>1, <1>4 DEF RecoverStaleRuns, Opened, Others, WellTyped, RunRows, JobStates, Busy
    <2>2. NameKept(p)
      <3>1. Locked(p)' = Locked(p)
        BY <2>1 DEF Locked
      <3> QED
        BY <2>1, <3>1 DEF NameKept, Named
    <2> QED
      BY <1>1, <2>1, <2>2, OthersNamed, NamedKept DEF Others
  <1>5. ASSUME NEW p \in Workers, FailRun(p) PROVE Named'
    <2>1. UNCHANGED stored /\ Opened
      BY <1>1, <1>5 DEF FailRun, Opened, WellTyped, RunRows
    <2>2. Others(p) /\ job'[p] = Idle
      BY <1>1, <1>5, BlankSteps DEF FailRun, WellTyped
    <2>3. NameKept(p)
      BY <2>2 DEF NameKept, Idle, Locked, NoRow, Busy
    <2> QED
      BY <1>1, <2>1, <2>2, <2>3, OthersNamed, NamedKept DEF Others
  <1>6. ASSUME NEW p \in Workers,
           \/ Start(p) \/ OpenRefused(p) \/ FetchReport(p) \/ ReadExisting(p)
           \/ UpsertBatch(p) \/ Deadlock(p) \/ FetchFails(p) \/ WriteFails(p)
           \/ FailRunFails(p) \/ Crash(p)
        PROVE  Named'
    BY <1>1, <1>6, QuietNamed
  <1>7. CASE UNCHANGED vars
    BY <1>1, <1>7, OthersNamed, NamedKept DEF vars, Opened
  <1> QED
    BY <1>1, <1>2, <1>3, <1>4, <1>5, <1>6, <1>7, OpenNamed, CloseNamed DEF Next, Step

----------------------------------------------------------------------------
(* The mirror *)

\* What Amazon and the table look like from the mirror.
Copied(l) == stored[l].version
Pulling == {p \in Workers : job[p].pc # "idle"}
Changed == [p \in Workers |-> IF job[p].pc = "idle" THEN {} ELSE job[p].changed]

\* A step in which a job goes on, seen from the mirror.
Unseen(q) ==
    /\ job'[q].pc = "idle" <=> job[q].pc = "idle"
    /\ job[q].pc # "idle" => job'[q].changed = job[q].changed

LEMMA StutterSeen ==
    ASSUME \A q \in Workers : Unseen(q)
    PROVE  Pulling' = Pulling /\ Changed' = Changed
  BY DEF Unseen, Pulling, Changed

\* A step of one job that ends it.
LEMMA LeaveSeen ==
    ASSUME NEW p \in Workers, Others(p), job'[p].pc = "idle"
    PROVE  Pulling' = Pulling \ {p} /\ Changed' = [Changed EXCEPT ![p] = {}]
  <1>1. \A q \in Workers : q # p => job'[q] = job[q]
    BY DEF Others
  <1>2. Pulling' = Pulling \ {p}
    BY <1>1 DEF Pulling
  <1>3. Changed' = [Changed EXCEPT ![p] = {}]
    BY <1>1 DEF Changed
  <1> QED
    BY <1>2, <1>3

\* What Amazon changes under the jobs at work.
LEMMA ChangeSeen ==
    ASSUME WellTyped, NEW l \in Lines, Change(l)
    PROVE  Mirror!SourceMoves(l)
  <1>1. ASSUME NEW q \in Workers
        PROVE  /\ job'[q].pc = job[q].pc
               /\ job[q].pc # "idle" => job'[q].changed = job[q].changed \union {l}
    <2>1. job'[q] = IF job[q].pc = "idle" THEN job[q]
                    ELSE [job[q] EXCEPT !.changed = job[q].changed \union {l}]
      BY DEF Change
    <2> QED
      BY <2>1 DEF WellTyped, JobStates
  <1>2. Pulling' = Pulling
    BY <1>1 DEF Pulling
  <1>3. Changed' = [q \in Workers |-> IF q \in Pulling THEN Changed[q] \union {l} ELSE Changed[q]]
    BY <1>1 DEF Pulling, Changed
  <1>4. [k \in Lines |-> amazon[k].version]' =
           [[k \in Lines |-> amazon[k].version] EXCEPT ![l] = @ + 1]
    <2>1. \A k \in Lines : amazon'[k].version =
              IF k = l THEN amazon[k].version + 1 ELSE amazon[k].version
      BY DEF Change, WellTyped
    <2> QED
      BY <2>1
  <1>5. UNCHANGED stored
    BY DEF Change
  <1> QED
    BY <1>2, <1>3, <1>4, <1>5 DEF Mirror!SourceMoves, Pulling, Changed

\* A close stores what its transaction wrote.
LEMMA CloseStores ==
    ASSUME MirrorInv, NEW p \in Workers, CloseRun(p)
    PROVE  Mirror!Stored
  <1>1. /\ WellTyped /\ WellTyped' /\ Guarded /\ Behind /\ IInv
        /\ \A q \in Workers : CountedOnce(q)
    <2>1. [Next]_vars
      BY DEF Next, Step
    <2> QED
      BY <2>1, TypeStep DEF MirrorInv, CoverInv, RunInv, IInv
  <1>2. /\ job[p].run \in Runs
        /\ \A l \in Lines :
             /\ stored[l].first # job[p].run
             /\ stored'[l].first = IF stored[l].version = 0 /\ stored'[l].version > 0
                                   THEN job[p].run ELSE stored[l].first
    BY <1>1, CloseNamed DEF MirrorInv
  <1>3. ASSUME NEW l \in Lines
        PROVE  /\ stored'[l].version \in Nat
               /\ stored'[l].version \in stored[l].version .. amazon[l].version
    <2>1. /\ stored[l].version \in Nat /\ amazon[l].version \in Nat
          /\ stored'[l].version \in Nat
      BY <1>1, BoundsAssumption DEF WellTyped, StoredLines, Versions
    <2>2. stored'[l] = IF l \in Locked(p) THEN job[p].written[l] ELSE stored[l]
      BY DEF CloseRun
    <2>3. /\ stored[l].version <= amazon[l].version
          /\ job[p].written[l].version <= amazon[l].version
          /\ l \in Locked(p) => job[p].written[l].version >= stored[l].version
      BY <1>1 DEF Behind, Guarded
    <2> QED
      BY <2>1, <2>2, <2>3
  <1> DEFINE copy == [l \in Lines |-> stored[l].version]
             label == [l \in Lines |-> stored[l].first]
             source == [l \in Lines |-> amazon[l].version]
  <1>4. /\ copy' \in [Lines -> Nat]
        /\ \A k \in Lines : copy'[k] \in copy[k] .. source[k]
    BY <1>3
  <1>5. /\ \A k \in Lines : label[k] # job[p].run
        /\ label' = [k \in Lines |->
              IF copy[k] = 0 /\ copy'[k] > 0 THEN job[p].run ELSE label[k]]
    BY <1>2
  <1> QED
    BY <1>2, <1>4, <1>5 DEF Mirror!Stored

\* A job that closes its last window finishes a pull, any other close stores and
\* goes on.
LEMMA CloseSeen ==
    ASSUME MirrorInv, NEW p \in Workers, CloseRun(p)
    PROVE  Mirror!Next
  <1>1. WellTyped /\ job[p].pc = "close"
    BY DEF MirrorInv, CoverInv, RunInv, IInv, CloseRun
  <1>2. Mirror!Stored /\ UNCHANGED amazon /\ Others(p) /\ p \in Pulling
    BY <1>1, CloseStores, RestSteps DEF Pulling
  <1>3. CASE LastWindow(p)
    <2>1. Pulling' = Pulling \ {p} /\ Changed' = [Changed EXCEPT ![p] = {}]
      <3>1. job'[p].pc = "idle"
        BY <1>1, <1>3 DEF CloseRun, WellTyped, Idle
      <3> QED
        BY <1>2, <3>1, LeaveSeen
    <2>2. \A k \in Lines \ Changed[p] : stored'[k].version = amazon[k].version
      <3>1. Window(p).to = 0
        BY <1>3, WindowFacts DEF LastWindow, Window
      <3>2. \A k \in Lines : amazon[k].age >= Window(p).to
        BY <1>1, <3>1, WindowAssumption DEF WellTyped
      <3>3. Changed[p] = job[p].changed
        BY <1>1 DEF Changed
      <3> QED
        BY <3>2, <3>3, CloseCovers DEF MirrorInv
    <2>3. Mirror!Finish(p)
      BY <1>2, <2>1, <2>2 DEF Mirror!Finish, Mirror!Leave, Pulling, Changed
    <2> QED
      BY <2>3 DEF Mirror!Next
  <1>4. CASE ~LastWindow(p)
    <2>1. job'[p].pc # "idle" /\ job'[p].changed = job[p].changed
      <3>1. job'[p] = [Idle EXCEPT !.pc = "open", !.window = job[p].window + 1,
                           !.changed = job[p].changed]
        BY <1>1, <1>4 DEF CloseRun, WellTyped
      <3> QED
        BY <3>1 DEF Idle
    <2>2. Pulling' = Pulling /\ Changed' = Changed
      <3>1. \A q \in Workers : Unseen(q)
        BY <1>1, <1>2, <2>1 DEF Unseen, Others
      <3> QED
        BY <3>1, StutterSeen
    <2>3. Mirror!Store(p)
      BY <1>2, <2>2 DEF Mirror!Store, Pulling, Changed
    <2> QED
      BY <2>3 DEF Mirror!Next
  <1> QED
    BY <1>3, <1>4

\* A start begins a pull under which nothing has changed.
LEMMA StartSeen ==
    ASSUME WellTyped, NEW p \in Workers, Start(p)
    PROVE  Mirror!Begin(p)
  <1>1. job[p].pc = "idle" /\ UNCHANGED <<amazon, stored>> /\ Others(p)
    BY BlankSteps DEF Start
  <1>2. job'[p].pc # "idle" /\ job'[p].changed = {}
    <2>1. job'[p] = [Idle EXCEPT !.found = StaleRuns,
                         !.pc = IF StaleRuns = {} THEN "open" ELSE "recover"]
      BY DEF Start, WellTyped
    <2> QED
      BY <2>1 DEF Idle
  <1>3. p \notin Pulling /\ Pulling' = Pulling \union {p} /\ Changed' = Changed
    BY <1>1, <1>2 DEF Others, Pulling, Changed
  <1> QED
    BY <1>1, <1>3 DEF Mirror!Begin, Pulling, Changed

\* A refusal, a failure or a death ends a pull that has stored what it has.
LEMMA EndSeen ==
    ASSUME WellTyped, NEW p \in Workers,
           OpenRefused(p) \/ FailRun(p) \/ FailRunFails(p) \/ Crash(p)
    PROVE  Mirror!GiveUp(p)
  <1>1. UNCHANGED <<amazon, stored>> /\ Others(p)
    BY BlankSteps DEF OpenRefused, FailRun, FailRunFails, Crash
  <1>2. job[p].pc # "idle" /\ job'[p].pc = "idle"
    BY DEF OpenRefused, FailRun, FailRunFails, Crash, WellTyped, Idle
  <1>3. p \in Pulling /\ Pulling' = Pulling \ {p} /\ Changed' = [Changed EXCEPT ![p] = {}]
    BY <1>1, <1>2, LeaveSeen DEF Pulling
  <1> QED
    BY <1>1, <1>3 DEF Mirror!GiveUp, Mirror!Leave, Pulling, Changed

\* Everything else a job does is out of sight.
LEMMA WorkUnseen ==
    ASSUME WellTyped, \A q \in Workers : CountedOnce(q), NEW p \in Workers,
           \/ RecoverStaleRuns(p) \/ OpenRun(p) \/ FetchReport(p) \/ ReadExisting(p)
           \/ UpsertBatch(p) \/ Deadlock(p) \/ FetchFails(p) \/ WriteFails(p)
    PROVE  UNCHANGED Mirror!vars
  <1>1. UNCHANGED <<amazon, stored>>
    BY DEF RecoverStaleRuns, OpenRun, FetchReport, ReadExisting, UpsertBatch, Deadlock,
           FetchFails, WriteFails
  <1>2. Others(p)
    BY BlankSteps, IdleCounted, FetchCounted, ReadCounted, UpsertCounted
  <1>3. job[p].pc # "idle" /\ job'[p].pc # "idle" /\ job'[p].changed = job[p].changed
    <2>1. CASE OpenRun(p)
      <3>1. PICK r : job' = [job EXCEPT ![p] = [Idle EXCEPT
                !.pc = "fetch", !.run = r, !.window = job[p].window,
                !.changed = job[p].changed]]
        BY <2>1 DEF OpenRun
      <3>2. job'[p] = [Idle EXCEPT !.pc = "fetch", !.run = r, !.window = job[p].window,
                           !.changed = job[p].changed]
        BY <3>1 DEF WellTyped
      <3> QED
        BY <2>1, <3>2 DEF OpenRun, Idle
    <2>2. CASE Deadlock(p) \/ WriteFails(p)
      <3>1. job'[p] = [Idle EXCEPT !.pc = "fail", !.window = job[p].window,
                           !.changed = job[p].changed, !.run = job[p].run]
        BY <2>2 DEF Deadlock, WriteFails, RolledBack, WellTyped
      <3>2. job[p].pc # "idle"
        BY <2>2 DEF Deadlock, WriteFails, Waits, InTransaction
      <3> QED
        BY <3>1, <3>2 DEF Idle
    <2>3. CASE RecoverStaleRuns(p) \/ FetchFails(p)
      <3>1. CASE RecoverStaleRuns(p)
        BY <3>1 DEF RecoverStaleRuns, WellTyped, JobStates
      <3>2. CASE FetchFails(p)
        BY <3>2 DEF FetchFails, WellTyped, JobStates
      <3> QED
        BY <2>3, <3>1, <3>2
    <2>4. CASE ReadExisting(p)
      <3>1. PICK b : job' = [job EXCEPT
              ![p].batch = b, ![p].counts = Classified(p, b), ![p].pc = "upsert"]
        BY <2>4 DEF ReadExisting
      <3> QED
        BY <2>4, <3>1 DEF ReadExisting, WellTyped, JobStates
    <2>5. CASE FetchReport(p)
      <3> DEFINE report == [l \in Lines |-> IF l \in Reported(p) THEN amazon[l].version ELSE 0]
                 pc == IF Reported(p) = {} THEN "close" ELSE "read"
      <3>1. job' = [job EXCEPT ![p] = [job[p] EXCEPT
                !.report = report, !.todo = Reported(p), !.pc = pc]]
        BY <2>5 DEF FetchReport
      <3>2. pc # "idle" /\ job[p].pc # "idle"
        BY <2>5 DEF FetchReport
      <3> HIDE DEF report, pc
      <3> QED
        BY <3>1, <3>2 DEF WellTyped, JobStates
    <2>6. CASE UpsertBatch(p)
      <3> DEFINE rest == job[p].todo \ job[p].batch
                 written == [l \in Lines |-> IF l \in job[p].batch
                     THEN Upserted(stored[l], job[p].report[l], job[p].run)
                     ELSE job[p].written[l]]
                 report == [l \in Lines |-> IF l \in rest THEN job[p].report[l] ELSE 0]
                 pc == IF rest = {} THEN "close" ELSE "read"
      <3>1. job' = [job EXCEPT ![p] = [job[p] EXCEPT
                !.written = written, !.todo = rest, !.batch = {}, !.report = report,
                !.pc = pc]]
        BY <2>6 DEF UpsertBatch
      <3>2. pc # "idle" /\ job[p].pc # "idle"
        BY <2>6 DEF UpsertBatch
      <3> HIDE DEF written, rest, report, pc
      <3> QED
        BY <3>1, <3>2 DEF WellTyped, JobStates
    <2> QED
      BY <2>1, <2>2, <2>3, <2>4, <2>5, <2>6
  <1>4. Pulling' = Pulling /\ Changed' = Changed
    BY <1>2, <1>3, StutterSeen DEF Unseen, Others
  <1> QED
    BY <1>1, <1>4 DEF Mirror!vars, Pulling, Changed

LEMMA NextMirrors == MirrorInv /\ [Next]_vars => [Mirror!Next]_Mirror!vars
  <1> SUFFICES ASSUME MirrorInv, [Next]_vars PROVE [Mirror!Next]_Mirror!vars
    OBVIOUS
  <1>1. WellTyped /\ \A q \in Workers : CountedOnce(q)
    BY DEF MirrorInv, CoverInv, RunInv, IInv
  <1>2. ASSUME NEW l \in Lines, Change(l) PROVE Mirror!Next
    BY <1>1, <1>2, ChangeSeen DEF Mirror!Next
  <1>3. ASSUME UNCHANGED <<amazon, stored, job>> PROVE UNCHANGED Mirror!vars
    BY <1>3 DEF Mirror!vars
  <1>4. ASSUME NEW p \in Workers, Start(p) PROVE Mirror!Next
    BY <1>1, <1>4, StartSeen DEF Mirror!Next
  <1>5. ASSUME NEW p \in Workers,
               OpenRefused(p) \/ FailRun(p) \/ FailRunFails(p) \/ Crash(p)
        PROVE  Mirror!Next
    BY <1>1, <1>5, EndSeen DEF Mirror!Next
  <1>6. ASSUME NEW p \in Workers, CloseRun(p) PROVE Mirror!Next
    BY <1>6, CloseSeen
  <1>7. ASSUME NEW r \in Runs, Overdue(r) PROVE UNCHANGED <<amazon, stored, job>>
    BY <1>7 DEF Overdue
  <1>8. CASE UNCHANGED vars
    BY <1>3, <1>8 DEF vars
  <1> QED
    BY <1>1, <1>2, <1>3, <1>4, <1>5, <1>6, <1>7, <1>8, WorkUnseen DEF Next, Step

LEMMA MirrorInvInit == Init => MirrorInv
  <1> SUFFICES ASSUME Init PROVE MirrorInv
    OBVIOUS
  <1>1. CoverInv
    BY CoverInvInit
  <1>2. Named
    <2>1. ASSUME NEW p \in Workers
          PROVE  job[p].pc \notin Busy /\ job[p].run = 0 /\ Locked(p) = {}
      BY DEF Init, Idle, Busy, Locked, NoRow
    <2>2. \A l \in Lines : stored[l].version = 0 /\ stored[l].first = 0
      BY DEF Init, NoRow
    <2> QED
      BY <2>1, <2>2 DEF Named
  <1> QED
    BY <1>1, <1>2 DEF MirrorInv

\* services/amazon_orders.py:349: for any lines, processes, windows, batches,
\* faults and deaths, the stored lines mirror Amazon's: behind, never ahead, never
\* going back, each new line under the name of the one run that made it, and
\* complete, but for what changed meanwhile, whenever a job ends well.
THEOREM TableIsAMirror == Spec => MirrorSpec
  <1>1. Init => Mirror!Init
    <2> SUFFICES ASSUME Init PROVE Mirror!Init
      OBVIOUS
    <2>1. \A l \in Lines : amazon[l].version \in Nat
      BY TypeInit, BoundsAssumption DEF WellTyped, Versions
    <2>2. /\ \A l \in Lines : stored[l].version = 0 /\ stored[l].first = 0
          /\ \A p \in Workers : job[p].pc = "idle"
      BY DEF Init, NoRow, Idle
    <2> QED
      BY <2>1, <2>2 DEF Mirror!Init
  <1>2. MirrorInv /\ [Next]_vars => MirrorInv'
    BY CoverStep, NamedStep DEF MirrorInv, CoverInv
  <1> QED
    BY <1>1, <1>2, MirrorInvInit, NextMirrors, PTL DEF Spec, MirrorSpec, Mirror!Spec
=============================================================================
