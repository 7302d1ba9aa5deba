-------------------------- MODULE AmazonOrders_proofs --------------------------
(***************************************************************************)
(* Proofs about AmazonOrders: however many jobs overlap, fail, die or      *)
(* overtake each other, the stored version of an order line never goes     *)
(* back, and a job that has closed its last window has left no line out;   *)
(* of jobs the timeout spares, the rows of the runs say what these did.    *)
(***************************************************************************)
EXTENDS AmazonOrders, FiniteSetTheorems, TLAPS

\* What a transaction has written is locked, and lies ahead of what is stored.
Guarded ==
    /\ \A p, q \in Workers : p # q => Locked(p) \intersect Locked(q) = {}
    /\ \A p \in Workers : \A l \in Locked(p) :
         /\ job[p].written[l].version >= stored[l].version
         /\ stored[l].version > 0 => job[p].written[l].first = stored[l].first

IInv == WellTyped /\ Guarded

\* A line is counted at most once: it is either still to do or in the counts.
CountedOnce(p) ==
    LET c == job[p].counts
        counted == c.created + c.updated + c.unchanged IN
    /\ job[p].batch \subseteq job[p].todo
    /\ job[p].pc \in {"read", "close"} =>
         counted + Cardinality(job[p].todo) <= Cardinality(Lines)
    /\ job[p].pc = "upsert" =>
         counted + Cardinality(job[p].todo \ job[p].batch) <= Cardinality(Lines)
    /\ job[p].pc \notin {"read", "upsert", "close"} =>
         counted = 0 /\ job[p].todo = {} /\ Locked(p) = {}
    /\ job[p].pc \in {"read", "close"} => job[p].batch = {}
    /\ job[p].pc = "close" => job[p].todo = {}
    /\ \A l \in job[p].todo : job[p].report[l] > 0 /\ l \notin Locked(p)

\* The lines p has counted as new.
Fresh(p) == {l \in Locked(p) \union job[p].batch : stored[l].version = 0}

Busy == {"fetch", "read", "upsert", "close", "fail"}

\* A run is at work for one job, which the timeout spares.
OneSlot ==
    /\ \A r, s \in Runs : run[r].status = "RUNNING" /\ run[s].status = "RUNNING" => r = s
    /\ \A p, q \in Workers : p # q => job[p].run = 0 \/ job[q].run = 0
    /\ \A r \in Runs : run[r].overdue => run[r].status \in {"RUNNING", "FAILED"}
    /\ \A p \in Workers :
         /\ job[p].pc \in Busy <=> job[p].run # 0
         /\ job[p].run # 0 => run[job[p].run].status = "RUNNING" /\ ~run[job[p].run].overdue
         /\ \A r \in job[p].found : run[r].overdue

\* Rows name the runs that wrote them, and these count what they created.
Ledger ==
    /\ \A l \in Lines :
         /\ stored[l].version > 0 => /\ stored[l].first \in Runs /\ stored[l].last \in Runs
                                    /\ run[stored[l].first].status = "COMPLETED"
                                    /\ run[stored[l].last].status = "COMPLETED"
         /\ stored[l].version = 0 => stored[l].first = 0
    /\ \A r \in Runs : run[r].status = "COMPLETED" =>
         run[r].counts.created = Cardinality({l \in Lines : stored[l].first = r})
    /\ \A p \in Workers :
         /\ job[p].counts.created = Cardinality(Fresh(p))
         /\ \A l \in Locked(p) :
              /\ job[p].written[l].last = job[p].run
              /\ stored[l].version = 0 => job[p].written[l].first = job[p].run

RunInv ==
    /\ IInv
    /\ TypeOK
    /\ \A p \in Workers : CountedOnce(p)
    /\ discipline = "TIMELY" => OneSlot /\ Ledger

----------------------------------------------------------------------------
(* Types *)

\* An idle job is a job.
LEMMA IdleType == Idle \in JobStates
  <1>1. NoRow \in StoredLines
    BY BoundsAssumption DEF NoRow, StoredLines, Versions
  <1>2. [l \in Lines |-> NoRow] \in [Lines -> StoredLines]
    BY <1>1
  <1>3. [l \in Lines |-> 0] \in [Lines -> Versions]
    BY BoundsAssumption DEF Versions
  <1>4. NoCounts \in Counts
    BY DEF NoCounts, Counts
  <1> QED
    BY <1>2, <1>3, <1>4 DEF Idle, JobStates

\* The counts of a batch are numbers: the batch is finite.
LEMMA ClassifiedType ==
    ASSUME NEW p \in Workers, NEW b \in SUBSET Lines, job[p].counts \in Counts
    PROVE  Classified(p, b) \in Counts
  <1> DEFINE known == {l \in b : stored[l].version > 0}
             newer == {l \in known : job[p].report[l] > stored[l].version}
  <1>1. IsFiniteSet(b)
    BY LinesAssumption, FS_Subset
  <1>2. IsFiniteSet(b \ known) /\ IsFiniteSet(newer) /\ IsFiniteSet(known \ newer)
    <2>1. b \ known \subseteq b /\ newer \subseteq b /\ known \ newer \subseteq b
      OBVIOUS
    <2> QED
      BY <1>1, <2>1, FS_Subset
  <1>3. /\ Cardinality(b \ known) \in Nat
        /\ Cardinality(newer) \in Nat
        /\ Cardinality(known \ newer) \in Nat
    BY <1>2, FS_CardinalityType
  <1>4. Classified(p, b) =
            [created |-> job[p].counts.created + Cardinality(b \ known),
             updated |-> job[p].counts.updated + Cardinality(newer),
             unchanged |-> job[p].counts.unchanged + Cardinality(known \ newer)]
    BY DEF Classified
  <1> HIDE DEF known, newer
  <1> QED
    BY <1>3, <1>4 DEF Counts

\* An upserted row is a row, not older than the one it was upserted over.
LEMMA UpsertedFact ==
    ASSUME NEW row \in StoredLines, NEW version \in Versions, NEW r \in Runs \union {0}
    PROVE  /\ Upserted(row, version, r) \in StoredLines
           /\ Upserted(row, version, r).version >= row.version
           /\ row.version > 0 => Upserted(row, version, r).first = row.first
  <1>1. row.version \in Nat /\ version \in Nat
    BY BoundsAssumption DEF StoredLines, Versions
  <1>2. CASE row.version = 0
    BY <1>1, <1>2 DEF Upserted, StoredLines
  <1>3. CASE row.version # 0
    <2> DEFINE new == IF version > row.version THEN version ELSE row.version
    <2>1. Upserted(row, version, r) = [version |-> new, first |-> row.first, last |-> r]
      BY <1>3 DEF Upserted, StoredLines
    <2>2. new \in Versions /\ new >= row.version
      BY <1>1 DEF StoredLines
    <2>3. row.first \in Runs \union {0}
      BY DEF StoredLines
    <2> HIDE DEF new
    <2> QED
      BY <2>1, <2>2, <2>3 DEF StoredLines
  <1> QED
    BY <1>2, <1>3

LEMMA TypeInit == Init => WellTyped
  <1> SUFFICES ASSUME Init PROVE WellTyped
    OBVIOUS
  <1> USE BoundsAssumption
  <1>1. amazon \in [Lines -> [version : Versions, age : 0 .. Days]]
    <2>1. /\ [version : {1}, age : 0 .. Days] \subseteq [version : Versions, age : 0 .. Days]
          /\ [version : {0}, age : {0}] \subseteq [version : Versions, age : 0 .. Days]
      BY WindowAssumption DEF Versions
    <2> QED
      BY <2>1 DEF Init
  <1>2. stored \in [Lines -> StoredLines]
    BY DEF Init, NoRow, StoredLines, Versions
  <1>3. run \in [Runs -> RunRows]
    BY DEF Init, NoRun, NoCounts, RunRows, Statuses, Counts
  <1>4. job \in [Workers -> JobStates]
    BY IdleType DEF Init
  <1> QED
    BY <1>1, <1>2, <1>3, <1>4 DEF Init, WellTyped

\* Every action keeps the types.
LEMMA TypeStep == WellTyped /\ [Next]_vars => WellTyped'
  <1> SUFFICES ASSUME WellTyped, [Next]_vars PROVE WellTyped'
    OBVIOUS
  <1> USE BoundsAssumption, IdleType DEF WellTyped
  <1>1. ASSUME NEW l \in Lines, Change(l) PROVE WellTyped'
    <2>1. amazon'[l] \in [version : Versions, age : 0 .. Days]
      BY <1>1, WindowAssumption DEF Change, Versions
    <2>2. \A p \in Workers : [job[p] EXCEPT !.changed = @ \union {l}] \in JobStates
      BY DEF JobStates
    <2> QED
      BY <1>1, <2>1, <2>2 DEF Change
  <1>2. ASSUME NEW r \in Runs, Overdue(r) PROVE WellTyped'
    BY <1>2 DEF Overdue, RunRows
  <1>3. ASSUME NEW p \in Workers, Start(p) PROVE WellTyped'
    <2>1. StaleRuns \in SUBSET Runs
      BY DEF StaleRuns
    <2>2. job'[p] \in JobStates
      BY <1>3, <2>1 DEF Start, JobStates
    <2> QED
      BY <1>3, <2>2 DEF Start
  <1>4. ASSUME NEW p \in Workers, RecoverStaleRuns(p) PROVE WellTyped'
    <2>1. run' \in [Runs -> RunRows]
      BY <1>4 DEF RecoverStaleRuns, RunRows, Statuses
    <2>2. job'[p] \in JobStates
      BY <1>4 DEF RecoverStaleRuns, JobStates
    <2> QED
      BY <1>4, <2>1, <2>2 DEF RecoverStaleRuns
  <1>5. ASSUME NEW p \in Workers, OpenRun(p) PROVE WellTyped'
    <2> PICK r \in Unused :
            /\ run' = [run EXCEPT ![r].status = "RUNNING"]
            /\ job' = [job EXCEPT ![p] = [Idle EXCEPT
                   !.pc = "fetch", !.run = r, !.window = job[p].window,
                   !.changed = job[p].changed]]
      BY <1>5 DEF OpenRun
    <2>1. r \in Runs
      BY DEF Unused
    <2>2. run' \in [Runs -> RunRows]
      BY <2>1 DEF RunRows, Statuses
    <2>3. job'[p] \in JobStates
      BY <2>1 DEF JobStates
    <2> QED
      BY <1>5, <2>2, <2>3 DEF OpenRun
  <1>6. ASSUME NEW p \in Workers, OpenRefused(p) PROVE WellTyped'
    BY <1>6 DEF OpenRefused
  <1>7. ASSUME NEW p \in Workers, FetchReport(p) PROVE WellTyped'
    <2>1. Reported(p) \in SUBSET Lines
      BY DEF Reported
    <2>2. [l \in Lines |-> IF l \in Reported(p) THEN amazon[l].version ELSE 0]
              \in [Lines -> Versions]
      BY DEF Versions
    <2>3. job'[p] \in JobStates
      BY <1>7, <2>1, <2>2 DEF FetchReport, JobStates
    <2> QED
      BY <1>7, <2>3 DEF FetchReport
  <1>8. ASSUME NEW p \in Workers, ReadExisting(p) PROVE WellTyped'
    <2> PICK b \in Batches(p) : job' = [job EXCEPT
            ![p].batch = b, ![p].counts = Classified(p, b), ![p].pc = "upsert"]
      BY <1>8 DEF ReadExisting
    <2>1. b \in SUBSET Lines
      BY DEF Batches, JobStates
    <2>2. Classified(p, b) \in Counts
      BY <2>1, ClassifiedType DEF JobStates
    <2>3. job'[p] \in JobStates
      BY <2>1, <2>2 DEF JobStates
    <2> QED
      BY <1>8, <2>3 DEF ReadExisting
  <1>9. ASSUME NEW p \in Workers, UpsertBatch(p) PROVE WellTyped'
    <2> DEFINE rest == job[p].todo \ job[p].batch
               written == [l \in Lines |-> IF l \in job[p].batch
                   THEN Upserted(stored[l], job[p].report[l], job[p].run)
                   ELSE job[p].written[l]]
               report == [l \in Lines |-> IF l \in rest THEN job[p].report[l] ELSE 0]
    <2>1. written \in [Lines -> StoredLines]
      BY UpsertedFact DEF JobStates
    <2>2. report \in [Lines -> Versions]
      BY DEF JobStates, Versions
    <2>3. rest \in SUBSET Lines
      BY DEF JobStates
    <2>4. job' = [job EXCEPT ![p] = [job[p] EXCEPT
              !.written = written, !.todo = rest, !.batch = {}, !.report = report,
              !.pc = IF rest = {} THEN "close" ELSE "read"]]
      BY <1>9 DEF UpsertBatch
    <2> HIDE DEF written, report, rest
    <2>5. job'[p] \in JobStates
      BY <2>1, <2>2, <2>3, <2>4 DEF JobStates
    <2> QED
      BY <1>9, <2>4, <2>5 DEF UpsertBatch
  <1>10. ASSUME NEW p \in Workers, CloseRun(p) PROVE WellTyped'
    <2>1. stored' \in [Lines -> StoredLines]
      BY <1>10 DEF CloseRun, JobStates
    <2>2. run' \in [Runs -> RunRows]
      <3>1. job[p].counts \in Counts
        BY DEF JobStates
      <3>2. \A r \in Runs : [run[r] EXCEPT !.status = "COMPLETED", !.counts = job[p].counts]
                \in RunRows
        BY <3>1 DEF RunRows, Statuses
      <3>3. run' = [run EXCEPT ![job[p].run] = [run[job[p].run] EXCEPT
                !.status = "COMPLETED", !.counts = job[p].counts]]
        BY <1>10 DEF CloseRun
      <3> QED
        BY <3>2, <3>3
    <2>3. job'[p] \in JobStates
      <3> DEFINE next == [Idle EXCEPT !.pc = "open", !.window = job[p].window + 1,
                              !.changed = job[p].changed]
      <3>1. next \in JobStates
        <4>1. job[p].window + 1 \in Nat /\ job[p].changed \in SUBSET Lines
          BY DEF JobStates
        <4> QED
          BY <4>1 DEF JobStates
      <3>2. job'[p] \in {Idle, next}
        BY <1>10 DEF CloseRun
      <3> QED
        BY <3>1, <3>2
    <2> QED
      BY <1>10, <2>1, <2>2, <2>3 DEF CloseRun
  <1>11. ASSUME NEW p \in Workers, job' = RolledBack(p) PROVE job' \in [Workers -> JobStates]
    BY <1>11 DEF RolledBack, JobStates
  <1>12. ASSUME NEW p \in Workers, Deadlock(p) PROVE WellTyped'
    BY <1>11, <1>12 DEF Deadlock
  <1>13. ASSUME NEW p \in Workers, FailRun(p) PROVE WellTyped'
    BY <1>13 DEF FailRun, RunRows, Statuses
  <1>14. ASSUME NEW p \in Workers, FetchFails(p) PROVE WellTyped'
    <2>1. job'[p] \in JobStates
      BY <1>14 DEF FetchFails, JobStates
    <2> QED
      BY <1>14, <2>1 DEF FetchFails
  <1>15. ASSUME NEW p \in Workers, WriteFails(p) PROVE WellTyped'
    BY <1>11, <1>15 DEF WriteFails
  <1>16. ASSUME NEW p \in Workers, FailRunFails(p) PROVE WellTyped'
    BY <1>16 DEF FailRunFails
  <1>17. ASSUME NEW p \in Workers, Crash(p) PROVE WellTyped'
    BY <1>17 DEF Crash
  <1>18. CASE UNCHANGED vars
    BY <1>18 DEF vars
  <1> QED
    BY <1>1, <1>2, <1>3, <1>4, <1>5, <1>6, <1>7, <1>8, <1>9, <1>10, <1>12, <1>13,
       <1>14, <1>15, <1>16, <1>17, <1>18 DEF Next, Step

----------------------------------------------------------------------------
(* Locks *)

\* A step that leaves the rows alone, and of no job's uncommitted rows more than
\* their disappearance, keeps Guarded.
LEMMA Untouched ==
    ASSUME WellTyped, Guarded, UNCHANGED stored,
           \A p \in Workers :
              \/ job'[p].written = job[p].written
              \/ job'[p].written = [l \in Lines |-> NoRow]
    PROVE  Guarded'
  <1>1. \A p \in Workers : \A l \in Locked(p)' :
           l \in Locked(p) /\ job'[p].written = job[p].written
    BY DEF Locked, NoRow
  <1> QED
    BY <1>1 DEF Guarded

\* The one action that locks rows writes what UpsertedFact says of them.
LEMMA UpsertGuarded ==
    ASSUME IInv, NEW p \in Workers, UpsertBatch(p)
    PROVE  Guarded'
  <1>1. \A q \in Workers : q # p => job'[q] = job[q]
    BY DEF UpsertBatch, IInv, WellTyped
  <1>2. \A l \in Lines : job'[p].written[l] =
           IF l \in job[p].batch
           THEN Upserted(stored[l], job[p].report[l], job[p].run) ELSE job[p].written[l]
    BY DEF UpsertBatch, IInv, WellTyped, JobStates
  <1>3. \A q \in Workers : q # p => job[p].batch \intersect Locked(q) = {}
    BY DEF UpsertBatch, Waits
  <1>4. \A q \in Workers : q # p => Locked(q)' = Locked(q)
    BY <1>1 DEF Locked
  <1>5. Locked(p)' \subseteq Locked(p) \union job[p].batch
    BY <1>2 DEF Locked
  <1>6. \A q, r \in Workers : q # r => Locked(q)' \intersect Locked(r)' = {}
    <2> TAKE q, r \in Workers
    <2> HAVE q # r
    <2>1. CASE q = p
      BY <1>3, <1>4, <1>5, <2>1 DEF IInv, Guarded
    <2>2. CASE r = p
      BY <1>3, <1>4, <1>5, <2>2 DEF IInv, Guarded
    <2>3. CASE q # p /\ r # p
      BY <1>4, <2>3 DEF IInv, Guarded
    <2> QED
      BY <2>1, <2>2, <2>3
  <1>7. ASSUME NEW q \in Workers, NEW l \in Locked(q)'
        PROVE  /\ job'[q].written[l].version >= stored[l].version
               /\ stored[l].version > 0 => job'[q].written[l].first = stored[l].first
    <2>1. l \in Lines
      BY DEF Locked
    <2>2. CASE q # p
      BY <1>1, <1>4, <1>7, <2>2 DEF IInv, Guarded
    <2>3. CASE q = p /\ l \notin job[p].batch
      BY <1>2, <1>5, <1>7, <2>1, <2>3 DEF IInv, Guarded
    <2>4. CASE q = p /\ l \in job[p].batch
      <3>1. /\ stored[l] \in StoredLines
            /\ job[p].report[l] \in Versions
            /\ job[p].run \in Runs \union {0}
        BY <2>1 DEF IInv, WellTyped, JobStates
      <3> QED
        BY <1>2, <2>1, <2>4, <3>1, UpsertedFact
    <2> QED
      BY <2>2, <2>3, <2>4
  <1>8. stored' = stored
    BY DEF UpsertBatch
  <1> QED
    BY <1>6, <1>7, <1>8 DEF Guarded

\* A commit replaces rows no other transaction has written.
LEMMA CloseGuarded ==
    ASSUME IInv, NEW p \in Workers, CloseRun(p)
    PROVE  Guarded'
  <1>1. \A q \in Workers : q # p => job'[q] = job[q]
    BY DEF CloseRun, IInv, WellTyped
  <1>2. Locked(p)' = {}
    <2>1. job'[p].written = [l \in Lines |-> NoRow]
      <3>1. Idle.written = [l \in Lines |-> NoRow]
        BY DEF Idle
      <3>2. \/ job'[p] = Idle
            \/ job'[p] = [Idle EXCEPT !.pc = "open", !.window = job[p].window + 1,
                                     !.changed = job[p].changed]
        BY DEF CloseRun, IInv, WellTyped
      <3> QED
        BY <3>1, <3>2 DEF Idle
    <2> QED
      BY <2>1 DEF Locked, NoRow
  <1>3. \A q \in Workers : q # p => Locked(q)' = Locked(q)
    BY <1>1 DEF Locked
  <1>4. \A q \in Workers : q # p => \A l \in Locked(q) : stored'[l] = stored[l]
    BY DEF CloseRun, IInv, Guarded, Locked
  <1> QED
    BY <1>1, <1>2, <1>3, <1>4 DEF IInv, Guarded

----------------------------------------------------------------------------
(* The invariant and the property *)

\* What jobs do outside UpsertBatch and CloseRun: no row is stored, and a job
\* keeps its uncommitted rows or loses them all.
LEMMA OtherSteps ==
    ASSUME WellTyped, NEW p \in Workers,
           \/ Start(p) \/ RecoverStaleRuns(p) \/ OpenRun(p) \/ OpenRefused(p)
           \/ FetchReport(p) \/ ReadExisting(p) \/ Deadlock(p) \/ FailRun(p)
           \/ FetchFails(p) \/ WriteFails(p) \/ FailRunFails(p) \/ Crash(p)
    PROVE  /\ UNCHANGED stored
           /\ \A q \in Workers :
                \/ job'[q].written = job[q].written
                \/ job'[q].written = [l \in Lines |-> NoRow]
  <1> USE DEF WellTyped
  <1>1. Idle.written = [l \in Lines |-> NoRow]
    BY DEF Idle
  <1>2. CASE Start(p)
    BY <1>1, <1>2 DEF Start, Idle
  <1>3. CASE RecoverStaleRuns(p)
    BY <1>3 DEF RecoverStaleRuns, JobStates
  <1>4. CASE OpenRun(p)
    <2>1. PICK r : job' = [job EXCEPT ![p] = [Idle EXCEPT
              !.pc = "fetch", !.run = r, !.window = job[p].window,
              !.changed = job[p].changed]]
      BY <1>4 DEF OpenRun
    <2>2. job'[p].written = Idle.written
      BY <2>1 DEF Idle
    <2> QED
      BY <1>1, <1>4, <2>1, <2>2 DEF OpenRun
  <1>5. CASE OpenRefused(p) \/ FailRun(p) \/ FailRunFails(p) \/ Crash(p)
    BY <1>1, <1>5 DEF OpenRefused, FailRun, FailRunFails, Crash
  <1>6. CASE FetchReport(p)
    <2>1. \A q \in Workers : job'[q].written = job[q].written
      <3> DEFINE report == [l \in Lines |-> IF l \in Reported(p) THEN amazon[l].version ELSE 0]
                 pc == IF Reported(p) = {} THEN "close" ELSE "read"
      <3>1. job' = [job EXCEPT ![p] = [job[p] EXCEPT
                !.report = report, !.todo = Reported(p), !.pc = pc]]
        BY <1>6 DEF FetchReport
      <3> HIDE DEF report, pc
      <3> QED
        BY <3>1 DEF JobStates
    <2> QED
      BY <1>6, <2>1 DEF FetchReport
  <1>7. CASE ReadExisting(p)
    <2> PICK b \in Batches(p) : job' = [job EXCEPT
            ![p].batch = b, ![p].counts = Classified(p, b), ![p].pc = "upsert"]
      BY <1>7 DEF ReadExisting
    <2>1. \A q \in Workers : job'[q].written = job[q].written
      BY DEF JobStates
    <2> QED
      BY <1>7, <2>1 DEF ReadExisting
  <1>8. CASE Deadlock(p) \/ WriteFails(p)
    <2>1. job' = RolledBack(p) /\ UNCHANGED stored
      BY <1>8 DEF Deadlock, WriteFails
    <2>2. \A q \in Workers : q # p => job'[q] = job[q]
      BY <2>1 DEF RolledBack
    <2>3. job'[p] = [Idle EXCEPT !.pc = "fail", !.window = job[p].window,
                         !.changed = job[p].changed, !.run = job[p].run]
      BY <2>1 DEF RolledBack
    <2>4. job'[p].written = Idle.written
      BY <2>3 DEF Idle
    <2> QED
      BY <1>1, <2>1, <2>2, <2>4
  <1>9. CASE FetchFails(p)
    BY <1>9 DEF FetchFails, JobStates
  <1> QED
    BY <1>2, <1>3, <1>4, <1>5, <1>6, <1>7, <1>8, <1>9

LEMMA InvStep == IInv /\ [Next]_vars => IInv'
  <1> SUFFICES ASSUME IInv, [Next]_vars PROVE Guarded'
    BY TypeStep DEF IInv
  <1>1. ASSUME NEW l \in Lines, Change(l) PROVE Guarded'
    <2>1. \A p \in Workers : job'[p].written = job[p].written
      BY <1>1 DEF Change, IInv, WellTyped, JobStates
    <2> QED
      BY <1>1, <2>1, Untouched DEF Change, IInv
  <1>2. ASSUME NEW r \in Runs, Overdue(r) PROVE Guarded'
    BY <1>2, Untouched DEF Overdue, IInv
  <1>3. ASSUME NEW p \in Workers, UpsertBatch(p) PROVE Guarded'
    BY <1>3, UpsertGuarded
  <1>4. ASSUME NEW p \in Workers, CloseRun(p) PROVE Guarded'
    BY <1>4, CloseGuarded
  <1>5. ASSUME NEW p \in Workers,
           \/ Start(p) \/ RecoverStaleRuns(p) \/ OpenRun(p) \/ OpenRefused(p)
           \/ FetchReport(p) \/ ReadExisting(p) \/ Deadlock(p) \/ FailRun(p)
           \/ FetchFails(p) \/ WriteFails(p) \/ FailRunFails(p) \/ Crash(p)
        PROVE  Guarded'
    BY <1>5, OtherSteps, Untouched DEF IInv
  <1>6. CASE UNCHANGED vars
    BY <1>6, Untouched DEF vars, IInv
  <1> QED
    BY <1>1, <1>2, <1>3, <1>4, <1>5, <1>6 DEF Next, Step

\* Only a commit touches a stored line, and only with rows that are ahead of it.
LEMMA Forward ==
    ASSUME IInv, [Next]_vars, NEW l \in Lines, stored[l].version > 0
    PROVE  /\ stored'[l].version >= stored[l].version
           /\ stored'[l].first = stored[l].first
  <1>1. stored[l].version \in Nat
    BY BoundsAssumption DEF IInv, WellTyped, StoredLines, Versions
  <1>2. CASE UNCHANGED stored
    BY <1>1, <1>2
  <1>3. ASSUME NEW p \in Workers, CloseRun(p)
        PROVE  /\ stored'[l].version >= stored[l].version
               /\ stored'[l].first = stored[l].first
    <2>1. stored'[l] = IF l \in Locked(p) THEN job[p].written[l] ELSE stored[l]
      BY <1>3 DEF CloseRun
    <2> QED
      BY <1>1, <2>1 DEF IInv, Guarded
  <1>4. (\E p \in Workers : CloseRun(p)) \/ UNCHANGED stored
    <2>1. ASSUME NEW p \in Workers, UpsertBatch(p) PROVE UNCHANGED stored
      BY <2>1 DEF UpsertBatch
    <2>2. ASSUME NEW k \in Lines, Change(k) PROVE UNCHANGED stored
      BY <2>2 DEF Change
    <2>3. ASSUME NEW r \in Runs, Overdue(r) PROVE UNCHANGED stored
      BY <2>3 DEF Overdue
    <2> QED
      BY <2>1, <2>2, <2>3, OtherSteps DEF Next, Step, vars, IInv
  <1> QED
    BY <1>2, <1>3, <1>4

\* Every state is well typed, and what a transaction has written is locked and
\* ahead of what is stored.
THEOREM Invariance == Spec => []IInv
  <1>1. Init => IInv
    <2> SUFFICES ASSUME Init PROVE Guarded
      BY TypeInit DEF IInv
    <2>1. \A p \in Workers : Locked(p) = {}
      BY DEF Init, Idle, Locked, NoRow
    <2> QED
      BY <2>1 DEF Guarded
  <1> QED
    BY <1>1, InvStep, PTL DEF Spec

\* services/amazon_orders.py:339: no interleaving of jobs, failures and deaths,
\* whatever the number of lines, processes and runs, takes a line back.
THEOREM NeverRegressesHolds == Spec => NeverRegresses
  <1>1. IInv /\ [Next]_vars => [\A l \in Lines : stored[l].version > 0 =>
            /\ stored'[l].version >= stored[l].version
            /\ stored'[l].first = stored[l].first]_vars
    BY Forward
  <1> QED
    BY <1>1, Invariance, PTL DEF Spec, NeverRegresses

----------------------------------------------------------------------------
(* What a run counts *)

\* A job with nothing to do, counted or written.
Blank(state) ==
    /\ state.todo = {} /\ state.batch = {} /\ state.counts = NoCounts
    /\ state.written = [l \in Lines |-> NoRow]
    /\ state.pc \notin {"read", "upsert", "close"}

Others(p) == \A q \in Workers : q # p => job'[q] = job[q]

\* The steps that leave a job blank, with what they keep of it.
LEMMA BlankSteps ==
    ASSUME WellTyped, NEW p \in Workers,
           \/ Start(p) \/ OpenRun(p) \/ OpenRefused(p) \/ CloseRun(p) \/ Deadlock(p)
           \/ FailRun(p) \/ WriteFails(p) \/ FailRunFails(p) \/ Crash(p)
    PROVE  Blank(job'[p]) /\ Others(p)
  <1>1. Blank(Idle)
    BY DEF Blank, Idle
  <1>3. CASE Start(p)
    <2>1. job'[p] = [Idle EXCEPT !.found = StaleRuns,
                         !.pc = IF StaleRuns = {} THEN "open" ELSE "recover"]
      BY <1>3 DEF Start, WellTyped
    <2>2. Others(p)
      BY <1>3 DEF Start, WellTyped, Others
    <2> QED
      BY <2>1, <2>2 DEF Blank, Idle
  <1>4. CASE OpenRun(p)
    <2>1. PICK r : job' = [job EXCEPT ![p] = [Idle EXCEPT
              !.pc = "fetch", !.run = r, !.window = job[p].window,
              !.changed = job[p].changed]]
      BY <1>4 DEF OpenRun
    <2>2. Others(p)
      BY <2>1 DEF WellTyped, Others
    <2>3. job'[p] = [Idle EXCEPT !.pc = "fetch", !.run = r, !.window = job[p].window,
                         !.changed = job[p].changed]
      BY <2>1 DEF WellTyped
    <2> QED
      BY <2>2, <2>3 DEF Blank, Idle
  <1>5. CASE OpenRefused(p) \/ FailRun(p) \/ FailRunFails(p) \/ Crash(p)
    BY <1>1, <1>5 DEF OpenRefused, FailRun, FailRunFails, Crash, WellTyped, Others
  <1>6. CASE CloseRun(p)
    <2>1. Others(p)
      BY <1>6 DEF CloseRun, WellTyped, Others
    <2>2. \/ job'[p] = Idle
          \/ job'[p] = [Idle EXCEPT !.pc = "open", !.window = job[p].window + 1,
                                   !.changed = job[p].changed]
      BY <1>6 DEF CloseRun, WellTyped
    <2> QED
      BY <1>1, <2>1, <2>2 DEF Blank, Idle
  <1>7. CASE Deadlock(p) \/ WriteFails(p)
    <2>1. job' = RolledBack(p)
      BY <1>7 DEF Deadlock, WriteFails
    <2>2. job'[p] = [Idle EXCEPT !.pc = "fail", !.window = job[p].window,
                         !.changed = job[p].changed, !.run = job[p].run]
      BY <2>1 DEF RolledBack, WellTyped
    <2>3. Others(p)
      BY <2>1 DEF RolledBack, WellTyped, Others
    <2> QED
      BY <2>2, <2>3 DEF Blank, Idle
  <1> QED
    BY <1>3, <1>4, <1>5, <1>6, <1>7

LEMMA BlankCounted ==
    ASSUME NEW p \in Workers, Blank(job'[p])
    PROVE  CountedOnce(p)'
  <1>1. Locked(p)' = {}
    BY DEF Blank, Locked, NoRow
  <1> QED
    BY <1>1 DEF Blank, CountedOnce, NoCounts

\* Another job's step, and Amazon's.
LEMMA CountedKept ==
    ASSUME NEW q \in Workers, CountedOnce(q),
           job'[q].pc = job[q].pc, job'[q].todo = job[q].todo,
           job'[q].batch = job[q].batch, job'[q].counts = job[q].counts,
           job'[q].written = job[q].written, job'[q].report = job[q].report
    PROVE  CountedOnce(q)'
  <1>1. Locked(q)' = Locked(q)
    BY DEF Locked
  <1> QED
    BY <1>1 DEF CountedOnce

\* Sizes of sets of lines.
LEMMA Sizes ==
    /\ \A S \in SUBSET Lines : /\ IsFiniteSet(S) /\ Cardinality(S) \in Nat
                               /\ Cardinality(S) <= Cardinality(Lines)
    /\ \A S, T \in SUBSET Lines : S \intersect T = {} =>
         Cardinality(S \union T) = Cardinality(S) + Cardinality(T)
    /\ Cardinality({}) = 0 /\ Cardinality(Lines) \in Nat
  <1>1. ASSUME NEW S \in SUBSET Lines
        PROVE  /\ IsFiniteSet(S) /\ Cardinality(S) \in Nat
               /\ Cardinality(S) <= Cardinality(Lines)
    <2>1. IsFiniteSet(S) /\ Cardinality(S) <= Cardinality(Lines)
      BY LinesAssumption, FS_Subset
    <2> QED
      BY <2>1, FS_CardinalityType
  <1>2. ASSUME NEW S \in SUBSET Lines, NEW T \in SUBSET Lines, S \intersect T = {}
        PROVE  Cardinality(S \union T) = Cardinality(S) + Cardinality(T)
    <2>1. IsFiniteSet(S) /\ IsFiniteSet(T) /\ Cardinality(S) \in Nat /\ Cardinality(T) \in Nat
      BY <1>1
    <2>2. Cardinality(S \union T) = Cardinality(S) + Cardinality(T) - Cardinality(S \intersect T)
      BY <2>1, FS_Union
    <2>3. Cardinality(S \intersect T) = 0
      BY <1>2, FS_EmptySet
    <2> QED
      BY <2>1, <2>2, <2>3
  <1>3. Cardinality(Lines) \in Nat
    BY LinesAssumption, FS_CardinalityType
  <1> QED
    BY <1>1, <1>2, <1>3, FS_EmptySet

\* Classifying a batch counts each of its lines once.
LEMMA ClassifiedSum ==
    ASSUME WellTyped, NEW p \in Workers, NEW b \in SUBSET Lines
    PROVE  LET c == job[p].counts
               n == Classified(p, b) IN
           /\ n.created + n.updated + n.unchanged
                = c.created + c.updated + c.unchanged + Cardinality(b)
           /\ n.created = c.created + Cardinality({l \in b : stored[l].version = 0})
           /\ n \in Counts /\ c \in Counts
  <1> DEFINE c == job[p].counts
             known == {l \in b : stored[l].version > 0}
             new == {l \in b : stored[l].version = 0}
             newer == {l \in known : job[p].report[l] > stored[l].version}
  <1>1. c \in Counts
    BY DEF WellTyped, JobStates
  <1>2. \A l \in b : stored[l].version \in Nat
    BY BoundsAssumption DEF WellTyped, StoredLines, Versions
  <1>3. b \ known = new
    BY <1>2
  <1>4. /\ known \in SUBSET Lines /\ new \in SUBSET Lines /\ newer \in SUBSET Lines
        /\ known \ newer \in SUBSET Lines
        /\ new \intersect known = {} /\ new \union known = b
        /\ newer \intersect (known \ newer) = {} /\ newer \union (known \ newer) = known
    BY <1>3
  <1>5. Classified(p, b) = [created |-> c.created + Cardinality(new),
                            updated |-> c.updated + Cardinality(newer),
                            unchanged |-> c.unchanged + Cardinality(known \ newer)]
    BY <1>3 DEF Classified
  <1> HIDE DEF known, new, newer, c
  <1>6. /\ Cardinality(b) = Cardinality(new) + Cardinality(known)
        /\ Cardinality(known) = Cardinality(newer) + Cardinality(known \ newer)
        /\ Cardinality(new) \in Nat /\ Cardinality(newer) \in Nat
        /\ Cardinality(known \ newer) \in Nat
    BY <1>4, Sizes
  <1>7. Classified(p, b) \in Counts
    BY <1>1, <1>5, <1>6 DEF Counts
  <1> QED
    BY <1>1, <1>5, <1>6, <1>7 DEF Counts, c, new

\* A step before a report is there: nothing is counted before or after it.
LEMMA IdleCounted ==
    ASSUME WellTyped, NEW p \in Workers, CountedOnce(p),
           RecoverStaleRuns(p) \/ FetchFails(p)
    PROVE  CountedOnce(p)' /\ Others(p)
  <1>1. /\ job'[p].pc \in {"open", "fail"}
        /\ job'[p].todo = job[p].todo /\ job'[p].batch = job[p].batch
        /\ job'[p].counts = job[p].counts /\ job'[p].written = job[p].written
    BY DEF RecoverStaleRuns, FetchFails, WellTyped, JobStates
  <1>2. Others(p)
    BY DEF RecoverStaleRuns, FetchFails, WellTyped, Others
  <1>3. Locked(p)' = Locked(p)
    BY <1>1 DEF Locked
  <1>4. job[p].pc \notin {"read", "upsert", "close"}
    BY DEF RecoverStaleRuns, FetchFails
  <1> QED
    BY <1>1, <1>2, <1>3, <1>4 DEF CountedOnce

\* A report leaves each of its lines to do.
LEMMA FetchCounted ==
    ASSUME WellTyped, NEW p \in Workers, CountedOnce(p), FetchReport(p)
    PROVE  /\ CountedOnce(p)' /\ Others(p)
           /\ job'[p].batch = {} /\ Locked(p)' = {} /\ Locked(p) = {} /\ job[p].batch = {}
           /\ job'[p].run = job[p].run /\ job'[p].written = job[p].written
           /\ job'[p].counts = job[p].counts /\ job'[p].found = job[p].found
           /\ job'[p].pc \in {"read", "close"}
  <1> DEFINE report == [l \in Lines |-> IF l \in Reported(p) THEN amazon[l].version ELSE 0]
             pc == IF Reported(p) = {} THEN "close" ELSE "read"
  <1>1. job' = [job EXCEPT ![p] = [job[p] EXCEPT
            !.report = report, !.todo = Reported(p), !.pc = pc]]
    BY DEF FetchReport
  <1>2. Others(p)
    BY <1>1 DEF WellTyped, Others
  <1>3. \A l \in Reported(p) : l \in Lines /\ report[l] > 0
    BY DEF Reported
  <1>4. /\ job[p].batch = {} /\ Locked(p) = {}
        /\ job[p].counts.created + job[p].counts.updated + job[p].counts.unchanged = 0
    BY DEF FetchReport, CountedOnce
  <1>5. pc \in {"read", "close"} /\ (pc = "close" => Reported(p) = {})
    OBVIOUS
  <1> HIDE DEF report, pc
  <1>6. /\ job'[p].report = report /\ job'[p].todo = Reported(p) /\ job'[p].pc = pc
        /\ job'[p].batch = {} /\ job'[p].counts = job[p].counts
        /\ job'[p].written = job[p].written /\ job'[p].run = job[p].run
        /\ job'[p].found = job[p].found
    BY <1>1, <1>4 DEF WellTyped, JobStates
  <1>7. Locked(p)' = {}
    BY <1>4, <1>6 DEF Locked
  <1>8. Cardinality(Reported(p)) <= Cardinality(Lines) /\ Cardinality(Reported(p)) \in Nat
    BY Sizes DEF Reported
  <1>9. CountedOnce(p)'
    BY <1>3, <1>4, <1>5, <1>6, <1>7, <1>8, Sizes DEF CountedOnce
  <1> QED
    BY <1>2, <1>4, <1>5, <1>6, <1>7, <1>9

\* What a batch is classified as is added to the counts.
LEMMA ReadCounted ==
    ASSUME WellTyped, NEW p \in Workers, CountedOnce(p), ReadExisting(p)
    PROVE  /\ CountedOnce(p)' /\ Others(p)
           /\ job[p].batch = {} /\ Locked(p)' = Locked(p)
           /\ job'[p].batch \in SUBSET Lines /\ job'[p].batch \intersect Locked(p) = {}
           /\ job'[p].run = job[p].run /\ job'[p].written = job[p].written
           /\ job'[p].counts = Classified(p, job'[p].batch)
           /\ job'[p].found = job[p].found
           /\ job'[p].pc = "upsert"
  <1> PICK b \in Batches(p) : job' = [job EXCEPT
          ![p].batch = b, ![p].counts = Classified(p, b), ![p].pc = "upsert"]
    BY DEF ReadExisting
  <1>1. b \subseteq job[p].todo /\ job[p].todo \in SUBSET Lines /\ b \in SUBSET Lines
    BY DEF Batches, WellTyped, JobStates
  <1>2. Others(p)
    BY DEF WellTyped, Others
  <1>3. /\ job'[p].batch = b /\ job'[p].counts = Classified(p, b) /\ job'[p].pc = "upsert"
        /\ job'[p].todo = job[p].todo /\ job'[p].report = job[p].report
        /\ job'[p].written = job[p].written /\ job'[p].run = job[p].run
        /\ job'[p].found = job[p].found
    BY DEF WellTyped, JobStates
  <1>4. Locked(p)' = Locked(p)
    BY <1>3 DEF Locked
  <1>5. Cardinality(job[p].todo) = Cardinality(b) + Cardinality(job[p].todo \ b)
    <2>1. /\ job[p].todo \ b \in SUBSET Lines /\ b \intersect (job[p].todo \ b) = {}
          /\ b \union (job[p].todo \ b) = job[p].todo
      BY <1>1
    <2> QED
      BY <1>1, <2>1, Sizes
  <1>6. /\ Cardinality(b) \in Nat /\ Cardinality(job[p].todo \ b) \in Nat
        /\ Cardinality(Lines) \in Nat
    BY <1>1, Sizes
  <1> DEFINE c == job[p].counts
             n == Classified(p, b)
  <1>7. /\ n.created + n.updated + n.unchanged
             = c.created + c.updated + c.unchanged + Cardinality(b)
        /\ c.created + c.updated + c.unchanged \in Nat
    <2>1. c \in Counts
      BY DEF WellTyped, JobStates
    <2>2. n.created + n.updated + n.unchanged
             = c.created + c.updated + c.unchanged + Cardinality(b)
      BY <1>1, ClassifiedSum
    <2>3. c.created + c.updated + c.unchanged \in Nat
      BY <2>1 DEF Counts
    <2> QED
      BY <2>2, <2>3
  <1>8. job[p].pc = "read"
    BY DEF ReadExisting
  <1>9. /\ job[p].batch = {} /\ \A l \in job[p].todo : job[p].report[l] > 0 /\ l \notin Locked(p)
        /\ c.created + c.updated + c.unchanged + Cardinality(job[p].todo) <= Cardinality(Lines)
    BY <1>8 DEF CountedOnce
  <1>10. n.created + n.updated + n.unchanged + Cardinality(job[p].todo \ b) <= Cardinality(Lines)
    BY <1>5, <1>6, <1>7, <1>9
  <1>11. CountedOnce(p)'
    BY <1>1, <1>3, <1>4, <1>9, <1>10 DEF CountedOnce
  <1> QED
    BY <1>1, <1>2, <1>3, <1>4, <1>9, <1>11

\* An upsert locks its batch, whose versions are real.
LEMMA UpsertCounted ==
    ASSUME WellTyped, NEW p \in Workers, CountedOnce(p), UpsertBatch(p)
    PROVE  /\ CountedOnce(p)' /\ Others(p)
           /\ job[p].batch \in SUBSET Lines /\ job'[p].batch = {}
           /\ Locked(p)' = Locked(p) \union job[p].batch
           /\ Locked(p) \intersect job[p].batch = {}
           /\ job'[p].run = job[p].run /\ job'[p].counts = job[p].counts
           /\ job'[p].found = job[p].found
           /\ job'[p].pc \in {"read", "close"}
           /\ \A l \in Lines : job'[p].written[l] = IF l \in job[p].batch
                 THEN Upserted(stored[l], job[p].report[l], job[p].run)
                 ELSE job[p].written[l]
  <1> DEFINE rest == job[p].todo \ job[p].batch
             written == [l \in Lines |-> IF l \in job[p].batch
                 THEN Upserted(stored[l], job[p].report[l], job[p].run)
                 ELSE job[p].written[l]]
             report == [l \in Lines |-> IF l \in rest THEN job[p].report[l] ELSE 0]
             pc == IF rest = {} THEN "close" ELSE "read"
  <1>1. job' = [job EXCEPT ![p] = [job[p] EXCEPT
            !.written = written, !.todo = rest, !.batch = {}, !.report = report, !.pc = pc]]
    BY DEF UpsertBatch
  <1>2. Others(p)
    BY <1>1 DEF WellTyped, Others
  <1>3. /\ job[p].todo \in SUBSET Lines /\ job[p].batch \subseteq job[p].todo
        /\ rest \in SUBSET Lines
    BY DEF CountedOnce, WellTyped, JobStates
  <1>4. \A l \in rest : report[l] = job[p].report[l]
    BY <1>3
  <1>5. \A l \in Lines : written[l] = IF l \in job[p].batch
                 THEN Upserted(stored[l], job[p].report[l], job[p].run)
                 ELSE job[p].written[l]
    OBVIOUS
  <1>6. pc \in {"read", "close"} /\ (pc = "close" => rest = {})
    OBVIOUS
  <1> HIDE DEF written, report, pc
  <1>7. /\ job'[p].written = written /\ job'[p].todo = rest /\ job'[p].batch = {}
        /\ job'[p].report = report /\ job'[p].pc = pc
        /\ job'[p].counts = job[p].counts /\ job'[p].run = job[p].run
        /\ job'[p].found = job[p].found
    BY <1>1 DEF WellTyped, JobStates
  <1>8. ASSUME NEW l \in job[p].batch PROVE written[l].version > 0
    <2>1. l \in Lines /\ job[p].report[l] > 0
      BY <1>3 DEF CountedOnce
    <2>2. stored[l] \in StoredLines /\ job[p].report[l] \in Versions
          /\ job[p].run \in Runs \union {0}
      BY <2>1 DEF WellTyped, JobStates
    <2>3. stored[l].version \in Nat /\ job[p].report[l] \in Nat
      BY <2>2, BoundsAssumption DEF StoredLines, Versions
    <2>4. Upserted(stored[l], job[p].report[l], job[p].run).version > 0
      <3>1. CASE stored[l].version = 0
        BY <2>1, <3>1 DEF Upserted
      <3>2. CASE stored[l].version # 0
        <4>1. Upserted(stored[l], job[p].report[l], job[p].run).version >= stored[l].version
          BY <2>2, UpsertedFact
        <4>2. Upserted(stored[l], job[p].report[l], job[p].run).version \in Nat
          BY <2>2, UpsertedFact, BoundsAssumption DEF StoredLines, Versions
        <4> QED
          BY <2>3, <3>2, <4>1, <4>2
      <3> QED
        BY <3>1, <3>2
    <2> QED
      BY <1>5, <2>1, <2>4
  <1>9. Locked(p)' = Locked(p) \union job[p].batch
    BY <1>3, <1>5, <1>7, <1>8 DEF Locked
  <1>10. Locked(p) \intersect job[p].batch = {}
    BY <1>3 DEF CountedOnce
  <1>11. job[p].pc = "upsert"
    BY DEF UpsertBatch
  <1>12. job[p].counts.created + job[p].counts.updated + job[p].counts.unchanged
             + Cardinality(rest) <= Cardinality(Lines)
    BY <1>11 DEF CountedOnce
  <1>13. \A l \in rest : job'[p].report[l] > 0 /\ l \notin Locked(p)'
    BY <1>3, <1>4, <1>7, <1>9 DEF CountedOnce
  <1>14. CountedOnce(p)'
    <2> HIDE DEF rest
    <2> QED
      BY <1>6, <1>7, <1>12, <1>13 DEF CountedOnce
  <1> QED
    BY <1>2, <1>3, <1>5, <1>6, <1>7, <1>9, <1>10, <1>14

\* Every step keeps each job's lines counted once.
LEMMA CountedStep ==
    ASSUME WellTyped, \A p \in Workers : CountedOnce(p), [Next]_vars
    PROVE  \A p \in Workers : CountedOnce(p)'
  <1>1. ASSUME NEW l \in Lines, Change(l) PROVE \A p \in Workers : CountedOnce(p)'
    <2> TAKE p \in Workers
    <2>1. job'[p] = job[p] \/ job'[p] = [job[p] EXCEPT !.changed = job[p].changed \union {l}]
      BY <1>1 DEF Change
    <2>2. /\ job'[p].pc = job[p].pc /\ job'[p].todo = job[p].todo
          /\ job'[p].batch = job[p].batch /\ job'[p].counts = job[p].counts
          /\ job'[p].written = job[p].written /\ job'[p].report = job[p].report
      BY <2>1 DEF WellTyped, JobStates
    <2> QED
      BY <2>2, CountedKept
  <1>2. ASSUME NEW r \in Runs, Overdue(r) PROVE \A p \in Workers : CountedOnce(p)'
    BY <1>2, CountedKept DEF Overdue
  <1>3. ASSUME NEW p \in Workers, Others(p), CountedOnce(p)'
        PROVE  \A q \in Workers : CountedOnce(q)'
    <2> TAKE q \in Workers
    <2>1. CASE q = p
      BY <1>3, <2>1
    <2>2. CASE q # p
      BY <1>3, <2>2, CountedKept DEF Others
    <2> QED
      BY <2>1, <2>2
  <1>4. ASSUME NEW p \in Workers,
           \/ Start(p) \/ OpenRun(p) \/ OpenRefused(p) \/ CloseRun(p) \/ Deadlock(p)
           \/ FailRun(p) \/ WriteFails(p) \/ FailRunFails(p) \/ Crash(p)
        PROVE  \A q \in Workers : CountedOnce(q)'
    <2>1. Blank(job'[p]) /\ Others(p)
      BY <1>4, BlankSteps
    <2> QED
      BY <1>3, <2>1, BlankCounted
  <1>5. ASSUME NEW p \in Workers,
           \/ RecoverStaleRuns(p) \/ FetchFails(p)
           \/ FetchReport(p) \/ ReadExisting(p) \/ UpsertBatch(p)
        PROVE  \A q \in Workers : CountedOnce(q)'
    <2>1. CountedOnce(p)
      OBVIOUS
    <2> QED
      BY <1>3, <1>5, <2>1, IdleCounted, FetchCounted, ReadCounted, UpsertCounted
  <1>6. CASE UNCHANGED vars
    BY <1>6, CountedKept DEF vars
  <1> QED
    BY <1>1, <1>2, <1>4, <1>5, <1>6 DEF Next, Step

\* Only a close writes the counts of a run.
LEMMA CountsOfRuns ==
    ASSUME WellTyped, [Next]_vars, NEW r \in Runs
    PROVE  \/ run'[r].counts = run[r].counts
           \/ \E p \in Workers : CloseRun(p) /\ run'[r].counts = job[p].counts
  <1> USE DEF WellTyped
  <1>1. ASSUME NEW s \in Runs, Overdue(s) PROVE run'[r].counts = run[r].counts
    BY <1>1 DEF Overdue, RunRows
  <1>2. ASSUME NEW p \in Workers, RecoverStaleRuns(p) PROVE run'[r].counts = run[r].counts
    BY <1>2 DEF RecoverStaleRuns, RunRows
  <1>3. ASSUME NEW p \in Workers, OpenRun(p) PROVE run'[r].counts = run[r].counts
    <2> PICK s \in Unused : run' = [run EXCEPT ![s].status = "RUNNING"]
      BY <1>3 DEF OpenRun
    <2> QED
      BY DEF RunRows
  <1>4. ASSUME NEW p \in Workers, FailRun(p) PROVE run'[r].counts = run[r].counts
    BY <1>4 DEF FailRun, RunRows
  <1>5. ASSUME NEW p \in Workers, CloseRun(p)
        PROVE  run'[r].counts = run[r].counts \/ run'[r].counts = job[p].counts
    <2>1. run' = [run EXCEPT ![job[p].run] = [run[job[p].run] EXCEPT
              !.status = "COMPLETED", !.counts = job[p].counts]]
      BY <1>5 DEF CloseRun
    <2>2. CASE r = job[p].run
      BY <2>1, <2>2 DEF RunRows
    <2>3. CASE r # job[p].run
      BY <2>1, <2>3
    <2> QED
      BY <2>2, <2>3
  <1>6. ASSUME NEW p \in Workers,
           \/ Start(p) \/ OpenRefused(p) \/ FetchReport(p) \/ ReadExisting(p)
           \/ UpsertBatch(p) \/ Deadlock(p) \/ FetchFails(p) \/ WriteFails(p)
           \/ FailRunFails(p) \/ Crash(p)
        PROVE  run' = run
    BY <1>6 DEF Start, OpenRefused, FetchReport, ReadExisting, UpsertBatch, Deadlock,
                FetchFails, WriteFails, FailRunFails, Crash
  <1>7. ASSUME NEW l \in Lines, Change(l) PROVE run' = run
    BY <1>7 DEF Change
  <1>8. CASE UNCHANGED vars
    BY <1>8 DEF vars
  <1> QED
    BY <1>1, <1>2, <1>3, <1>4, <1>5, <1>6, <1>7, <1>8 DEF Next, Step

\* The counts that are stored are those of a job with nothing left to do.
LEMMA TypeOKStep ==
    ASSUME TypeOK, \A p \in Workers : CountedOnce(p), [Next]_vars
    PROVE  TypeOK'
  <1>1. WellTyped /\ WellTyped'
    BY TypeStep DEF TypeOK
  <1>2. ASSUME NEW r \in Runs
        PROVE  run'[r].counts.created + run'[r].counts.updated + run'[r].counts.unchanged
                 <= Cardinality(Lines)
    <2>1. CASE run'[r].counts = run[r].counts
      BY <2>1 DEF TypeOK
    <2>2. ASSUME NEW p \in Workers, CloseRun(p), run'[r].counts = job[p].counts
          PROVE  job[p].counts.created + job[p].counts.updated + job[p].counts.unchanged
                   <= Cardinality(Lines)
      <3>1. job[p].pc = "close"
        BY <2>2 DEF CloseRun
      <3>2. /\ job[p].todo = {}
            /\ job[p].counts.created + job[p].counts.updated + job[p].counts.unchanged
                  + Cardinality(job[p].todo) <= Cardinality(Lines)
        BY <3>1 DEF CountedOnce
      <3>3. job[p].counts \in Counts
        BY <1>1 DEF WellTyped, JobStates
      <3> QED
        BY <3>2, <3>3, Sizes DEF Counts
    <2> QED
      BY <1>1, <2>1, <2>2, CountsOfRuns
  <1> QED
    BY <1>1, <1>2 DEF TypeOK

----------------------------------------------------------------------------
(* One run at a time *)

\* What a step does to the claim of a job q: it keeps it, or gives it up.
ClaimKept(q) ==
    /\ \/ job'[q].run = job[q].run /\ (job'[q].pc \in Busy <=> job[q].pc \in Busy)
       \/ job'[q].run = 0 /\ job'[q].pc \notin Busy
    /\ \A r \in job'[q].found : r \in job[q].found \/ run[r].overdue

LEMMA SlotKept ==
    ASSUME OneSlot, UNCHANGED run, \A q \in Workers : ClaimKept(q)
    PROVE  OneSlot'
  <1>1. ASSUME NEW q \in Workers
        PROVE  /\ job'[q].pc \in Busy <=> job'[q].run # 0
               /\ job'[q].run # 0 => job'[q].run = job[q].run
               /\ \A r \in job'[q].found : run[r].overdue
    BY DEF OneSlot, ClaimKept
  <1>2. \A p, q \in Workers : p # q => job'[p].run = 0 \/ job'[q].run = 0
    BY <1>1 DEF OneSlot
  <1> QED
    BY <1>1, <1>2 DEF OneSlot, Busy

\* Every job other than p keeps its claim in a step of p.
LEMMA OthersClaim ==
    ASSUME NEW p \in Workers, Others(p)
    PROVE  \A q \in Workers : q # p => ClaimKept(q)
  BY DEF Others, ClaimKept

\* The steps that claim nothing and close nothing.
LEMMA QuietClaim ==
    ASSUME WellTyped, NEW p \in Workers, \A q \in Workers : CountedOnce(q),
           \/ Start(p) \/ OpenRefused(p) \/ FetchReport(p) \/ ReadExisting(p)
           \/ UpsertBatch(p) \/ Deadlock(p) \/ FetchFails(p) \/ WriteFails(p)
           \/ FailRunFails(p) \/ Crash(p)
    PROVE  UNCHANGED run /\ \A q \in Workers : ClaimKept(q)
  <1>1. UNCHANGED run
    BY DEF Start, OpenRefused, FetchReport, ReadExisting, UpsertBatch, Deadlock,
           FetchFails, WriteFails, FailRunFails, Crash
  <1>2. CASE Start(p)
    <2>1. job'[p] = [Idle EXCEPT !.found = StaleRuns,
                         !.pc = IF StaleRuns = {} THEN "open" ELSE "recover"]
      BY <1>2 DEF Start, WellTyped
    <2>2. job'[p].run = 0 /\ job'[p].pc \notin Busy /\ job'[p].found = StaleRuns
      BY <2>1 DEF Idle, Busy
    <2>3. Others(p)
      BY <1>2, BlankSteps
    <2> QED
      BY <1>1, <2>2, <2>3, OthersClaim DEF ClaimKept, StaleRuns
  <1>3. CASE OpenRefused(p) \/ FailRunFails(p) \/ Crash(p)
    <2>1. job'[p] = Idle
      BY <1>3 DEF OpenRefused, FailRunFails, Crash, WellTyped
    <2>2. Others(p)
      BY <1>3, BlankSteps
    <2> QED
      BY <1>1, <2>1, <2>2, OthersClaim DEF ClaimKept, Idle, Busy
  <1>4. CASE FetchReport(p) \/ ReadExisting(p) \/ UpsertBatch(p) \/ FetchFails(p)
    <2>1. /\ Others(p) /\ job'[p].run = job[p].run /\ job'[p].found = job[p].found
          /\ job'[p].pc \in {"read", "upsert", "close", "fail"}
      <3>1. CASE FetchFails(p)
        BY <3>1 DEF FetchFails, Others, WellTyped, JobStates
      <3> QED
        BY <1>4, <3>1, FetchCounted, ReadCounted, UpsertCounted
    <2>2. job[p].pc \in Busy
      BY <1>4 DEF FetchReport, ReadExisting, UpsertBatch, FetchFails, Busy
    <2>3. ClaimKept(p)
      BY <2>1, <2>2 DEF ClaimKept, Busy
    <2> QED
      BY <1>1, <2>1, <2>3, OthersClaim
  <1>5. CASE Deadlock(p) \/ WriteFails(p)
    <2>1. job' = RolledBack(p)
      BY <1>5 DEF Deadlock, WriteFails
    <2>2. job'[p] = [Idle EXCEPT !.pc = "fail", !.window = job[p].window,
                         !.changed = job[p].changed, !.run = job[p].run]
      BY <2>1 DEF RolledBack, WellTyped
    <2>3. job'[p].run = job[p].run /\ job'[p].pc = "fail" /\ job'[p].found = {}
      BY <2>2 DEF Idle
    <2>4. job[p].pc \in Busy
      BY <1>5 DEF Deadlock, Waits, WriteFails, InTransaction, Busy
    <2>5. ClaimKept(p)
      BY <2>3, <2>4 DEF ClaimKept, Busy
    <2>6. Others(p)
      BY <1>5, BlankSteps
    <2> QED
      BY <1>1, <2>5, <2>6, OthersClaim
  <1> QED
    BY <1>2, <1>3, <1>4, <1>5

\* The end of a run frees its job.
LEMMA SlotFreed ==
    ASSUME WellTyped, OneSlot, NEW p \in Workers, CloseRun(p) \/ FailRun(p)
    PROVE  OneSlot'
  <1> DEFINE r == job[p].run
  <1>1. job[p].pc \in Busy /\ r \in Runs
    <2>1. job[p].pc \in Busy
      BY DEF CloseRun, FailRun, Busy
    <2>2. r # 0 /\ r \in Runs \union {0}
      BY <2>1 DEF OneSlot, WellTyped, JobStates
    <2> QED
      BY <2>1, <2>2
  <1>2. /\ job'[p].run = 0 /\ job'[p].pc \notin Busy /\ job'[p].found = {}
    <2>1. \/ job'[p] = Idle
          \/ job'[p] = [Idle EXCEPT !.pc = "open", !.window = job[p].window + 1,
                                   !.changed = job[p].changed]
      BY DEF CloseRun, FailRun, WellTyped
    <2>2. CASE job'[p] = Idle
      BY <2>2 DEF Idle, Busy
    <2>3. CASE job'[p] = [Idle EXCEPT !.pc = "open", !.window = job[p].window + 1,
                                      !.changed = job[p].changed]
      <3>1. job'[p].run = 0 /\ job'[p].pc = "open" /\ job'[p].found = {}
        BY Zenon, <2>3 DEF Idle
      <3> QED
        BY <3>1 DEF Busy
    <2> QED
      BY <2>1, <2>2, <2>3
  <1>3. \A q \in Workers : q # p => job'[q] = job[q] /\ job[q].run = 0
    BY <1>1, BoundsAssumption DEF CloseRun, FailRun, WellTyped, OneSlot, Runs
  <1>4. \A s \in Runs : run'[s].overdue = run[s].overdue /\ (s # r => run'[s] = run[s])
    <2>1. CASE FailRun(p)
      BY <2>1 DEF FailRun, WellTyped, RunRows
    <2>2. CASE CloseRun(p)
      <3>1. run' = [run EXCEPT ![r] = [run[r] EXCEPT
                !.status = "COMPLETED", !.counts = job[p].counts]]
        BY <2>2 DEF CloseRun
      <3> QED
        BY <3>1 DEF WellTyped, RunRows
    <2> QED
      BY <2>1, <2>2
  <1>5. run'[r].status # "RUNNING" /\ ~run[r].overdue
    <2>1. CASE FailRun(p)
      BY <1>1, <2>1 DEF FailRun, WellTyped, RunRows, OneSlot
    <2>2. CASE CloseRun(p)
      <3>1. run' = [run EXCEPT ![r] = [run[r] EXCEPT
                !.status = "COMPLETED", !.counts = job[p].counts]]
        BY <2>2 DEF CloseRun
      <3> QED
        BY <1>1, <3>1 DEF WellTyped, RunRows, OneSlot
    <2> QED
      BY <2>1, <2>2
  <1>6. \A s, t \in Runs : run'[s].status = "RUNNING" /\ run'[t].status = "RUNNING" => s = t
    BY <1>4, <1>5 DEF OneSlot
  <1>7. \A s \in Runs : run'[s].overdue => run'[s].status \in {"RUNNING", "FAILED"}
    BY <1>4, <1>5 DEF OneSlot
  <1>8. \A q \in Workers :
         /\ job'[q].run = 0
         /\ job'[q].pc \notin Busy
         /\ \A s \in job'[q].found : run'[s].overdue
    <2> TAKE q \in Workers
    <2>1. CASE q = p
      BY <1>2, <2>1
    <2>2. CASE q # p
      <3>1. job[q].found \subseteq Runs
        BY DEF WellTyped, JobStates
      <3> QED
        BY <1>3, <1>4, <2>2, <3>1 DEF OneSlot
    <2> QED
      BY <2>1, <2>2
  <1> QED
    BY <1>6, <1>7, <1>8 DEF OneSlot, Busy

\* The claim of the slot: no other job has one.
LEMMA SlotClaimed ==
    ASSUME WellTyped, OneSlot, NEW p \in Workers, OpenRun(p)
    PROVE  OneSlot'
  <1>0. PICK r \in Unused :
          /\ run' = [run EXCEPT ![r].status = "RUNNING"]
          /\ job' = [job EXCEPT ![p] = [Idle EXCEPT
                 !.pc = "fetch", !.run = r, !.window = job[p].window,
                 !.changed = job[p].changed]]
    BY DEF OpenRun
  <1>1. r \in Runs /\ run[r].status = "ABSENT" /\ ~run[r].overdue
    BY <1>0 DEF Unused, OneSlot
  <1>2. \A s \in Runs : run[s].status # "RUNNING"
    BY DEF OpenRun, SlotTaken
  <1>3. \A s \in Runs : run'[s].overdue = run[s].overdue /\ (s # r => run'[s] = run[s])
    BY <1>0 DEF WellTyped, RunRows
  <1>4. run'[r].status = "RUNNING"
    BY <1>0, <1>1 DEF WellTyped, RunRows
  <1>5. \A q \in Workers : job[q].run = 0 /\ job[q].pc \notin Busy
    BY <1>2 DEF OneSlot, WellTyped, JobStates
  <1>6. job'[p].run = r /\ job'[p].pc = "fetch" /\ job'[p].found = {}
    <2>1. job'[p] = [Idle EXCEPT !.pc = "fetch", !.run = r, !.window = job[p].window,
                         !.changed = job[p].changed]
      BY <1>0 DEF WellTyped
    <2> QED
      BY <2>1 DEF Idle
  <1>7. \A q \in Workers : q # p => job'[q] = job[q]
    BY <1>0 DEF WellTyped
  <1>8. r # 0
    BY <1>1, BoundsAssumption DEF Runs
  <1>9. \A s, t \in Runs : run'[s].status = "RUNNING" /\ run'[t].status = "RUNNING" => s = t
    BY <1>2, <1>3
  <1>10. \A s \in Runs : run'[s].overdue => run'[s].status \in {"RUNNING", "FAILED"}
    BY <1>1, <1>3 DEF OneSlot
  <1>11. \A q, s \in Workers : q # s => job'[q].run = 0 \/ job'[s].run = 0
    BY <1>5, <1>7
  <1>12. ASSUME NEW q \in Workers
         PROVE  /\ job'[q].pc \in Busy <=> job'[q].run # 0
                /\ job'[q].run # 0 => run'[job'[q].run].status = "RUNNING"
                                      /\ ~run'[job'[q].run].overdue
                /\ \A s \in job'[q].found : run'[s].overdue
    <2>1. CASE q = p
      BY <1>1, <1>3, <1>4, <1>6, <1>8, <2>1 DEF Busy
    <2>2. CASE q # p
      <3>1. job[q].found \subseteq Runs
        BY DEF WellTyped, JobStates
      <3> QED
        BY <1>3, <1>5, <1>7, <2>2, <3>1 DEF OneSlot
    <2> QED
      BY <2>1, <2>2
  <1> QED
    BY <1>9, <1>10, <1>11, <1>12 DEF OneSlot, Busy

\* Recovery fails runs that no job is at work for.
LEMMA SlotRecovered ==
    ASSUME WellTyped, OneSlot, NEW p \in Workers, RecoverStaleRuns(p)
    PROVE  OneSlot'
  <1>1. \A s \in Runs : /\ run'[s].overdue = run[s].overdue
                        /\ ~run[s].overdue => run'[s] = run[s]
                        /\ run'[s].status = run[s].status
                             \/ (run[s].overdue /\ run'[s].status = "FAILED")
    BY DEF RecoverStaleRuns, WellTyped, RunRows, OneSlot
  <1>2. job'[p].pc = "open" /\ job'[p].found = {} /\ job'[p].run = job[p].run
    BY DEF RecoverStaleRuns, WellTyped, JobStates
  <1>3. job[p].run = 0
    BY DEF RecoverStaleRuns, OneSlot, Busy
  <1>4. \A q \in Workers : q # p => job'[q] = job[q]
    BY DEF RecoverStaleRuns, WellTyped
  <1>5. \A s, t \in Runs : run'[s].status = "RUNNING" /\ run'[t].status = "RUNNING" => s = t
    BY <1>1 DEF OneSlot
  <1>6. \A s \in Runs : run'[s].overdue => run'[s].status \in {"RUNNING", "FAILED"}
    BY <1>1 DEF OneSlot
  <1>7. \A q, s \in Workers : q # s => job'[q].run = 0 \/ job'[s].run = 0
    BY <1>2, <1>3, <1>4 DEF OneSlot
  <1>8. ASSUME NEW q \in Workers
         PROVE  /\ job'[q].pc \in Busy <=> job'[q].run # 0
                /\ job'[q].run # 0 => run'[job'[q].run].status = "RUNNING"
                                      /\ ~run'[job'[q].run].overdue
                /\ \A s \in job'[q].found : run'[s].overdue
    <2>1. CASE q = p
      BY <1>2, <1>3, <2>1 DEF Busy
    <2>2. CASE q # p
      <3>1. job[q].found \subseteq Runs /\ job[q].run \in Runs \union {0}
        BY DEF WellTyped, JobStates
      <3>2. job'[q] = job[q]
        BY <1>4, <2>2
      <3>3. job[q].run # 0 => job[q].run \in Runs /\ ~run[job[q].run].overdue
                              /\ run[job[q].run].status = "RUNNING"
        BY <3>1 DEF OneSlot
      <3> QED
        BY <1>1, <3>1, <3>2, <3>3 DEF OneSlot
    <2> QED
      BY <2>1, <2>2
  <1> QED
    BY <1>5, <1>6, <1>7, <1>8 DEF OneSlot, Busy

\* A job that lives under the timeout keeps the claim to itself, whatever it does.
LEMMA SlotStep ==
    ASSUME WellTyped, \A p \in Workers : CountedOnce(p), OneSlot, discipline = "TIMELY",
           [Next]_vars
    PROVE  OneSlot'
  <1>1. ASSUME NEW l \in Lines, Change(l) PROVE OneSlot'
    <2>1. UNCHANGED run
      BY <1>1 DEF Change
    <2>2. ASSUME NEW q \in Workers PROVE ClaimKept(q)
      <3>1. job'[q] = job[q] \/ job'[q] = [job[q] EXCEPT !.changed = job[q].changed \union {l}]
        BY <1>1 DEF Change
      <3>2. job'[q].pc = job[q].pc /\ job'[q].run = job[q].run /\ job'[q].found = job[q].found
        BY <3>1 DEF WellTyped, JobStates
      <3> QED
        BY <3>2 DEF ClaimKept
    <2> QED
      BY <2>1, <2>2, SlotKept
  <1>2. ASSUME NEW r \in Runs, Overdue(r) PROVE OneSlot'
    <2>1. /\ run[r].status = "RUNNING" /\ job' = job
          /\ \A p \in Workers : job[p].run # r
      BY <1>2 DEF Overdue
    <2>2. \A s \in Runs : /\ run'[s].status = run[s].status
                          /\ s # r => run'[s] = run[s]
                          /\ run[s].overdue => run'[s].overdue
      BY <1>2 DEF Overdue, WellTyped, RunRows
    <2>3. \A s, t \in Runs : run'[s].status = "RUNNING" /\ run'[t].status = "RUNNING" => s = t
      BY <2>2 DEF OneSlot
    <2>4. \A s \in Runs : run'[s].overdue => run'[s].status \in {"RUNNING", "FAILED"}
      BY <2>1, <2>2 DEF OneSlot
    <2>5. ASSUME NEW q \in Workers
          PROVE  /\ job[q].pc \in Busy <=> job[q].run # 0
                 /\ job[q].run # 0 => run'[job[q].run].status = "RUNNING"
                                       /\ ~run'[job[q].run].overdue
                 /\ \A s \in job[q].found : run'[s].overdue
      <3>1. job[q].found \subseteq Runs /\ job[q].run \in Runs \union {0}
        BY DEF WellTyped, JobStates
      <3> QED
        BY <2>1, <2>2, <3>1 DEF OneSlot
    <2> QED
      BY <2>1, <2>3, <2>4, <2>5 DEF OneSlot, Busy
  <1>3. ASSUME NEW p \in Workers,
           \/ Start(p) \/ OpenRefused(p) \/ FetchReport(p) \/ ReadExisting(p)
           \/ UpsertBatch(p) \/ Deadlock(p) \/ FetchFails(p) \/ WriteFails(p)
           \/ FailRunFails(p) \/ Crash(p)
        PROVE  OneSlot'
    BY <1>3, QuietClaim, SlotKept
  <1>4. ASSUME NEW p \in Workers, RecoverStaleRuns(p) \/ OpenRun(p) \/ CloseRun(p) \/ FailRun(p)
        PROVE  OneSlot'
    BY <1>4, SlotRecovered, SlotClaimed, SlotFreed
  <1>5. CASE UNCHANGED vars
    <2>1. \A q \in Workers : ClaimKept(q)
      BY <1>5 DEF vars, ClaimKept
    <2> QED
      BY <1>5, <2>1, SlotKept DEF vars
  <1> QED
    BY <1>1, <1>2, <1>3, <1>4, <1>5 DEF Next, Step

----------------------------------------------------------------------------
(* The ledger *)

\* A step that leaves a job's uncommitted lines and their count alone, or drops
\* them all.
EntryKept(q) ==
    \/ /\ job'[q].batch = job[q].batch /\ job'[q].written = job[q].written
       /\ job'[q].run = job[q].run /\ job'[q].counts = job[q].counts
    \/ Blank(job'[q])

LEMMA LedgerKept ==
    ASSUME Ledger, UNCHANGED stored, \A q \in Workers : EntryKept(q),
           \A r \in Runs : (run[r].status = "COMPLETED" \/ run'[r].status = "COMPLETED") =>
              run'[r].status = run[r].status /\ run'[r].counts = run[r].counts
    PROVE  Ledger'
  <1>1. ASSUME NEW q \in Workers
        PROVE  /\ job'[q].counts.created = Cardinality(Fresh(q)')
               /\ \A l \in Locked(q)' :
                    /\ job'[q].written[l].last = job'[q].run
                    /\ stored'[l].version = 0 => job'[q].written[l].first = job'[q].run
    <2>1. CASE Blank(job'[q])
      <3>1. Locked(q)' = {} /\ job'[q].batch = {} /\ job'[q].counts.created = 0
        BY <2>1 DEF Blank, Locked, NoRow, NoCounts
      <3>2. Fresh(q)' = {}
        BY <3>1 DEF Fresh
      <3> QED
        BY <3>1, <3>2, Sizes
    <2>2. CASE ~Blank(job'[q])
      <3>1. /\ job'[q].batch = job[q].batch /\ job'[q].written = job[q].written
            /\ job'[q].run = job[q].run /\ job'[q].counts = job[q].counts
        BY <2>2 DEF EntryKept
      <3>2. Locked(q)' = Locked(q)
        BY <3>1 DEF Locked
      <3>3. Fresh(q)' = Fresh(q)
        BY <3>1, <3>2 DEF Fresh
      <3> QED
        BY <3>1, <3>2, <3>3 DEF Ledger
    <2> QED
      BY <2>1, <2>2
  <1>2. \A l \in Lines :
         /\ stored[l].version > 0 => /\ stored[l].first \in Runs /\ stored[l].last \in Runs
                                    /\ run'[stored[l].first].status = "COMPLETED"
                                    /\ run'[stored[l].last].status = "COMPLETED"
         /\ stored[l].version = 0 => stored[l].first = 0
    BY DEF Ledger
  <1>3. \A r \in Runs : run'[r].status = "COMPLETED" =>
         run'[r].counts.created = Cardinality({l \in Lines : stored[l].first = r})
    BY DEF Ledger
  <1> QED
    BY <1>1, <1>2, <1>3 DEF Ledger

\* Existing lines are looked up for lines that are in no transaction of the job.
LEMMA LedgerRead ==
    ASSUME WellTyped, Ledger, NEW p \in Workers, CountedOnce(p), ReadExisting(p)
    PROVE  Ledger'
  <1> DEFINE b == job'[p].batch
  <1>1. /\ Others(p) /\ job[p].batch = {} /\ Locked(p)' = Locked(p)
        /\ b \in SUBSET Lines /\ b \intersect Locked(p) = {}
        /\ job'[p].run = job[p].run /\ job'[p].written = job[p].written
        /\ job'[p].counts = Classified(p, b)
    BY ReadCounted
  <1>2. stored' = stored /\ run' = run
    BY DEF ReadExisting
  <1> DEFINE new == {l \in b : stored[l].version = 0}
  <1>3. Fresh(p)' = Fresh(p) \union new /\ Fresh(p) \intersect new = {}
    BY <1>1, <1>2 DEF Fresh
  <1>4. Cardinality(Fresh(p)') = Cardinality(Fresh(p)) + Cardinality(new)
    <2>1. Fresh(p) \in SUBSET Lines /\ new \in SUBSET Lines
      BY <1>1 DEF Fresh, Locked
    <2> QED
      BY <1>3, <2>1, Sizes
  <1>5. job'[p].counts.created = job[p].counts.created + Cardinality(new)
    BY <1>1, ClassifiedSum
  <1>6. job'[p].counts.created = Cardinality(Fresh(p)')
    BY <1>4, <1>5 DEF Ledger
  <1>7. ASSUME NEW q \in Workers, q # p
        PROVE  job'[q] = job[q] /\ Locked(q)' = Locked(q) /\ Fresh(q)' = Fresh(q)
    BY <1>1, <1>2, <1>7 DEF Others, Locked, Fresh
  <1>8. ASSUME NEW q \in Workers
        PROVE  /\ job'[q].counts.created = Cardinality(Fresh(q)')
               /\ \A l \in Locked(q)' :
                    /\ job'[q].written[l].last = job'[q].run
                    /\ stored'[l].version = 0 => job'[q].written[l].first = job'[q].run
    <2>1. CASE q = p
      BY <1>1, <1>2, <1>6, <2>1 DEF Ledger
    <2>2. CASE q # p
      BY <1>2, <1>7, <2>2 DEF Ledger
    <2> QED
      BY <2>1, <2>2
  <1> QED
    BY <1>2, <1>8 DEF Ledger

\* An upsert notes the run at work on each row, and as the first on new ones.
LEMMA LedgerUpsert ==
    ASSUME WellTyped, Ledger, NEW p \in Workers, CountedOnce(p), UpsertBatch(p)
    PROVE  Ledger'
  <1>1. /\ Others(p) /\ job[p].batch \in SUBSET Lines /\ job'[p].batch = {}
        /\ Locked(p)' = Locked(p) \union job[p].batch
        /\ job'[p].run = job[p].run /\ job'[p].counts = job[p].counts
        /\ \A l \in Lines : job'[p].written[l] = IF l \in job[p].batch
              THEN Upserted(stored[l], job[p].report[l], job[p].run)
              ELSE job[p].written[l]
    BY UpsertCounted
  <1>2. stored' = stored /\ run' = run
    BY DEF UpsertBatch
  <1>3. Fresh(p)' = Fresh(p)
    BY <1>1, <1>2 DEF Fresh
  <1>4. ASSUME NEW l \in Locked(p)'
        PROVE  /\ job'[p].written[l].last = job[p].run
               /\ stored[l].version = 0 => job'[p].written[l].first = job[p].run
    <2>1. l \in Lines
      BY DEF Locked
    <2>2. CASE l \in job[p].batch
      <3>1. job'[p].written[l] = Upserted(stored[l], job[p].report[l], job[p].run)
        BY <1>1, <2>1, <2>2
      <3>2. stored[l] \in StoredLines
        BY <2>1 DEF WellTyped
      <3> QED
        BY <3>1, <3>2 DEF Upserted, StoredLines
    <2>3. CASE l \notin job[p].batch
      <3>1. l \in Locked(p) /\ job'[p].written[l] = job[p].written[l]
        BY <1>1, <1>4, <2>1, <2>3
      <3> QED
        BY <3>1 DEF Ledger
    <2> QED
      BY <2>2, <2>3
  <1>7. ASSUME NEW q \in Workers, q # p
        PROVE  job'[q] = job[q] /\ Locked(q)' = Locked(q) /\ Fresh(q)' = Fresh(q)
    BY <1>1, <1>2, <1>7 DEF Others, Locked, Fresh
  <1>8. ASSUME NEW q \in Workers
        PROVE  /\ job'[q].counts.created = Cardinality(Fresh(q)')
               /\ \A l \in Locked(q)' :
                    /\ job'[q].written[l].last = job'[q].run
                    /\ stored'[l].version = 0 => job'[q].written[l].first = job'[q].run
    <2>1. CASE q = p
      BY <1>1, <1>2, <1>3, <1>4, <2>1 DEF Ledger
    <2>2. CASE q # p
      BY <1>2, <1>7, <2>2 DEF Ledger
    <2> QED
      BY <2>1, <2>2
  <1> QED
    BY <1>2, <1>8 DEF Ledger

\* The close commits what the run counted: the lines it created are the lines
\* that name it as their first.
LEMMA LedgerClose ==
    ASSUME IInv, \A q \in Workers : CountedOnce(q), OneSlot, Ledger,
           NEW p \in Workers, CloseRun(p)
    PROVE  Ledger'
  <1> DEFINE r == job[p].run
  <1>1. /\ r \in Runs /\ r # 0 /\ run[r].status = "RUNNING" /\ job[p].batch = {}
        /\ \A q \in Workers : q # p => job[q].run = 0 /\ job[q].pc \notin Busy
    <2>1. job[p].pc = "close"
      BY DEF CloseRun
    <2>2. r # 0 /\ r \in Runs \union {0}
      BY <2>1 DEF OneSlot, Busy, IInv, WellTyped, JobStates
    <2>3. job[p].batch = {}
      BY <2>1 DEF CountedOnce
    <2> QED
      BY <2>2, <2>3 DEF OneSlot
  <1>2. \A l \in Lines : stored'[l] = IF l \in Locked(p) THEN job[p].written[l] ELSE stored[l]
    BY DEF CloseRun
  <1>3. /\ run'[r].status = "COMPLETED" /\ run'[r].counts = job[p].counts
        /\ \A s \in Runs : s # r => run'[s] = run[s]
    <2>1. run' = [run EXCEPT ![r] = [run[r] EXCEPT
              !.status = "COMPLETED", !.counts = job[p].counts]]
      BY DEF CloseRun
    <2> QED
      BY <1>1, <2>1 DEF IInv, WellTyped, RunRows
  <1>4. ASSUME NEW l \in Lines
        PROVE  /\ stored[l].version \in Nat /\ stored[l].first # r
               /\ stored[l].version > 0 => /\ stored[l].first \in Runs /\ stored[l].last \in Runs
                                          /\ run'[stored[l].first].status = "COMPLETED"
                                          /\ run'[stored[l].last].status = "COMPLETED"
               /\ stored[l].version = 0 => stored[l].first = 0
    <2>1. stored[l].version \in Nat
      BY BoundsAssumption DEF IInv, WellTyped, StoredLines, Versions
    <2>2. CASE stored[l].version = 0
      BY <1>1, <2>2 DEF Ledger
    <2>3. CASE stored[l].version > 0
      BY <1>1, <1>3, <2>1, <2>3 DEF Ledger
    <2> QED
      BY <2>1, <2>2, <2>3
  <1>5. ASSUME NEW l \in Locked(p)
        PROVE  /\ stored'[l].version > 0 /\ stored'[l].last = r
               /\ stored'[l].first = IF stored[l].version = 0 THEN r ELSE stored[l].first
    <2>1. l \in Lines /\ job[p].written[l].version > 0 /\ stored'[l] = job[p].written[l]
      BY <1>2 DEF Locked
    <2> QED
      BY <1>4, <2>1 DEF Ledger, IInv, Guarded
  <1>6. ASSUME NEW l \in Lines
        PROVE  /\ stored'[l].version > 0 =>
                    /\ stored'[l].first \in Runs /\ stored'[l].last \in Runs
                    /\ run'[stored'[l].first].status = "COMPLETED"
                    /\ run'[stored'[l].last].status = "COMPLETED"
               /\ stored'[l].version = 0 => stored'[l].first = 0
    <2>1. CASE l \in Locked(p)
      BY <1>1, <1>3, <1>4, <1>5, <2>1
    <2>2. CASE l \notin Locked(p)
      BY <1>2, <1>4, <2>2
    <2> QED
      BY <2>1, <2>2
  <1>7. {l \in Lines : stored'[l].first = r} = Fresh(p)
    <2>1. ASSUME NEW l \in Lines PROVE stored'[l].first = r <=> l \in Fresh(p)
      <3>1. CASE l \in Locked(p)
        BY <1>4, <1>5, <3>1 DEF Fresh
      <3>2. CASE l \notin Locked(p)
        BY <1>1, <1>2, <1>4, <3>2 DEF Fresh
      <3> QED
        BY <3>1, <3>2
    <2>2. Fresh(p) \subseteq Lines
      BY <1>1 DEF Fresh, Locked
    <2> QED
      BY <2>1, <2>2
  <1>8. ASSUME NEW s \in Runs, s # r
        PROVE  {l \in Lines : stored'[l].first = s} = {l \in Lines : stored[l].first = s}
    <2>1. ASSUME NEW l \in Lines PROVE stored'[l].first = s <=> stored[l].first = s
      <3>1. s # 0
        BY BoundsAssumption DEF Runs
      <3>2. CASE l \in Locked(p)
        BY <1>4, <1>5, <1>8, <3>1, <3>2
      <3>3. CASE l \notin Locked(p)
        BY <1>2, <3>3
      <3> QED
        BY <3>2, <3>3
    <2> QED
      BY <2>1
  <1>9. ASSUME NEW s \in Runs, run'[s].status = "COMPLETED"
        PROVE  run'[s].counts.created = Cardinality({l \in Lines : stored'[l].first = s})
    <2>1. CASE s = r
      BY <1>3, <1>7, <2>1 DEF Ledger
    <2>2. CASE s # r
      BY <1>3, <1>8, <1>9, <2>2 DEF Ledger
    <2> QED
      BY <2>1, <2>2
  <1>10. ASSUME NEW q \in Workers
         PROVE  /\ Locked(q)' = {} /\ job'[q].batch = {} /\ job'[q].counts.created = 0
    <2>1. Blank(job'[p]) /\ Others(p)
      BY BlankSteps DEF IInv
    <2>2. CASE q = p
      BY <2>1, <2>2 DEF Blank, Locked, NoRow, NoCounts
    <2>3. CASE q # p
      <3>1. job'[q] = job[q]
        BY <2>1, <2>3 DEF Others
      <3>2. job[q].pc \notin {"read", "upsert", "close"}
        BY <1>1, <2>3 DEF Busy
      <3>3. /\ job[q].counts.created + job[q].counts.updated + job[q].counts.unchanged = 0
            /\ job[q].todo = {} /\ Locked(q) = {} /\ job[q].batch \subseteq job[q].todo
        BY <3>2 DEF CountedOnce
      <3>4. job[q].counts \in Counts
        BY DEF IInv, WellTyped, JobStates
      <3>5. job[q].counts.created = 0
        BY <3>3, <3>4 DEF Counts
      <3> QED
        BY <3>1, <3>3, <3>5 DEF Locked
    <2> QED
      BY <2>2, <2>3
  <1>11. ASSUME NEW q \in Workers
         PROVE  /\ job'[q].counts.created = Cardinality(Fresh(q)')
                /\ \A l \in Locked(q)' :
                     /\ job'[q].written[l].last = job'[q].run
                     /\ stored'[l].version = 0 => job'[q].written[l].first = job'[q].run
    <2>1. Fresh(q)' = {}
      BY <1>10 DEF Fresh
    <2> QED
      BY <1>10, <2>1, Sizes
  <1> QED
    BY <1>6, <1>9, <1>11 DEF Ledger

\* What the other steps make of the rows of runs: none that is complete.
LEMMA CompletedKept ==
    ASSUME WellTyped, OneSlot, NEW p \in Workers,
           \/ Start(p) \/ RecoverStaleRuns(p) \/ OpenRun(p) \/ OpenRefused(p)
           \/ FetchReport(p) \/ ReadExisting(p) \/ UpsertBatch(p) \/ Deadlock(p) \/ FailRun(p)
           \/ FetchFails(p) \/ WriteFails(p) \/ FailRunFails(p) \/ Crash(p)
    PROVE  \A r \in Runs : (run[r].status = "COMPLETED" \/ run'[r].status = "COMPLETED") =>
              run'[r].status = run[r].status /\ run'[r].counts = run[r].counts
  <1>1. CASE RecoverStaleRuns(p)
    <2>1. \A r \in job[p].found : r \in Runs => run[r].status \in {"RUNNING", "FAILED"}
      BY DEF OneSlot
    <2>2. \A r \in Runs : run'[r] = IF r \in job[p].found
                THEN [run[r] EXCEPT !.status = "FAILED"] ELSE run[r]
      BY <1>1 DEF RecoverStaleRuns
    <2> QED
      BY <2>1, <2>2 DEF WellTyped, RunRows
  <1>2. CASE OpenRun(p)
    <2> PICK r \in Unused : run' = [run EXCEPT ![r].status = "RUNNING"]
      BY <1>2 DEF OpenRun
    <2> QED
      BY DEF Unused, WellTyped, RunRows
  <1>3. CASE FailRun(p)
    <2>1. job[p].run # 0
      BY <1>3 DEF FailRun, OneSlot, Busy
    <2>2. run[job[p].run].status = "RUNNING"
      BY <2>1 DEF OneSlot
    <2>3. run' = [run EXCEPT ![job[p].run].status = "FAILED"]
      BY <1>3 DEF FailRun
    <2> QED
      BY <2>2, <2>3 DEF WellTyped, RunRows
  <1>4. CASE \/ Start(p) \/ OpenRefused(p) \/ FetchReport(p) \/ ReadExisting(p)
             \/ UpsertBatch(p) \/ Deadlock(p) \/ FetchFails(p) \/ WriteFails(p)
             \/ FailRunFails(p) \/ Crash(p)
    BY <1>4 DEF Start, OpenRefused, FetchReport, ReadExisting, UpsertBatch, Deadlock,
                FetchFails, WriteFails, FailRunFails, Crash
  <1> QED
    BY <1>1, <1>2, <1>3, <1>4

LEMMA LedgerStep ==
    ASSUME IInv, \A p \in Workers : CountedOnce(p), OneSlot, Ledger, [Next]_vars
    PROVE  Ledger'
  <1>1. ASSUME NEW l \in Lines, Change(l) PROVE Ledger'
    <2>1. ASSUME NEW q \in Workers PROVE EntryKept(q)
      <3>1. job'[q] = job[q] \/ job'[q] = [job[q] EXCEPT !.changed = job[q].changed \union {l}]
        BY <1>1 DEF Change
      <3> QED
        BY <3>1 DEF EntryKept, IInv, WellTyped, JobStates
    <2>2. stored' = stored /\ run' = run
      BY <1>1 DEF Change
    <2> QED
      BY <2>1, <2>2, LedgerKept
  <1>2. ASSUME NEW r \in Runs, Overdue(r) PROVE Ledger'
    <2>1. stored' = stored /\ job' = job
      BY <1>2 DEF Overdue
    <2>2. \A s \in Runs : run'[s].status = run[s].status /\ run'[s].counts = run[s].counts
      BY <1>2 DEF Overdue, IInv, WellTyped, RunRows
    <2>3. \A q \in Workers : EntryKept(q)
      BY <2>1 DEF EntryKept
    <2> QED
      BY <2>1, <2>2, <2>3, LedgerKept
  <1>3. ASSUME NEW p \in Workers, Others(p), EntryKept(p) PROVE \A q \in Workers : EntryKept(q)
    BY <1>3 DEF Others, EntryKept
  <1>4. ASSUME NEW p \in Workers,
           \/ Start(p) \/ RecoverStaleRuns(p) \/ OpenRun(p) \/ OpenRefused(p)
           \/ FetchReport(p) \/ Deadlock(p) \/ FailRun(p)
           \/ FetchFails(p) \/ WriteFails(p) \/ FailRunFails(p) \/ Crash(p)
        PROVE  Ledger'
    <2>1. stored' = stored
      BY <1>4, OtherSteps DEF IInv
    <2>2. Others(p) /\ EntryKept(p)
      <3>1. CASE RecoverStaleRuns(p) \/ FetchFails(p)
        <4>1. /\ job'[p].batch = job[p].batch /\ job'[p].written = job[p].written
              /\ job'[p].run = job[p].run /\ job'[p].counts = job[p].counts
          BY <3>1 DEF RecoverStaleRuns, FetchFails, IInv, WellTyped, JobStates
        <4> QED
          BY <3>1, <4>1, IdleCounted DEF EntryKept, IInv
      <3>2. CASE FetchReport(p)
        BY <3>2, FetchCounted DEF EntryKept, IInv
      <3>3. CASE \/ Start(p) \/ OpenRun(p) \/ OpenRefused(p) \/ Deadlock(p)
                 \/ FailRun(p) \/ WriteFails(p) \/ FailRunFails(p) \/ Crash(p)
        BY <3>3, BlankSteps DEF EntryKept, IInv
      <3> QED
        BY <1>4, <3>1, <3>2, <3>3
    <2>3. \A q \in Workers : EntryKept(q)
      BY <1>3, <2>2
    <2>4. \A r \in Runs : (run[r].status = "COMPLETED" \/ run'[r].status = "COMPLETED") =>
              run'[r].status = run[r].status /\ run'[r].counts = run[r].counts
      BY <1>4, CompletedKept DEF IInv
    <2> QED
      BY <2>1, <2>3, <2>4, LedgerKept
  <1>5. ASSUME NEW p \in Workers, ReadExisting(p) \/ UpsertBatch(p) \/ CloseRun(p) PROVE Ledger'
    <2>1. CountedOnce(p) /\ WellTyped
      BY DEF IInv
    <2> QED
      BY <1>5, <2>1, LedgerRead, LedgerUpsert, LedgerClose
  <1>6. CASE UNCHANGED vars
    <2>1. \A q \in Workers : EntryKept(q)
      BY <1>6 DEF vars, EntryKept
    <2> QED
      BY <1>6, <2>1, LedgerKept DEF vars
  <1> QED
    BY <1>1, <1>2, <1>4, <1>5, <1>6 DEF Next, Step

LEMMA RunInvInit == Init => RunInv
  <1> SUFFICES ASSUME Init PROVE RunInv
    OBVIOUS
  <1>1. IInv
    <2>1. \A p \in Workers : Locked(p) = {}
      BY DEF Init, Idle, Locked, NoRow
    <2> QED
      BY <2>1, TypeInit DEF Guarded, IInv
  <1>2. \A r \in Runs : run[r] = NoRun
    BY DEF Init
  <1>3. TypeOK
    BY <1>1, <1>2, Sizes DEF IInv, TypeOK, NoRun, NoCounts
  <1>4. \A p \in Workers : job[p] = Idle /\ Locked(p) = {}
    BY DEF Init, Idle, Locked, NoRow
  <1>5. \A p \in Workers : CountedOnce(p)
    BY <1>4, Sizes DEF CountedOnce, Idle, NoCounts
  <1>6. OneSlot
    BY <1>2, <1>4 DEF OneSlot, NoRun, Idle, Busy
  <1>7. Ledger
    <2>1. \A l \in Lines : stored[l] = NoRow
      BY DEF Init
    <2>2. \A p \in Workers : Fresh(p) = {}
      BY <1>4 DEF Fresh, Idle
    <2>3. \A p \in Workers : job[p].counts.created = Cardinality(Fresh(p))
      BY <1>4, <2>2, Sizes DEF Idle, NoCounts
    <2> QED
      BY <1>2, <1>4, <2>1, <2>3 DEF Ledger, NoRow, NoRun
  <1> QED
    BY <1>1, <1>3, <1>5, <1>6, <1>7 DEF RunInv

LEMMA RunInvStep == RunInv /\ [Next]_vars => RunInv'
  <1> SUFFICES ASSUME RunInv, [Next]_vars PROVE RunInv'
    OBVIOUS
  <1>1. IInv /\ WellTyped /\ TypeOK /\ \A p \in Workers : CountedOnce(p)
    BY DEF RunInv, IInv
  <1>2. IInv'
    BY <1>1, InvStep
  <1>3. TypeOK'
    BY <1>1, TypeOKStep
  <1>4. \A p \in Workers : CountedOnce(p)'
    BY <1>1, CountedStep
  <1>5. discipline' = discipline
    <2>1. ASSUME NEW p \in Workers,
             Step(p) \/ FetchFails(p) \/ WriteFails(p) \/ FailRunFails(p) \/ Crash(p)
          PROVE  discipline' = discipline
      BY <2>1 DEF Step, Start, RecoverStaleRuns, OpenRun, OpenRefused, FetchReport,
                  ReadExisting, UpsertBatch, CloseRun, Deadlock, FailRun,
                  FetchFails, WriteFails, FailRunFails, Crash
    <2>2. ASSUME NEW l \in Lines, Change(l) PROVE discipline' = discipline
      BY <2>2 DEF Change
    <2>3. ASSUME NEW r \in Runs, Overdue(r) PROVE discipline' = discipline
      BY <2>3 DEF Overdue
    <2> QED
      BY <2>1, <2>2, <2>3 DEF Next, vars
  <1>6. discipline = "TIMELY" => OneSlot' /\ Ledger'
    BY <1>1, SlotStep, LedgerStep DEF RunInv
  <1> QED
    BY <1>2, <1>3, <1>4, <1>5, <1>6 DEF RunInv

\* The counts of a run can be trusted whatever jobs overlap, fail or die: a run
\* that is complete created the lines that name it first, no stored line names a
\* run that failed or is open, and no run counts more lines than there are.
THEOREM RunsCanBeTrusted == Spec => []RunRecordsAreTrue
  <1>1. RunInv => RunRecordsAreTrue
    BY DEF RunInv, RunRecordsAreTrue, OneSlot, Ledger
  <1> QED
    BY <1>1, RunInvInit, RunInvStep, PTL DEF Spec

----------------------------------------------------------------------------
(* The windows leave no gap *)

\* Nothing is ahead of Amazon.
Behind ==
    /\ \A l \in Lines : stored[l].version <= amazon[l].version
    /\ \A p \in Workers : \A l \in Lines :
         /\ job[p].report[l] <= amazon[l].version
         /\ job[p].written[l].version <= amazon[l].version

Window(p) == OrdersWindows[job[p].window]

\* Of the lines Amazon has not changed since the job's now: those of the windows
\* before are stored as they are, those of the window at work are in the
\* transaction, in the report or in what is written.
Covered(p) ==
    job[p].pc # "idle" =>
        /\ job[p].window \in 1 .. Len(OrdersWindows)
        /\ \A l \in Lines \ job[p].changed :
             /\ job[p].window > 1 /\ amazon[l].age >= Window(p).from =>
                  stored[l].version = amazon[l].version
             /\ /\ InTransaction(p)
                /\ amazon[l].version > 0
                /\ amazon[l].age \in Window(p).to .. Window(p).from
                => \/ l \in job[p].todo /\ job[p].report[l] = amazon[l].version
                   \/ l \in Locked(p) /\ job[p].written[l].version = amazon[l].version

CoverInv == RunInv /\ Behind /\ \A p \in Workers : Covered(p)

\* The first window begins with the trailing days, each next one where the one
\* before ends, and the last one ends now.
LEMMA WindowFacts ==
    LET n == Len(OrdersWindows)
        W == OrdersWindows IN
    /\ n \in Nat \ {0}
    /\ \A k \in 1 .. n : W[k].from \in Int /\ W[k].to \in Nat
    /\ W[1].from = Days
    /\ \A k \in 1 .. n : k < n => W[k + 1].from = W[k].to
    /\ W[n].to = 0
  <1> DEFINE m == (Days + ChunkDays - 1) \div ChunkDays
  <1>1. m \in Nat /\ m * ChunkDays >= Days /\ (m - 1) * ChunkDays < Days
    BY WindowAssumption, Z3
  <1>2. m # 0
    BY <1>1, WindowAssumption
  <1>3. OrdersWindows = [k \in 1 .. m |->
            [from |-> Days - (k - 1) * ChunkDays,
             to |-> IF k * ChunkDays < Days THEN Days - k * ChunkDays ELSE 0]]
    BY DEF OrdersWindows
  <1> HIDE DEF m
  <1>4. Len(OrdersWindows) = m
    BY <1>1, <1>3
  <1>5. \A k \in 1 .. m : k < m => k * ChunkDays < Days
    <2> SUFFICES ASSUME NEW k \in 1 .. m, k < m PROVE k * ChunkDays < Days
      OBVIOUS
    <2>1. k <= m - 1 /\ k \in Nat /\ m - 1 \in Nat
      BY <1>1
    <2>2. k * ChunkDays <= (m - 1) * ChunkDays
      BY <2>1, WindowAssumption, Z3
    <2>3. k * ChunkDays \in Nat /\ (m - 1) * ChunkDays \in Nat /\ Days \in Nat
      BY <2>1, WindowAssumption
    <2> QED
      BY <1>1, <2>2, <2>3
  <1>6. \A k \in 1 .. m : /\ OrdersWindows[k].from = Days - (k - 1) * ChunkDays
                          /\ OrdersWindows[k].to =
                               IF k * ChunkDays < Days THEN Days - k * ChunkDays ELSE 0
    BY <1>3
  <1>7. \A k \in 1 .. m : k * ChunkDays \in Nat /\ (k - 1) * ChunkDays \in Nat
    BY <1>1, WindowAssumption
  <1>8. \A k \in 1 .. m : OrdersWindows[k].from \in Int /\ OrdersWindows[k].to \in Nat
    BY <1>6, <1>7, WindowAssumption
  <1>9. OrdersWindows[1].from = Days
    BY <1>1, <1>2, <1>6, WindowAssumption
  <1>10. ASSUME NEW k \in 1 .. m, k < m PROVE OrdersWindows[k + 1].from = OrdersWindows[k].to
    <2>1. k + 1 \in 1 .. m /\ (k + 1) - 1 = k
      BY <1>1, <1>10
    <2>2. OrdersWindows[k + 1].from = Days - k * ChunkDays
      BY <1>6, <2>1
    <2> QED
      BY <1>5, <1>6, <1>10, <2>2
  <1>11. OrdersWindows[m].to = 0
    <2>1. m \in 1 .. m
      BY <1>1, <1>2
    <2>2. ~(m * ChunkDays < Days)
      BY <1>1, <1>7, <2>1, WindowAssumption
    <2> QED
      BY <1>6, <2>1, <2>2
  <1> QED
    BY <1>1, <1>2, <1>4, <1>8, <1>9, <1>10, <1>11

\* A job that only sees the others go on.
LEMMA CoverKept ==
    ASSUME WellTyped, WellTyped', Behind', NEW q \in Workers, Covered(q),
           job'[q].pc = job[q].pc, job'[q].window = job[q].window,
           job'[q].todo = job[q].todo, job'[q].report = job[q].report,
           job'[q].written = job[q].written, job[q].changed \subseteq job'[q].changed,
           job[q].pc # "idle" => \A l \in Lines \ job'[q].changed :
              amazon'[l] = amazon[l] /\ stored'[l].version >= stored[l].version
    PROVE  Covered(q)'
  <1> SUFFICES ASSUME job[q].pc # "idle" PROVE Covered(q)'
    BY DEF Covered
  <1>1. Window(q)' = Window(q) /\ InTransaction(q)' = InTransaction(q) /\ Locked(q)' = Locked(q)
    BY DEF Window, InTransaction, Locked
  <1>2. ASSUME NEW l \in Lines \ job'[q].changed
        PROVE  /\ l \in Lines \ job[q].changed
               /\ amazon'[l] = amazon[l]
               /\ stored[l].version = amazon[l].version => stored'[l].version = amazon[l].version
    <2>1. stored[l].version \in Nat /\ stored'[l].version \in Nat /\ amazon[l].version \in Nat
      BY BoundsAssumption DEF WellTyped, StoredLines, Versions
    <2>2. amazon'[l] = amazon[l] /\ stored'[l].version >= stored[l].version
      BY <1>2
    <2>3. stored'[l].version <= amazon[l].version
      BY <2>2 DEF Behind
    <2> QED
      BY <2>1, <2>2, <2>3
  <1> QED
    BY <1>1, <1>2 DEF Covered

\* The steps that end a job or leave it at rest: nothing is read or written, and
\* the window and what has changed are kept or begin anew.
AtRest(state) ==
    /\ state.report = [l \in Lines |-> 0]
    /\ state.written = [l \in Lines |-> NoRow]
    /\ state.pc \notin {"read", "upsert", "close"}

LEMMA RestSteps ==
    ASSUME WellTyped, NEW p \in Workers,
           \/ Start(p) \/ OpenRun(p) \/ OpenRefused(p) \/ CloseRun(p) \/ Deadlock(p)
           \/ FailRun(p) \/ WriteFails(p) \/ FailRunFails(p) \/ Crash(p)
    PROVE  /\ AtRest(job'[p]) /\ Others(p) /\ UNCHANGED amazon
           /\ \/ job'[p].pc = "idle"
              \/ Start(p) /\ job'[p].window = 1
              \/ /\ ~CloseRun(p) /\ job[p].pc # "idle"
                 /\ job'[p].window = job[p].window /\ job'[p].changed = job[p].changed
              \/ /\ CloseRun(p) /\ ~LastWindow(p)
                 /\ job'[p].window = job[p].window + 1 /\ job'[p].changed = job[p].changed
  <1>1. Others(p)
    BY BlankSteps
  <1>2. UNCHANGED amazon
    BY DEF Start, OpenRun, OpenRefused, CloseRun, Deadlock, FailRun, WriteFails,
           FailRunFails, Crash
  <1>3. CASE Start(p)
    <2>1. job'[p] = [Idle EXCEPT !.found = StaleRuns,
                         !.pc = IF StaleRuns = {} THEN "open" ELSE "recover"]
      BY <1>3 DEF Start, WellTyped
    <2> QED
      BY <1>1, <1>2, <1>3, <2>1 DEF AtRest, Idle
  <1>4. CASE OpenRun(p)
    <2>1. PICK r : job' = [job EXCEPT ![p] = [Idle EXCEPT
              !.pc = "fetch", !.run = r, !.window = job[p].window,
              !.changed = job[p].changed]]
      BY <1>4 DEF OpenRun
    <2>2. job'[p] = [Idle EXCEPT !.pc = "fetch", !.run = r, !.window = job[p].window,
                         !.changed = job[p].changed]
      BY <2>1 DEF WellTyped
    <2>3. job[p].pc = "open"
      BY <1>4 DEF OpenRun
    <2>4. AtRest(job'[p]) /\ job'[p].window = job[p].window
          /\ job'[p].changed = job[p].changed
      BY <2>2 DEF AtRest, Idle
    <2>5. ~CloseRun(p)
      BY <2>3 DEF CloseRun
    <2> QED
      BY <1>1, <1>2, <2>3, <2>4, <2>5
  <1>5. CASE Deadlock(p) \/ WriteFails(p)
    <2>1. job'[p] = [Idle EXCEPT !.pc = "fail", !.window = job[p].window,
                         !.changed = job[p].changed, !.run = job[p].run]
      BY <1>5 DEF Deadlock, WriteFails, RolledBack, WellTyped
    <2>2. job[p].pc # "idle"
      BY <1>5 DEF Deadlock, WriteFails, Waits, InTransaction
    <2>3. AtRest(job'[p]) /\ job'[p].window = job[p].window
          /\ job'[p].changed = job[p].changed /\ job'[p].pc = "fail"
      BY <2>1 DEF AtRest, Idle
    <2>4. ~CloseRun(p)
      <3>1. CloseRun(p) => job'[p].pc \in {"idle", "open"}
        BY DEF CloseRun, WellTyped, Idle
      <3> QED
        BY <2>3, <3>1
    <2> QED
      BY <1>1, <1>2, <2>2, <2>3, <2>4
  <1>6. CASE CloseRun(p) /\ ~LastWindow(p)
    <2>1. job'[p] = [Idle EXCEPT !.pc = "open", !.window = job[p].window + 1,
                         !.changed = job[p].changed]
      BY <1>6 DEF CloseRun, WellTyped
    <2> QED
      BY <1>1, <1>2, <1>6, <2>1 DEF AtRest, Idle
  <1>7. CASE \/ OpenRefused(p) \/ FailRun(p) \/ FailRunFails(p) \/ Crash(p)
             \/ CloseRun(p) /\ LastWindow(p)
    <2>1. job'[p] = Idle
      BY <1>7 DEF OpenRefused, FailRun, FailRunFails, Crash, CloseRun, WellTyped
    <2> QED
      BY <1>1, <1>2, <2>1 DEF AtRest, Idle
  <1> QED
    BY <1>3, <1>4, <1>5, <1>6, <1>7

\* When a window is closed, what it and the ones before it list is stored.
LEMMA CloseCovers ==
    ASSUME CoverInv, NEW p \in Workers, CloseRun(p),
           NEW l \in Lines \ job[p].changed, amazon[l].age >= Window(p).to
    PROVE  stored'[l].version = amazon[l].version
  <1>1. /\ WellTyped /\ Guarded /\ Behind /\ Covered(p)
        /\ job[p].pc = "close" /\ job[p].todo = {}
    BY DEF CoverInv, RunInv, IInv, CloseRun, CountedOnce
  <1>2. /\ stored[l].version \in Nat /\ amazon[l].version \in Nat
        /\ job[p].written[l].version \in Nat
        /\ amazon[l].age \in Int /\ amazon[l].age <= Days
    BY <1>1, BoundsAssumption, WindowAssumption
       DEF WellTyped, JobStates, StoredLines, Versions
  <1>3. stored'[l] = IF l \in Locked(p) THEN job[p].written[l] ELSE stored[l]
    BY DEF CloseRun
  <1>4. /\ stored[l].version <= amazon[l].version
        /\ job[p].written[l].version <= amazon[l].version
        /\ l \in Locked(p) => job[p].written[l].version >= stored[l].version
    BY <1>1 DEF Behind, Guarded
  <1>5. CASE stored[l].version = amazon[l].version
    BY <1>2, <1>3, <1>4, <1>5
  <1>6. CASE l \in Locked(p) /\ job[p].written[l].version = amazon[l].version
    BY <1>3, <1>6
  <1>7. CASE amazon[l].version = 0
    BY <1>2, <1>4, <1>5, <1>7
  <1>8. CASE amazon[l].version > 0
    <2>1. job[p].window \in 1 .. Len(OrdersWindows) /\ InTransaction(p)
      BY <1>1 DEF Covered, InTransaction
    <2>2. Window(p).from \in Int /\ Window(p).to \in Nat
      BY <2>1, WindowFacts DEF Window
    <2>3. CASE amazon[l].age <= Window(p).from
      <3>1. amazon[l].age \in Window(p).to .. Window(p).from
        BY <1>2, <2>2, <2>3
      <3>2. \/ l \in job[p].todo /\ job[p].report[l] = amazon[l].version
            \/ l \in Locked(p) /\ job[p].written[l].version = amazon[l].version
        BY <1>1, <1>8, <2>1, <3>1 DEF Covered
      <3> QED
        BY <1>1, <1>6, <3>2
    <2>4. CASE amazon[l].age > Window(p).from
      <3>1. job[p].window # 1
        BY <1>2, <2>2, <2>4, WindowFacts, WindowAssumption DEF Window
      <3>2. job[p].window > 1
        BY <2>1, <3>1, WindowFacts
      <3>3. amazon[l].age >= Window(p).from
        BY <1>2, <2>2, <2>4
      <3> QED
        BY <1>1, <1>5, <3>2, <3>3 DEF Covered
    <2> QED
      BY <1>2, <2>2, <2>3, <2>4
  <1> QED
    BY <1>2, <1>7, <1>8

\* A report lists the lines of its window as they are.
LEMMA FetchCovers ==
    ASSUME CoverInv, WellTyped', NEW p \in Workers, FetchReport(p)
    PROVE  /\ Covered(p)' /\ Others(p) /\ UNCHANGED <<amazon, stored>>
           /\ job'[p].written = job[p].written
           /\ \A l \in Lines : job'[p].report[l] <= amazon[l].version
  <1> DEFINE report == [l \in Lines |-> IF l \in Reported(p) THEN amazon[l].version ELSE 0]
             pc == IF Reported(p) = {} THEN "close" ELSE "read"
  <1>1. /\ WellTyped /\ Covered(p) /\ job[p].pc = "fetch"
        /\ UNCHANGED <<amazon, stored>>
        /\ job' = [job EXCEPT ![p] = [job[p] EXCEPT
             !.report = report, !.todo = Reported(p), !.pc = pc]]
    BY DEF CoverInv, RunInv, IInv, FetchReport
  <1>2. \A l \in Lines : report[l] = IF l \in Reported(p) THEN amazon[l].version ELSE 0
    OBVIOUS
  <1> HIDE DEF report, pc
  <1>3. /\ job'[p].report = report /\ job'[p].todo = Reported(p)
        /\ job'[p].window = job[p].window /\ job'[p].changed = job[p].changed
        /\ job'[p].written = job[p].written
    BY <1>1 DEF WellTyped, JobStates
  <1>4. Others(p)
    BY <1>1 DEF WellTyped, Others
  <1>5. \A l \in Lines : job'[p].report[l] <= amazon[l].version
    BY <1>1, <1>2, <1>3, BoundsAssumption DEF WellTyped, Versions
  <1>6. Covered(p)'
    <2>1. Window(p)' = Window(p)
      BY <1>3 DEF Window
    <2>2. ASSUME NEW l \in Lines \ job[p].changed, amazon[l].version > 0,
                 amazon[l].age \in Window(p).to .. Window(p).from
          PROVE  l \in Reported(p) /\ report[l] = amazon[l].version
      BY <1>2, <2>2 DEF Reported, Window
    <2> QED
      BY <1>1, <1>3, <2>1, <2>2 DEF Covered
  <1> QED
    BY <1>1, <1>3, <1>4, <1>5, <1>6

\* An upsert writes the lines of its batch as they were reported.
LEMMA UpsertCovers ==
    ASSUME CoverInv, WellTyped', NEW p \in Workers, UpsertBatch(p)
    PROVE  /\ Covered(p)' /\ Others(p) /\ UNCHANGED <<amazon, stored>>
           /\ \A l \in Lines : /\ job'[p].report[l] <= amazon[l].version
                               /\ job'[p].written[l].version <= amazon[l].version
  <1> DEFINE rest == job[p].todo \ job[p].batch
             report == [l \in Lines |-> IF l \in rest THEN job[p].report[l] ELSE 0]
             written == [l \in Lines |-> IF l \in job[p].batch
                 THEN Upserted(stored[l], job[p].report[l], job[p].run)
                 ELSE job[p].written[l]]
             pc == IF rest = {} THEN "close" ELSE "read"
  <1>1. /\ WellTyped /\ Behind /\ Covered(p) /\ CountedOnce(p) /\ job[p].pc = "upsert"
        /\ UNCHANGED <<amazon, stored>>
        /\ job' = [job EXCEPT ![p] = [job[p] EXCEPT
             !.written = written, !.todo = rest, !.batch = {}, !.report = report, !.pc = pc]]
    BY DEF CoverInv, RunInv, IInv, UpsertBatch
  <1>2. \A l \in Lines : /\ report[l] = IF l \in rest THEN job[p].report[l] ELSE 0
                         /\ written[l] = IF l \in job[p].batch
                              THEN Upserted(stored[l], job[p].report[l], job[p].run)
                              ELSE job[p].written[l]
    OBVIOUS
  <1> HIDE DEF report, written, pc
  <1>3. /\ job'[p].report = report /\ job'[p].todo = rest /\ job'[p].written = written
        /\ job'[p].window = job[p].window /\ job'[p].changed = job[p].changed
    BY <1>1 DEF WellTyped, JobStates
  <1>4. Others(p)
    BY <1>1 DEF WellTyped, Others
  <1>5. ASSUME NEW l \in Lines
        PROVE  /\ stored[l].version \in Nat /\ amazon[l].version \in Nat
               /\ job[p].report[l] \in Nat /\ job[p].written[l].version \in Nat
               /\ stored[l].version <= amazon[l].version
               /\ job[p].report[l] <= amazon[l].version
               /\ job[p].written[l].version <= amazon[l].version
               /\ l \in job[p].batch => written[l].version =
                    IF job[p].report[l] > stored[l].version THEN job[p].report[l]
                    ELSE stored[l].version
    <2>1. stored[l] \in StoredLines /\ job[p].report[l] \in Versions
          /\ job[p].written[l] \in StoredLines /\ amazon[l].version \in Versions
      BY <1>1 DEF WellTyped, JobStates
    <2>2. /\ stored[l].version \in Nat /\ amazon[l].version \in Nat
          /\ job[p].report[l] \in Nat /\ job[p].written[l].version \in Nat
      BY <2>1, BoundsAssumption DEF StoredLines, Versions
    <2>3. Upserted(stored[l], job[p].report[l], job[p].run).version =
             IF job[p].report[l] > stored[l].version THEN job[p].report[l]
             ELSE stored[l].version
      BY <2>1, <2>2 DEF Upserted, StoredLines
    <2> QED
      BY <1>1, <1>2, <2>2, <2>3 DEF Behind
  <1>6. \A l \in Lines : /\ job'[p].report[l] <= amazon[l].version
                         /\ job'[p].written[l].version <= amazon[l].version
    <2> SUFFICES ASSUME NEW l \in Lines
                 PROVE  report[l] <= amazon[l].version /\ written[l].version <= amazon[l].version
      BY <1>3
    <2>1. CASE l \in job[p].batch
      BY <1>2, <1>5, <2>1
    <2>2. CASE l \notin job[p].batch
      BY <1>2, <1>5, <2>2
    <2> QED
      BY <2>1, <2>2
  <1>7. ASSUME NEW l \in Lines, amazon[l].version > 0,
               \/ l \in job[p].todo /\ job[p].report[l] = amazon[l].version
               \/ l \in Locked(p) /\ job[p].written[l].version = amazon[l].version
        PROVE  \/ l \in rest /\ report[l] = amazon[l].version
               \/ l \in Locked(p)' /\ written[l].version = amazon[l].version
    <2>1. l \in Locked(p)' <=> written[l].version > 0
      BY <1>3 DEF Locked
    <2>2. CASE l \in job[p].batch
      <3>1. l \in job[p].todo /\ l \notin Locked(p)
        BY <1>1, <2>2 DEF CountedOnce
      <3> QED
        BY <1>5, <1>7, <2>1, <2>2, <3>1
    <2>3. CASE l \in job[p].todo \ job[p].batch
      <3>1. l \notin Locked(p)
        BY <1>1, <2>3 DEF CountedOnce
      <3> QED
        BY <1>2, <1>7, <2>3, <3>1
    <2>4. CASE l \notin job[p].batch /\ l \notin job[p].todo
      BY <1>2, <1>7, <2>1, <2>4
    <2> QED
      BY <2>2, <2>3, <2>4
  <1>8. Covered(p)'
    <2>1. Window(p)' = Window(p) /\ InTransaction(p)
      BY <1>1, <1>3 DEF Window, InTransaction
    <2> QED
      BY <1>1, <1>3, <1>7, <2>1 DEF Covered
  <1> QED
    BY <1>1, <1>4, <1>6, <1>8

\* The work of the others goes on beside a job that is covered.
LEMMA OthersCovered ==
    ASSUME CoverInv, WellTyped', Behind', NEW p \in Workers, Others(p), UNCHANGED amazon,
           \A l \in Lines : stored'[l].version >= stored[l].version
    PROVE  \A q \in Workers : q # p => Covered(q)'
  <1> SUFFICES ASSUME NEW q \in Workers, q # p PROVE Covered(q)'
    OBVIOUS
  <1>1. job'[q] = job[q]
    BY DEF Others
  <1> QED
    BY <1>1, CoverKept DEF CoverInv, RunInv, IInv

LEMMA CoverStep == CoverInv /\ [Next]_vars => CoverInv'
  <1> SUFFICES ASSUME CoverInv, [Next]_vars PROVE CoverInv'
    OBVIOUS
  <1>1. RunInv'
    BY RunInvStep DEF CoverInv
  <1>2. WellTyped /\ WellTyped' /\ Behind
    BY <1>1 DEF CoverInv, RunInv, IInv
  <1>3. \A l \in Lines :
          /\ stored[l].version \in Nat /\ amazon[l].version \in Nat
          /\ \A p \in Workers : job[p].report[l] \in Nat /\ job[p].written[l].version \in Nat
    BY <1>2, BoundsAssumption DEF WellTyped, JobStates, StoredLines, Versions
  <1> SUFFICES Behind' /\ \A q \in Workers : Covered(q)'
    BY <1>1 DEF CoverInv
  <1>4. ASSUME NEW l \in Lines, Change(l) PROVE Behind' /\ \A q \in Workers : Covered(q)'
    <2>1. ASSUME NEW q \in Workers
          PROVE  /\ job'[q].pc = job[q].pc /\ job'[q].window = job[q].window
                 /\ job'[q].todo = job[q].todo /\ job'[q].report = job[q].report
                 /\ job'[q].written = job[q].written
                 /\ job[q].changed \subseteq job'[q].changed
                 /\ job[q].pc # "idle" => l \in job'[q].changed
      <3> DEFINE new == [job[q] EXCEPT !.changed = job[q].changed \union {l}]
      <3>1. job'[q] = IF job[q].pc = "idle" THEN job[q] ELSE new
        BY <1>4 DEF Change
      <3>2. /\ new.pc = job[q].pc /\ new.window = job[q].window
            /\ new.todo = job[q].todo /\ new.report = job[q].report
            /\ new.written = job[q].written
            /\ new.changed = job[q].changed \union {l}
        BY <1>2 DEF WellTyped, JobStates
      <3> HIDE DEF new
      <3> QED
        BY <3>1, <3>2
    <2>2. /\ UNCHANGED stored
          /\ amazon'[l].version = amazon[l].version + 1
          /\ \A k \in Lines : k # l => amazon'[k] = amazon[k]
      BY <1>2, <1>4 DEF Change, WellTyped
    <2>3. Behind'
      BY <1>2, <1>3, <2>1, <2>2 DEF Behind
    <2>4. \A q \in Workers : job[q].pc # "idle" => \A k \in Lines \ job'[q].changed :
              amazon'[k] = amazon[k] /\ stored'[k].version >= stored[k].version
      BY <1>3, <2>1, <2>2
    <2>5. ASSUME NEW q \in Workers PROVE Covered(q)'
      <3>1. Covered(q)
        BY DEF CoverInv
      <3> QED
        BY <1>2, <2>1, <2>3, <2>4, <3>1, CoverKept
    <2> QED
      BY <2>3, <2>5
  <1>5. ASSUME UNCHANGED <<amazon, stored, job>>
        PROVE  Behind' /\ \A q \in Workers : Covered(q)'
    <2>1. Behind'
      BY <1>2, <1>5 DEF Behind
    <2>2. ASSUME NEW q \in Workers PROVE Covered(q)'
      BY <1>5 DEF CoverInv, Covered, Window, InTransaction, Locked
    <2> QED
      BY <2>1, <2>2
  <1>6. ASSUME NEW p \in Workers, CloseRun(p)
        PROVE  Behind' /\ \A q \in Workers : Covered(q)'
    <2>1. /\ AtRest(job'[p]) /\ Others(p) /\ UNCHANGED amazon
          /\ \/ job'[p].pc = "idle"
             \/ /\ ~LastWindow(p) /\ job'[p].window = job[p].window + 1
                /\ job'[p].changed = job[p].changed
      <3>1. ~Start(p)
        BY <1>6 DEF CloseRun, Start
      <3> QED
        BY <1>2, <1>6, <3>1, RestSteps
    <2>2. ASSUME NEW l \in Lines
          PROVE  /\ stored'[l].version >= stored[l].version
                 /\ stored'[l].version <= amazon[l].version
      <3>1. stored'[l] = IF l \in Locked(p) THEN job[p].written[l] ELSE stored[l]
        BY <1>6 DEF CloseRun
      <3>2. l \in Locked(p) => job[p].written[l].version >= stored[l].version
        BY DEF CoverInv, RunInv, IInv, Guarded
      <3> QED
        BY <1>2, <1>3, <3>1, <3>2 DEF Behind
    <2>3. Behind'
      <3>1. \A q \in Workers : \A l \in Lines :
               job'[q].report[l] <= amazon[l].version
               /\ job'[q].written[l].version <= amazon[l].version
        BY <1>2, <1>3, <2>1 DEF Behind, AtRest, Others, NoRow
      <3> QED
        BY <2>1, <2>2, <3>1 DEF Behind
    <2>4. Covered(p)'
      <3>1. CASE job'[p].pc = "idle"
        BY <3>1 DEF Covered
      <3>2. CASE /\ ~LastWindow(p) /\ job'[p].window = job[p].window + 1
                 /\ job'[p].changed = job[p].changed
        <4>1. job[p].window \in 1 .. Len(OrdersWindows)
          BY <1>6 DEF CoverInv, Covered, CloseRun
        <4>2. /\ job'[p].window \in 1 .. Len(OrdersWindows)
              /\ OrdersWindows[job'[p].window].from = OrdersWindows[job[p].window].to
          <5>1. job[p].window # Len(OrdersWindows) /\ Len(OrdersWindows) \in Nat
            BY <3>2, WindowFacts DEF LastWindow
          <5>2. job[p].window < Len(OrdersWindows)
            BY <4>1, <5>1
          <5>3. job[p].window + 1 \in 1 .. Len(OrdersWindows)
            BY <4>1, <5>1, <5>2
          <5> QED
            BY <3>2, <4>1, <5>2, <5>3, WindowFacts
        <4>3. \A l \in Lines \ job[p].changed :
                 amazon[l].age >= OrdersWindows[job'[p].window].from =>
                    stored'[l].version = amazon[l].version
          BY <1>6, <4>2, CloseCovers DEF Window
        <4>4. ~InTransaction(p)'
          BY <2>1 DEF InTransaction, AtRest
        <4> QED
          BY <2>1, <3>2, <4>2, <4>3, <4>4 DEF Covered, Window
      <3> QED
        BY <2>1, <3>1, <3>2
    <2>5. \A q \in Workers : q # p => Covered(q)'
      BY <1>2, <2>1, <2>2, <2>3, OthersCovered
    <2> QED
      BY <2>3, <2>4, <2>5
  <1>7. ASSUME NEW p \in Workers, Others(p), UNCHANGED <<amazon, stored>>, Covered(p)',
               \A l \in Lines : /\ job'[p].report[l] <= amazon[l].version
                                /\ job'[p].written[l].version <= amazon[l].version
        PROVE  Behind' /\ \A q \in Workers : Covered(q)'
    <2>1. Behind'
      BY <1>2, <1>7 DEF Behind, Others
    <2>2. \A l \in Lines : stored'[l].version >= stored[l].version
      BY <1>3, <1>7
    <2> QED
      BY <1>2, <1>7, <2>1, <2>2, OthersCovered
  <1>8. ASSUME NEW p \in Workers,
               \/ Start(p) \/ OpenRun(p) \/ OpenRefused(p) \/ Deadlock(p)
               \/ FailRun(p) \/ WriteFails(p) \/ FailRunFails(p) \/ Crash(p)
        PROVE  Behind' /\ \A q \in Workers : Covered(q)'
    <2>1. UNCHANGED stored
      BY <1>2, <1>8, OtherSteps
    <2>2. /\ AtRest(job'[p]) /\ Others(p) /\ UNCHANGED amazon
          /\ \/ job'[p].pc = "idle"
             \/ job'[p].window = 1
             \/ /\ job[p].pc # "idle"
                /\ job'[p].window = job[p].window /\ job'[p].changed = job[p].changed
             \/ CloseRun(p)
      BY <1>2, <1>8, RestSteps
    <2>3. \A l \in Lines : /\ job'[p].report[l] <= amazon[l].version
                           /\ job'[p].written[l].version <= amazon[l].version
      BY <1>3, <2>2 DEF AtRest, NoRow
    <2>4. ~InTransaction(p)'
      BY <2>2 DEF InTransaction, AtRest
    <2>5. CASE job'[p].pc = "idle"
      <3>1. Covered(p)'
        BY <2>5 DEF Covered
      <3> QED
        BY <1>7, <2>1, <2>2, <2>3, <3>1
    <2>6. CASE job'[p].window = 1
      <3>1. Covered(p)'
        BY <2>4, <2>6, WindowFacts DEF Covered
      <3> QED
        BY <1>7, <2>1, <2>2, <2>3, <3>1
    <2>7. CASE /\ job[p].pc # "idle"
               /\ job'[p].window = job[p].window /\ job'[p].changed = job[p].changed
      <3>1. Covered(p)'
        BY <2>1, <2>2, <2>4, <2>7 DEF CoverInv, Covered, Window
      <3> QED
        BY <1>7, <2>1, <2>2, <2>3, <3>1
    <2> QED
      BY <1>6, <2>2, <2>5, <2>6, <2>7
  <1>9. ASSUME NEW p \in Workers, RecoverStaleRuns(p) \/ FetchFails(p) \/ ReadExisting(p)
        PROVE  Behind' /\ \A q \in Workers : Covered(q)'
    <2>1. /\ job'[p].window = job[p].window /\ job'[p].changed = job[p].changed
          /\ job'[p].report = job[p].report /\ job'[p].written = job[p].written
          /\ job'[p].todo = job[p].todo
          /\ job[p].pc # "idle"
          /\ UNCHANGED <<amazon, stored>>
          /\ Others(p)
          /\ InTransaction(p)' => InTransaction(p)
      <3>1. CASE RecoverStaleRuns(p) \/ FetchFails(p)
        <4> DEFINE recovered == [job[p] EXCEPT !.pc = "open", !.found = {}]
                   failed == [job[p] EXCEPT !.pc = "fail"]
        <4>1. \E new \in {recovered, failed} : job' = [job EXCEPT ![p] = new]
          BY <1>2, <3>1 DEF RecoverStaleRuns, FetchFails, WellTyped
        <4>2. job[p].pc # "idle" /\ UNCHANGED <<amazon, stored>>
          BY <3>1 DEF RecoverStaleRuns, FetchFails
        <4>3. \A new \in {recovered, failed} :
                /\ new.window = job[p].window /\ new.changed = job[p].changed
                /\ new.report = job[p].report /\ new.written = job[p].written
                /\ new.todo = job[p].todo /\ new.pc \in {"open", "fail"}
          <5>1. job[p] \in JobStates
            BY <1>2 DEF WellTyped
          <5>2. /\ recovered.window = job[p].window /\ recovered.changed = job[p].changed
                /\ recovered.report = job[p].report /\ recovered.written = job[p].written
                /\ recovered.todo = job[p].todo /\ recovered.pc = "open"
            BY <5>1 DEF JobStates
          <5>3. /\ failed.window = job[p].window /\ failed.changed = job[p].changed
                /\ failed.report = job[p].report /\ failed.written = job[p].written
                /\ failed.todo = job[p].todo /\ failed.pc = "fail"
            BY <5>1 DEF JobStates
          <5> HIDE DEF recovered, failed
          <5> QED
            BY <5>2, <5>3
        <4> HIDE DEF recovered, failed
        <4>4. Others(p) /\ job'[p] \in {recovered, failed}
          BY <1>2, <4>1 DEF WellTyped, Others
        <4> QED
          BY <4>2, <4>3, <4>4 DEF InTransaction
      <3>2. CASE ReadExisting(p)
        <4>1. PICK b \in Batches(p) : job' = [job EXCEPT
                ![p].batch = b, ![p].counts = Classified(p, b), ![p].pc = "upsert"]
          BY <3>2 DEF ReadExisting
        <4>2. job[p].pc = "read" /\ UNCHANGED <<amazon, stored>>
          BY <3>2 DEF ReadExisting
        <4>3. /\ job'[p].window = job[p].window /\ job'[p].changed = job[p].changed
              /\ job'[p].report = job[p].report /\ job'[p].written = job[p].written
              /\ job'[p].todo = job[p].todo
          BY <1>2, <4>1 DEF WellTyped, JobStates
        <4>4. Others(p)
          BY <1>2, <4>1 DEF WellTyped, Others
        <4> QED
          BY <4>2, <4>3, <4>4 DEF InTransaction
      <3> QED
        BY <1>9, <3>1, <3>2
    <2>2. Covered(p)'
      BY <2>1 DEF CoverInv, Covered, Window, Locked
    <2>3. \A l \in Lines : /\ job'[p].report[l] <= amazon[l].version
                           /\ job'[p].written[l].version <= amazon[l].version
      BY <1>2, <2>1 DEF Behind
    <2> QED
      BY <1>7, <2>1, <2>2, <2>3
  <1>10. ASSUME NEW p \in Workers, FetchReport(p)
         PROVE  Behind' /\ \A q \in Workers : Covered(q)'
    <2>1. \A l \in Lines : job'[p].written[l].version <= amazon[l].version
      BY <1>2, <1>10, FetchCovers DEF Behind
    <2> QED
      BY <1>2, <1>7, <1>10, <2>1, FetchCovers
  <1>11. ASSUME NEW p \in Workers, UpsertBatch(p)
         PROVE  Behind' /\ \A q \in Workers : Covered(q)'
    BY <1>2, <1>7, <1>11, UpsertCovers
  <1>12. ASSUME NEW r \in Runs, Overdue(r) PROVE UNCHANGED <<amazon, stored, job>>
    BY <1>12 DEF Overdue
  <1>13. CASE UNCHANGED vars
    BY <1>5, <1>13 DEF vars
  <1> QED
    BY <1>4, <1>5, <1>6, <1>8, <1>9, <1>10, <1>11, <1>12, <1>13 DEF Next, Step

LEMMA CoverInvInit == Init => CoverInv
  <1> SUFFICES ASSUME Init PROVE CoverInv
    OBVIOUS
  <1>1. RunInv
    BY RunInvInit
  <1>2. \A p \in Workers : Covered(p)
    BY DEF Init, Idle, Covered
  <1>3. \A l \in Lines : amazon[l].version \in Nat
    BY <1>1, BoundsAssumption DEF RunInv, IInv, WellTyped, Versions
  <1>4. Behind
    BY <1>3 DEF Init, Idle, NoRow, Behind
  <1> QED
    BY <1>1, <1>2, <1>4 DEF CoverInv

\* However jobs overlap, fail, retry or die: when a job has closed its last
\* window, every line Amazon left alone since the job began is stored as Amazon
\* has it, whichever windows it fell on the border of.
THEOREM NothingIsLeftOut == Spec => JobsLeaveNothingOut
  <1> DEFINE Body == \A p \in Workers : CloseRun(p) /\ LastWindow(p) =>
                 \A l \in Lines \ job[p].changed : stored'[l].version = amazon[l].version
  <1>1. CoverInv /\ [Next]_vars => [Body]_vars
    <2> SUFFICES ASSUME CoverInv, NEW p \in Workers, CloseRun(p), LastWindow(p),
                        NEW l \in Lines \ job[p].changed
                 PROVE  stored'[l].version = amazon[l].version
      OBVIOUS
    <2>1. Window(p).to = 0
      BY WindowFacts DEF LastWindow, Window
    <2>2. amazon[l].age >= Window(p).to
      BY <2>1, WindowAssumption DEF CoverInv, RunInv, IInv, WellTyped
    <2> QED
      BY <2>2, CloseCovers
  <1>2. Spec => [][Body]_vars
    <2> HIDE DEF Body
    <2> QED
      BY <1>1, CoverInvInit, CoverStep, PTL DEF Spec
  <1> QED
    BY <1>2 DEF JobsLeaveNothingOut
=============================================================================
