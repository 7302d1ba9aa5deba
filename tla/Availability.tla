----------------------------- MODULE Availability -----------------------------
(***************************************************************************)
(* The last stage of an import (services/snapshots.py) and the watchlist   *)
(* it feeds (services/watchlist.py).  Every matched or unmatched vendor    *)
(* line of the file gets a snapshot, a snapshot that differs from the      *)
(* line's previous one raises an event, and an event moves the watch       *)
(* entries of its product.                                                 *)
(*                                                                         *)
(* A chunk of rows is one READ COMMITTED transaction of several            *)
(* statements: Build reads what the lines last showed, Insert writes the   *)
(* snapshots and reads the watch entries, Commit publishes.  In between,   *)
(* imports of the same or another vendor and buyers editing the watchlist  *)
(* commit freely.  Costs, quantities and their ceilings are left out.      *)
(***************************************************************************)
EXTENDS Naturals, Sequences, FiniteSets, SequencesExt

CONSTANTS
    Lines,          \* vendor lines
    Vendors,
    VendorOf,       \* line -> its vendor
    Products,       \* active products
    None,           \* SQL NULL
    Files,          \* the row sequences a matched file may have
    ChunkRows,      \* rows of one transaction
    MaxJobs,        \* bound: imports
    MaxEntries,     \* bound: watch entries
    Workers,        \* processes running the snapshotting stage
    Buyers,         \* sessions adding watch entries
    MaxCrashes,     \* bound: workers that die
    Disciplines     \* which of the disciplines below to look at

Jobs == 1 .. MaxJobs
Entries == 1 .. MaxEntries

Statuses == {"AVAILABLE", "OUT_OF_STOCK", "DISCONTINUED", "UNKNOWN"}
Unavailable == {"OUT_OF_STOCK", "DISCONTINUED"}
OosStatuses == {"IN_STOCK", "OUT_OF_STOCK", "UNKNOWN"}
Kinds == {"BECAME_AVAILABLE", "BECAME_UNAVAILABLE"}

\* What matching left on a row: its line and the product it matched, if any.
FileRows == [line : Lines, status : Statuses, product : Products \union {None}]

ASSUME VendorsAssumption == VendorOf \in [Lines -> Vendors]
ASSUME NoneAssumption == None \notin Products \union Vendors
ASSUME DisciplineAssumption == 
    Disciplines \subseteq {"FREE", "IMPORTS", "VENDOR", "SERIAL"}
ASSUME ChunkAssumption == ChunkRows \in Nat \ {0}
ASSUME BoundsAssumption == MaxJobs \in Nat /\ MaxEntries \in Nat /\ MaxCrashes \in Nat
ASSUME FilesAssumption ==
    /\ Files \subseteq Seq(FileRows)
    /\ \A f \in Files : \A i, k \in DOMAIN f :
         /\ VendorOf[f[i].line] = VendorOf[f[k].line]
         /\ f[i].line = f[k].line => i = k

VARIABLES
    file,       \* job -> the rows of its file
    job,        \* job -> how far it is
    snap,       \* vendor_inventory_snapshots
    event,      \* availability_events
    watch,      \* oos_watchlist
    history,    \* oos_status_history, by entry
    worker,     \* what each process is doing
    buyer,      \* what each buyer's request is doing
    crashes,
    discipline  \* how far imports and requests overlap in this behaviour

dbVars == <<file, job, snap, event, watch, history>>
vars == <<file, job, snap, event, watch, history, worker, buyer, crashes,
          discipline>>

----------------------------------------------------------------------------
(* Types *)

\* at is captured_at; a job names its file's upload, in order of upload.
Snapshots == [job : Jobs, line : Lines, product : Products \union {None},
              status : Statuses, at : Nat]
\* from and to are the jobs of the two snapshots of the line, 0 for none.
Events == [line : Lines, product : Products \union {None}, kind : Kinds,
           from : Jobs \union {0}, to : Jobs, watch : Entries \union {0}]
WatchRows == [active : BOOLEAN, product : Products \union {None},
              vendor : Vendors \union {None}, status : OosStatuses]
Moves == [from : OosStatuses, to : OosStatuses]

\* pending, raised and moves are the chunk's uncommitted snapshots, events and
\* watch changes.
WorkerStates ==
    [pc : {"idle", "read", "insert", "commit"}, job : Jobs \union {0},
     next : Nat, pending : SUBSET Snapshots, raised : SUBSET Events,
     moves : [Entries -> Seq(Moves)]]
BuyerStates == [pc : {"idle", "insert"}, entry : WatchRows]

AbsentWatch == [active |-> FALSE, product |-> None, vendor |-> None,
                status |-> "UNKNOWN"]
NoMoves == [e \in Entries |-> <<>>]
IdleWorker == [pc |-> "idle", job |-> 0, next |-> 1, pending |-> {},
               raised |-> {}, moves |-> NoMoves]
IdleBuyer == [pc |-> "idle", entry |-> AbsentWatch]

TypeOK ==
    /\ file \in [Jobs -> Files \union {<<>>}]
    /\ job \in [Jobs -> {"ABSENT", "SNAPSHOTTING", "DONE"}]
    /\ snap \subseteq Snapshots
    /\ event \subseteq Events
    /\ watch \in [Entries -> WatchRows]
    /\ history \in [Entries -> Seq(Moves)]
    /\ worker \in [Workers -> WorkerStates]
    /\ buyer \in [Buyers -> BuyerStates]
    /\ crashes \in 0 .. MaxCrashes
    /\ discipline \in Disciplines

Init ==
    /\ file = [j \in Jobs |-> <<>>]
    /\ job = [j \in Jobs |-> "ABSENT"]
    /\ snap = {}
    /\ event = {}
    /\ watch = [e \in Entries |-> AbsentWatch]
    /\ history = [e \in Entries |-> <<>>]
    /\ worker = [w \in Workers |-> IdleWorker]
    /\ buyer = [b \in Buyers |-> IdleBuyer]
    /\ crashes = 0
    /\ discipline \in Disciplines

----------------------------------------------------------------------------
(* Who overlaps whom *)

BusyWorkers == {w \in Workers : worker[w].pc # "idle"}
BusyBuyers == {b \in Buyers : buyer[b].pc # "idle"}
VendorAt(j) == VendorOf[file[j][1].line]

\* FREE is the code as it is: nothing keeps two imports or a request apart.
\* IMPORTS is that without watchlist requests during an import; VENDOR is also
\* one import of a vendor at a time, and SERIAL one import at a time.
MayStart(j) ==
    /\ discipline # "FREE" => BusyBuyers = {}
    /\ discipline \in {"VENDOR", "SERIAL"} =>
         \A w \in BusyWorkers :
            discipline = "VENDOR" /\ VendorAt(worker[w].job) # VendorAt(j)
MayEdit == discipline # "FREE" => BusyWorkers = {}

----------------------------------------------------------------------------
(* Snapshots and transitions *)

\* The line's most recent observation is the one captured last.
LatestOf(S) == CHOOSE s \in S : \A t \in S : t.at <= s.at

\* Mutant: a first observation is not a transition.
TransitionFromKnown(previous, current) ==
    CASE current = "AVAILABLE" /\ previous \in Unavailable -> "BECAME_AVAILABLE"
      [] current \in Unavailable /\ previous = "AVAILABLE" -> "BECAME_UNAVAILABLE"
      [] OTHER -> "NONE"

\* Mutant: a move to anything else is the end of the stock.
TransitionToUnknown(previous, current) ==
    CASE current = "AVAILABLE" /\ previous # "AVAILABLE" -> "BECAME_AVAILABLE"
      [] current # "AVAILABLE" /\ previous = "AVAILABLE" -> "BECAME_UNAVAILABLE"
      [] OTHER -> "NONE"

Transition(previous, current) ==
    CASE current = "AVAILABLE" /\ previous # "AVAILABLE" -> "BECAME_AVAILABLE"
      [] current \in Unavailable /\ previous = "AVAILABLE" -> "BECAME_UNAVAILABLE"
      [] OTHER -> "NONE"

SnapsOf(S, l) == {s \in S : s.line = l}

\* latest_snapshots.
PreviousOf(l) ==
    IF SnapsOf(snap, l) = {} THEN [job |-> 0, status |-> "NONE"]
    ELSE [job |-> LatestOf(SnapsOf(snap, l)).job,
          status |-> LatestOf(SnapsOf(snap, l)).status]

\* latest_status_by_line: per line, the last of the snapshots that carry this
\* product, of one vendor or of any.
LatestStatuses(S, p, v) ==
    LET carrying(l) == {s \in SnapsOf(S, l) : s.product = p}
    IN {LatestOf(carrying(l)).status :
           l \in {k \in Lines : carrying(k) # {} /\ v \in {None, VendorOf[k]}}}

\* No clock is read twice: later builds are captured later.
Now ==
    Max({0} \union {s.at : s \in snap \union UNION {worker[w].pending : w \in Workers}}) + 1

----------------------------------------------------------------------------
(* The watchlist's side of an event *)

Concerns(e, ev) ==
    /\ watch[e].active
    /\ ev.product # None
    /\ watch[e].product = ev.product
    /\ watch[e].vendor \in {None, VendorOf[ev.line]}

\* The entry an event is linked to: vendor-specific first, oldest first.
Primary(ev) ==
    LET concerned == {e \in Entries : Concerns(e, ev)}
        specific == {e \in concerned : watch[e].vendor # None}
        first(S) == CHOOSE e \in S : \A k \in S : e <= k
    IN IF concerned = {} THEN 0
       ELSE IF specific # {} THEN first(specific) ELSE first(concerned)

\* Mutant: one line gone is out of stock.
StatusAfterAlone(S, e, ev) ==
    IF ev.kind = "BECAME_AVAILABLE" THEN "IN_STOCK" ELSE "OUT_OF_STOCK"

\* _status_after, over the snapshots S that the transaction sees.
StatusAfter(S, e, ev) ==
    IF \/ ev.kind = "BECAME_AVAILABLE"
       \/ "AVAILABLE" \in LatestStatuses(S, ev.product, watch[e].vendor)
    THEN "IN_STOCK"
    ELSE "OUT_OF_STOCK"

\* The entry's status after some of its changes.
StatusThen(e, done) == IF done = <<>> THEN watch[e].status ELSE Last(done).to

\* Mutant: every event leaves a row.
MovedAnyway(e, done, told) ==
    IF told = {} THEN done
    ELSE Append(done, [from |-> StatusThen(e, done), to |-> CHOOSE s \in told : TRUE])

\* _move_status: one history row per actual change.  told is what a row of the
\* file tells the entry, if anything.
Moved(e, done, told) ==
    IF told \subseteq {StatusThen(e, done)} THEN done
    ELSE Append(done, [from |-> StatusThen(e, done),
                       to |-> CHOOSE s \in told : s # StatusThen(e, done)])

----------------------------------------------------------------------------
(* The snapshotting stage *)

MyJob(w) == worker[w].job
RowsLeft(w) == worker[w].next <= Len(file[MyJob(w)])

\* A matched import, waiting for its snapshots.
Import(j, f) ==
    /\ job[j] = "ABSENT"
    /\ \A k \in Jobs : k < j => job[k] # "ABSENT"
    /\ file' = [file EXCEPT ![j] = f]
    /\ job' = [job EXCEPT ![j] = "SNAPSHOTTING"]
    /\ UNCHANGED <<snap, event, watch, history, worker, buyer, crashes, discipline>>

\* Also on a job whose snapshotting was interrupted.
Start(w, j) ==
    /\ worker[w].pc = "idle"
    /\ job[j] = "SNAPSHOTTING"
    /\ MayStart(j)
    /\ worker' = [worker EXCEPT ![w] = [IdleWorker EXCEPT !.pc = "read", !.job = j]]
    /\ UNCHANGED <<dbVars, buyer, crashes, discipline>>

\* snapshotted_lines.
Already(j, l) == \E s \in snap : s.job = j /\ s.line = l

\* Mutant: the last row of a short chunk is left out.
ChunkShort(w) ==
    {k \in DOMAIN file[MyJob(w)] :
        /\ worker[w].next <= k /\ k < worker[w].next + ChunkRows
        /\ k = Len(file[MyJob(w)]) => worker[w].next + ChunkRows <= k + 1}

\* _next_rows.
Chunk(w) ==
    {k \in DOMAIN file[MyJob(w)] :
        worker[w].next <= k /\ k < worker[w].next + ChunkRows}

\* The rows of the chunk that have no snapshot yet.
Unobserved(w) ==
    {file[MyJob(w)][k] :
        k \in {x \in Chunk(w) : ~Already(MyJob(w), file[MyJob(w)][x].line)}}

SnapshotOf(j, r) ==
    [job |-> j, line |-> r.line, product |-> r.product, status |-> r.status, at |-> Now]

TransitionOf(r) == Transition(PreviousOf(r.line).status, r.status)

EventOf(j, r) ==
    [line |-> r.line, product |-> r.product, kind |-> TransitionOf(r),
     from |-> PreviousOf(r.line).job, to |-> j, watch |-> 0]

\* The snapshots of the chunk and their events, each from its line's previous
\* snapshot as committed now.
Build(w) ==
    /\ worker[w].pc = "read"
    /\ RowsLeft(w)
    /\ worker' = [worker EXCEPT ![w] =
          IF Unobserved(w) = {}
          THEN [worker[w] EXCEPT !.next = worker[w].next + ChunkRows]
          ELSE [worker[w] EXCEPT
              !.pc = "insert",
              !.pending = {SnapshotOf(MyJob(w), r) : r \in Unobserved(w)},
              !.raised = {EventOf(MyJob(w), r) :
                             r \in {x \in Unobserved(w) : TransitionOf(x) # "NONE"}}]]
    /\ UNCHANGED <<dbVars, buyer, crashes, discipline>>

\* apply_events: the changes that the chunk's events, in the order of its rows,
\* make to an entry.
MovesBy(w, e) ==
    LET rows == file[MyJob(w)]
        told == [k \in DOMAIN rows |->
            {StatusAfter(snap \union worker[w].pending, e, ev) :
               ev \in {x \in worker[w].raised : x.line = rows[k].line /\ Concerns(e, x)}}]
        moves[k \in 0 .. Len(rows)] ==
            IF k = 0 THEN <<>> ELSE Moved(e, moves[k - 1], told[k])
    IN moves[Len(rows)]

SameKey(s, t) == s.job = t.job /\ s.line = t.line

\* The INSERT waits for a transaction that holds one of its (job, line) keys;
\* a committed one makes it fail, which ends the stage.  Otherwise the watch
\* entries are read and the events linked.
Insert(w) ==
    /\ worker[w].pc = "insert"
    /\ \A x \in Workers : worker[x].pc = "commit" =>
          \A s \in worker[w].pending, t \in worker[x].pending : ~SameKey(s, t)
    /\ worker' = [worker EXCEPT ![w] =
          IF \E s \in worker[w].pending, t \in snap : SameKey(s, t)
          THEN IdleWorker
          ELSE [worker[w] EXCEPT
              !.pc = "commit",
              !.raised = {[ev EXCEPT !.watch = Primary(ev)] : ev \in worker[w].raised},
              !.moves = [e \in Entries |-> MovesBy(w, e)]]]
    /\ UNCHANGED <<dbVars, buyer, crashes, discipline>>

Commit(w) ==
    /\ worker[w].pc = "commit"
    /\ LET moves == worker[w].moves IN
       /\ snap' = snap \union worker[w].pending
       /\ event' = event \union worker[w].raised
       /\ watch' = [e \in Entries |-> IF moves[e] = <<>> THEN watch[e]
                       ELSE [watch[e] EXCEPT !.status = Last(moves[e]).to]]
       /\ history' = [e \in Entries |-> history[e] \o moves[e]]
    /\ worker' = [worker EXCEPT ![w] = [IdleWorker EXCEPT
            !.pc = "read", !.job = MyJob(w), !.next = worker[w].next + ChunkRows]]
    /\ UNCHANGED <<file, job, buyer, crashes, discipline>>

\* _Snapshotter._finish.
Finish(w) ==
    /\ worker[w].pc = "read"
    /\ ~RowsLeft(w)
    /\ job' = [job EXCEPT ![MyJob(w)] = "DONE"]
    /\ worker' = [worker EXCEPT ![w] = IdleWorker]
    /\ UNCHANGED <<file, snap, event, watch, history, buyer, crashes, discipline>>

\* The process dies; its transaction is rolled back.
Crash(w) ==
    /\ crashes < MaxCrashes
    /\ worker[w].pc # "idle"
    /\ crashes' = crashes + 1
    /\ worker' = [worker EXCEPT ![w] = IdleWorker]
    /\ UNCHANGED <<dbVars, buyer, discipline>>

----------------------------------------------------------------------------
(* Editing the watchlist *)

ActiveWatches(p, v) ==
    {e \in Entries : watch[e].active /\ watch[e].product = p /\ watch[e].vendor = v}

\* _status_now.
StatusNow(p, v) ==
    LET statuses == LatestStatuses(snap, p, v)
    IN CASE "AVAILABLE" \in statuses -> "IN_STOCK"
         [] statuses \subseteq {"UNKNOWN"} -> "UNKNOWN"
         [] OTHER -> "OUT_OF_STOCK"

\* add_watch, up to its INSERT.
AskWatch(b, p, v) ==
    /\ buyer[b].pc = "idle"
    /\ ActiveWatches(p, v) = {}
    /\ MayEdit
    /\ buyer' = [buyer EXCEPT ![b] = [pc |-> "insert",
            entry |-> [active |-> TRUE, product |-> p, vendor |-> v,
                       status |-> StatusNow(p, v)]]]
    /\ UNCHANGED <<dbVars, worker, crashes, discipline>>

FreeEntries == {e \in Entries : watch[e].product = None}

\* The INSERT, refused when another request was faster.
AddWatch(b) ==
    /\ buyer[b].pc = "insert"
    /\ IF ActiveWatches(buyer[b].entry.product, buyer[b].entry.vendor) # {}
       THEN watch' = watch
       ELSE /\ FreeEntries # {}
            /\ watch' = [watch EXCEPT ![CHOOSE e \in FreeEntries :
                             \A k \in FreeEntries : e <= k] = buyer[b].entry]
    /\ buyer' = [buyer EXCEPT ![b] = IdleBuyer]
    /\ UNCHANGED <<file, job, snap, event, history, worker, crashes, discipline>>

RemoveWatch(e) ==
    /\ watch[e].active
    /\ MayEdit
    /\ watch' = [watch EXCEPT ![e].active = FALSE]
    /\ UNCHANGED <<file, job, snap, event, history, worker, buyer, crashes, discipline>>

----------------------------------------------------------------------------

WorkerStep(w) ==
    \/ Build(w)
    \/ Insert(w)
    \/ Commit(w)
    \/ Finish(w)

Next ==
    \/ \E j \in Jobs, f \in Files : Import(j, f)
    \/ \E w \in Workers, j \in Jobs : Start(w, j)
    \/ \E w \in Workers : WorkerStep(w)
    \/ \E w \in Workers : Crash(w)
    \/ \E b \in Buyers, p \in Products, v \in Vendors \union {None} : AskWatch(b, p, v)
    \/ \E b \in Buyers : AddWatch(b)
    \/ \E e \in Entries : RemoveWatch(e)

\* The code as it is, under each of the disciplines.
Spec == Init /\ [][Next]_vars

----------------------------------------------------------------------------
(* Properties *)

CurrentOf(l) == LatestOf(SnapsOf(snap, l))
Observed(l) == SnapsOf(snap, l) # {}
EventsInto(s) == {ev \in event : ev.line = s.line /\ ev.to = s.job}

\* AC-11.2, AC-11.3, AC-11.4: along a line's history every move to AVAILABLE,
\* and every move from AVAILABLE to an unavailable state, has exactly one event
\* naming both snapshots, and nothing else has any.
EventsMatchTransitions ==
    discipline \in {"VENDOR", "SERIAL"} => \A s \in snap :
        LET earlier == {t \in SnapsOf(snap, s.line) : t.at < s.at}
            before == IF earlier = {} THEN "NONE" ELSE LatestOf(earlier).status
            from == IF earlier = {} THEN 0 ELSE LatestOf(earlier).job
            up == s.status = "AVAILABLE" /\ before # "AVAILABLE"
            down == s.status \in Unavailable /\ before = "AVAILABLE"
        IN /\ Cardinality(EventsInto(s)) = IF up \/ down THEN 1 ELSE 0
           /\ \A ev \in EventsInto(s) :
                /\ ev.kind = IF up THEN "BECAME_AVAILABLE" ELSE "BECAME_UNAVAILABLE"
                /\ ev.from = from
                /\ ev.product = s.product

\* What overlapping imports leave of it: an event is raised once by its snapshot,
\* names an older snapshot of the same line, and the two really differ.
EventsTellTheirSnapshots ==
    \A ev \in event :
        \E s \in snap :
            /\ s.line = ev.line /\ s.job = ev.to
            /\ s.product = ev.product
            /\ EventsInto(s) = {ev}
            /\ s.status \in IF ev.kind = "BECAME_AVAILABLE"
                            THEN {"AVAILABLE"} ELSE Unavailable
            /\ ev.from # 0 => \E t \in snap :
                 /\ t.line = ev.line /\ t.job = ev.from /\ t.at < s.at
                 /\ (t.status = "AVAILABLE") # (s.status = "AVAILABLE")

\* AC-11.1, AC-11.7: a finished import has one snapshot for every line of its
\* file, mapped or not, however often its snapshotting was interrupted or run
\* (and the tables keep their types).
FinishedImportsAreObserved ==
    /\ TypeOK
    /\ \A j \in Jobs : job[j] = "DONE" =>
         \A k \in DOMAIN file[j] :
             \E s \in snap :
                 /\ {t \in snap : SameKey(s, t)} = {s}
                 /\ s.job = j /\ s.line = file[j][k].line
                 /\ s.status = file[j][k].status
                 /\ s.product = file[j][k].product

Watched(e, l) ==
    /\ watch[e].vendor \in {None, VendorOf[l]}
    /\ Observed(l)
    /\ CurrentOf(l).product = watch[e].product

\* A buyer waiting for a product is never left waiting while a line they watch
\* shows it available.  This is what the documentation says of the code as it is.
WatchesHearOfStock ==
    \A e \in Entries : watch[e].active /\ watch[e].status # "IN_STOCK" =>
        \A l \in Lines : Watched(e, l) => CurrentOf(l).status # "AVAILABLE"

\* Whenever the line was available it was as the watched product: one that is
\* available when it becomes that product raises no event (snapshots.py:236), and
\* the entry is left waiting (section 4 of the README).
AlwaysAsWatched(e, l) ==
    \A s \in SnapsOf(snap, l) : s.status = "AVAILABLE" => s.product = watch[e].product

\* The same, of imports that do not overlap and lines whose product is settled
\* before they are available.
NoMissedStock ==
    discipline = "SERIAL" =>
        \A e \in Entries : watch[e].active /\ watch[e].status # "IN_STOCK" =>
            \A l \in Lines :
                Watched(e, l) /\ AlwaysAsWatched(e, l) => CurrentOf(l).status # "AVAILABLE"

\* AC-10.2: the history of an entry is a chain of actual changes that ends in its
\* current status.
HistoryIsAChain ==
    discipline = "SERIAL" => \A e \in Entries : \A k \in DOMAIN history[e] :
        /\ history[e][k].from # history[e][k].to
        /\ IF k < Len(history[e]) THEN history[e][k].to = history[e][k + 1].from
           ELSE history[e][k].to = watch[e].status

=============================================================================
