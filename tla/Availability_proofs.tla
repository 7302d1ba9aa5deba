------------------------- MODULE Availability_proofs -------------------------
(***************************************************************************)
(* Proofs about Availability, for any lines, vendors, products, files,     *)
(* processes, buyers and crashes.  Of any behaviour, whoever overlaps      *)
(* whom: a finished import has one snapshot of every row, and an event     *)
(* tells of a real difference between two snapshots.  Of behaviours with   *)
(* one import of a vendor at a time: events are exactly the transitions.   *)
(* Of those with one import at a time: watch entries follow the stock, and *)
(* their history is a chain.                                               *)
(***************************************************************************)
EXTENDS Availability, FiniteSetTheorems, WellFoundedInduction, TLAPS

Busy(w) == worker[w].pc # "idle"
Holding(w) == worker[w].pc \in {"insert", "commit"}

\* Committed or on its way.
AllSnaps == snap \union UNION {worker[w].pending : w \in Workers}

\* The snapshot is the observation of a row of its file.
FromFile(s) ==
    \E k \in DOMAIN file[s.job] : /\ s.line = file[s.job][k].line
                                  /\ s.status = file[s.job][k].status
                                  /\ s.product = file[s.job][k].product

JobsFit ==
    \A j \in Jobs :
        /\ job[j] = "ABSENT" => file[j] = <<>>
        /\ job[j] = "DONE" => \A k \in DOMAIN file[j] : Already(j, file[j][k].line)

SnapsFit ==
    /\ \A s \in snap : FromFile(s)
    /\ \A s, t \in snap : SameKey(s, t) => s = t

\* Captured at different times, in a past that has a last moment.
TimesFit ==
    /\ \E n \in Nat : \A s \in AllSnaps : s.at <= n
    /\ \A s, t \in AllSnaps : s.line = t.line /\ s.at = t.at => s = t

\* The event ev is the snapshot s's, and names an older one it differs from.
Tells(ev, s) ==
    /\ s.line = ev.line /\ s.job = ev.to
    /\ s.product = ev.product
    /\ s.status \in IF ev.kind = "BECAME_AVAILABLE" THEN {"AVAILABLE"} ELSE Unavailable
    /\ ev.from # 0 => \E t \in snap :
         /\ t.line = ev.line /\ t.job = ev.from /\ t.at < s.at
         /\ (t.status = "AVAILABLE") # (s.status = "AVAILABLE")

EventsFit ==
    /\ \A ev \in event : \E s \in snap : Tells(ev, s)
    /\ \A ev, eu \in event : ev.line = eu.line /\ ev.to = eu.to => ev = eu

\* What a chunk holds back covers its rows, each once.
ChunkFits(w) ==
    /\ \A k \in Chunk(w) : \/ Already(MyJob(w), file[MyJob(w)][k].line)
                           \/ \E s \in worker[w].pending : s.line = file[MyJob(w)][k].line
    /\ \A s \in worker[w].pending : s.job = MyJob(w) /\ FromFile(s)
    /\ \A s, t \in worker[w].pending : s.line = t.line => s = t
    /\ \A ev \in worker[w].raised : \E s \in worker[w].pending : Tells(ev, s)
    /\ \A ev, eu \in worker[w].raised : ev.line = eu.line => ev = eu

WalkFits(w) ==
    /\ Busy(w) => /\ MyJob(w) \in Jobs /\ job[MyJob(w)] # "ABSENT"
                  /\ \A k \in DOMAIN file[MyJob(w)] :
                       k < worker[w].next => Already(MyJob(w), file[MyJob(w)][k].line)
    /\ ~Holding(w) => worker[w].pending = {} /\ worker[w].raised = {}
    /\ Holding(w) => ChunkFits(w)

\* Of two chunks with a row in common, one waits.
CommitFits(w) ==
    worker[w].pc = "commit" =>
         /\ \A s \in worker[w].pending, t \in snap : ~SameKey(s, t)
         /\ \A x \in Workers : x # w /\ worker[x].pc = "commit" =>
              \A s \in worker[w].pending, t \in worker[x].pending : ~SameKey(s, t)

Sound ==
    /\ TypeOK
    /\ JobsFit
    /\ SnapsFit
    /\ TimesFit
    /\ EventsFit
    /\ \A w \in Workers : WalkFits(w)
    /\ \A w \in Workers : CommitFits(w)

\* With one import of a vendor at a time ...
Apart ==
    \A w, x \in Workers : Busy(w) /\ Busy(x) /\ w # x =>
        discipline = "VENDOR" /\ VendorAt(MyJob(w)) # VendorAt(MyJob(x))

\* ... what a chunk has found out about its lines is still so.
Told(s, evs, prev) ==
    LET kind == Transition(prev.status, s.status)
        mine == {ev \in evs : ev.line = s.line /\ ev.to = s.job}
    IN /\ kind = "NONE" <=> mine = {}
       /\ \A ev \in mine : ev.kind = kind /\ ev.from = prev.job /\ ev.product = s.product

ChunkIsCurrent(w) ==
    \A s \in worker[w].pending :
        /\ \A t \in SnapsOf(snap, s.line) : t.at < s.at
        /\ Told(s, worker[w].raised, PreviousOf(s.line))

\* The line's snapshot before s.
Before(s) ==
    LET earlier == {t \in SnapsOf(snap, s.line) : t.at < s.at}
    IN IF earlier = {} THEN [job |-> 0, status |-> "NONE"]
       ELSE [job |-> LatestOf(earlier).job, status |-> LatestOf(earlier).status]

Vendorwise ==
    /\ Apart
    /\ \A w \in Workers : Holding(w) => ChunkIsCurrent(w)
    /\ \A s \in snap : Told(s, event, Before(s))

VendorInv == Sound /\ (discipline \in {"VENDOR", "SERIAL"} => Vendorwise)

\* A chain of changes that starts from a status.
Chain(start, s) ==
    /\ s \in Seq(Moves)
    /\ \A k \in DOMAIN s :
         /\ s[k].from # s[k].to
         /\ s[k].from = IF k = 1 THEN start ELSE s[k - 1].to

\* In S, some line for sale by v shows the product p available, and never showed
\* another one available.
Stocked(S, p, v) ==
    \E l \in Lines :
        /\ v \in {None, VendorOf[l]}
        /\ SnapsOf(S, l) # {}
        /\ LatestOf(SnapsOf(S, l)).status = "AVAILABLE"
        /\ \A s \in SnapsOf(S, l) : s.status = "AVAILABLE" => s.product = p

\* The changes h of an entry end in the status now.
EndsIn(h, now) ==
    \A k \in DOMAIN h : /\ h[k].from # h[k].to
                        /\ h[k].to = IF k < Len(h) THEN h[k + 1].from ELSE now

EntryFits(e) ==
    /\ watch[e].product = None => ~watch[e].active /\ history[e] = <<>>
    /\ watch[e].active /\ Stocked(snap, watch[e].product, watch[e].vendor) =>
         watch[e].status = "IN_STOCK"
    /\ EndsIn(history[e], watch[e].status)

RequestFits(b) ==
    buyer[b].pc = "insert" =>
        /\ buyer[b].entry.active /\ buyer[b].entry.product # None
        /\ Stocked(snap, buyer[b].entry.product, buyer[b].entry.vendor) =>
             buyer[b].entry.status = "IN_STOCK"

\* What the chunk of a worker is about to do to the entries.
MovesFit(w) ==
    worker[w].pc = "commit" => \A e \in Entries :
        /\ Chain(watch[e].status, worker[w].moves[e])
        /\ ~watch[e].active => worker[w].moves[e] = <<>>
        /\ watch[e].active /\ Stocked(snap \union worker[w].pending,
                                     watch[e].product, watch[e].vendor) =>
             StatusThen(e, worker[w].moves[e]) = "IN_STOCK"

\* With one import at a time, and no request during one.
Serialwise ==
    /\ \A w \in Workers, b \in Buyers : Busy(w) => buyer[b].pc = "idle"
    /\ \A e \in Entries : EntryFits(e)
    /\ \A b \in Buyers : RequestFits(b)
    /\ \A w \in Workers : MovesFit(w)

SerialInv == VendorInv /\ (discipline = "SERIAL" => Serialwise)

----------------------------------------------------------------------------
(* Least and latest *)

LEMMA LeastNat ==
    ASSUME NEW S \in SUBSET Nat, S # {}
    PROVE  \E i \in S : \A k \in S : i <= k
  <1>1. PICK i \in S : \A k \in S : ~ (<<k, i>> \in OpToRel(<, Nat))
    BY NatLessThanWellFounded, WFMin
  <1>2. \A k \in S : ~(k < i)
    BY <1>1 DEF OpToRel
  <1> QED
    BY <1>2

LEMMA GreatestNat ==
    ASSUME NEW S \in SUBSET Nat, S # {}, NEW n \in Nat, \A k \in S : k <= n
    PROVE  \E i \in S : \A k \in S : k <= i
  <1> DEFINE T == {n - k : k \in S}
  <1>1. \A k \in S : k \in Nat /\ n - k \in Nat
    OBVIOUS
  <1>2. T \in SUBSET Nat /\ T # {}
    BY <1>1
  <1>3. PICK d \in T : \A k \in T : d <= k
    BY <1>2, LeastNat
  <1>4. PICK i \in S : d = n - i
    BY <1>3
  <1>5. \A k \in S : n - i <= n - k
    BY <1>3, <1>4
  <1> QED
    BY <1>1, <1>4, <1>5

LEMMA FirstEntry ==
    ASSUME NEW S \in SUBSET Entries, S # {}
    PROVE  (CHOOSE e \in S : \A k \in S : e <= k) \in S
  <1>1. S \in SUBSET Nat
    BY BoundsAssumption DEF Entries
  <1> QED
    BY <1>1, LeastNat

\* Snapshots of a past that has a last moment.
Past(S) == S \subseteq Snapshots /\ \E n \in Nat : \A s \in S : s.at <= n

LEMMA LatestFacts ==
    ASSUME NEW S, Past(S), S # {}
    PROVE  LatestOf(S) \in S /\ \A t \in S : t.at <= LatestOf(S).at
  <1>1. PICK n \in Nat : \A s \in S : s.at <= n
    BY DEF Past
  <1> DEFINE T == {s.at : s \in S}
  <1>2. T \in SUBSET Nat /\ T # {} /\ \A k \in T : k <= n
    BY <1>1 DEF Past, Snapshots
  <1>3. PICK i \in T : \A k \in T : k <= i
    BY <1>1, <1>2, GreatestNat
  <1>4. PICK s \in S : s.at = i
    BY <1>3
  <1>5. \A t \in S : t.at <= s.at
    BY <1>3, <1>4
  <1> QED
    BY <1>5 DEF LatestOf

\* A later observation is the latest, and an earlier one changes nothing.
LEMMA LatestIsUnique ==
    ASSUME NEW S, NEW s \in S, Past(S), \A t \in S : t # s => t.at < s.at
    PROVE  LatestOf(S) = s
  <1>1. LatestOf(S) \in S /\ \A t \in S : t.at <= LatestOf(S).at
    BY LatestFacts
  <1>2. s.at <= LatestOf(S).at /\ s.at \in Nat /\ LatestOf(S).at \in Nat
    BY <1>1 DEF Past, Snapshots
  <1>3. LatestOf(S) # s => LatestOf(S).at < s.at
    BY <1>1
  <1> QED
    BY <1>2, <1>3

LEMMA PastKept ==
    ASSUME NEW S, NEW T, Past(S), T \subseteq S
    PROVE  Past(T)
  BY DEF Past

LEMMA NowIsLater ==
    ASSUME Past(AllSnaps)
    PROVE  Now \in Nat /\ \A s \in AllSnaps : s.at < Now
  <1> DEFINE T == {0} \union {s.at : s \in AllSnaps}
  <1>1. PICK n \in Nat : \A s \in AllSnaps : s.at <= n
    BY DEF Past
  <1>2. T \in SUBSET Nat /\ T # {} /\ \A k \in T : k <= n
    BY <1>1 DEF Past, Snapshots
  <1>3. \E x \in T : \A y \in T : y <= x
    <2> HIDE DEF T
    <2> QED
      BY <1>1, <1>2, GreatestNat
  <1>4. \E x \in T : \A y \in T : x >= y
    BY <1>2, <1>3
  <1>5. Max(T) \in T /\ \A y \in T : Max(T) >= y
    BY <1>4 DEF Max
  <1>6. Now = Max(T) + 1
    BY DEF Now, AllSnaps
  <1>7. Max(T) \in Nat
    BY <1>2, <1>5
  <1>8. \A s \in AllSnaps : s.at \in T
    OBVIOUS
  <1>9. \A s \in AllSnaps : s.at \in Nat /\ s.at <= Max(T)
    BY <1>2, <1>5, <1>7, <1>8
  <1> QED
    BY <1>6, <1>7, <1>9

----------------------------------------------------------------------------
(* What an entry goes through in one chunk *)

ToldStatuses(w, e) ==
    [k \in DOMAIN file[MyJob(w)] |->
        {StatusAfter(snap \union worker[w].pending, e, ev) :
           ev \in {x \in worker[w].raised : x.line = file[MyJob(w)][k].line /\ Concerns(e, x)}}]

IsRun(f, n, e, told) ==
    f = [k \in 0 .. n |-> IF k = 0 THEN <<>> ELSE Moved(e, f[k - 1], told[k])]

LEMMA RunExists ==
    ASSUME NEW e, NEW told, NEW n \in Nat
    PROVE  \E f : IsRun(f, n, e, told)
  <1> DEFINE Bad == {m \in Nat : ~ \E f : IsRun(f, m, e, told)}
  <1>1. SUFFICES ASSUME Bad # {} PROVE FALSE
    OBVIOUS
  <1>2. PICK m \in Bad : \A k \in Bad : m <= k
    BY <1>1, LeastNat
  <1>3. CASE m = 0
    <2> DEFINE f == [k \in 0 .. 0 |-> <<>>]
    <2>1. f = [k \in 0 .. 0 |-> IF k = 0 THEN <<>> ELSE Moved(e, f[k - 1], told[k])]
      OBVIOUS
    <2> QED
      BY <1>2, <1>3, <2>1 DEF IsRun
  <1>4. CASE m # 0
    <2>1. m \in Nat /\ m - 1 \in Nat /\ m - 1 \notin Bad
      BY <1>2, <1>4
    <2>2. PICK g : IsRun(g, m - 1, e, told)
      BY <2>1
    <2> DEFINE f == [k \in 0 .. m |-> IF k = m THEN Moved(e, g[m - 1], told[m]) ELSE g[k]]
    <2>3. ASSUME NEW k \in 0 .. m
          PROVE  f[k] = IF k = 0 THEN <<>> ELSE Moved(e, f[k - 1], told[k])
      <3>1. CASE k = m
        <4>1. f[k] = Moved(e, g[m - 1], told[m]) /\ f[m - 1] = g[m - 1]
          BY <2>1, <3>1
        <4> QED
          BY <1>4, <3>1, <4>1
      <3>2. CASE k # m
        <4>1. k \in 0 .. m - 1 /\ f[k] = g[k] /\ (k # 0 => f[k - 1] = g[k - 1])
          BY <2>1, <3>2
        <4>2. g[k] = IF k = 0 THEN <<>> ELSE Moved(e, g[k - 1], told[k])
          BY <2>2, <4>1 DEF IsRun
        <4> QED
          BY <4>1, <4>2
      <3> QED
        BY <3>1, <3>2
    <2>4. f = [k \in 0 .. m |-> IF k = 0 THEN <<>> ELSE Moved(e, f[k - 1], told[k])]
      <3>1. DOMAIN f = 0 .. m /\ f = [k \in 0 .. m |-> f[k]]
        OBVIOUS
      <3> HIDE DEF f
      <3> QED
        BY <2>3, <3>1
    <2> QED
      BY <1>2, <2>4 DEF IsRun
  <1> QED
    BY <1>3, <1>4

LEMMA MovesAreARun ==
    ASSUME NEW w, NEW e, Len(file[MyJob(w)]) \in Nat
    PROVE  \E f : /\ IsRun(f, Len(file[MyJob(w)]), e, ToldStatuses(w, e))
                  /\ MovesBy(w, e) = f[Len(file[MyJob(w)])]
  <1> DEFINE n == Len(file[MyJob(w)])
             F(f) == f = [k \in 0 .. n |->
                             IF k = 0 THEN <<>> ELSE Moved(e, f[k - 1], ToldStatuses(w, e)[k])]
  <1>1. \E f : F(f)
    <2>1. n \in Nat
      OBVIOUS
    <2> HIDE DEF n
    <2>2. PICK f : IsRun(f, n, e, ToldStatuses(w, e))
      BY <2>1, RunExists
    <2>3. F(f)
      BY <2>2 DEF IsRun
    <2> QED
      BY <2>3
  <1>2. F(CHOOSE f : F(f))
    BY <1>1
  <1>3. MovesBy(w, e) = (CHOOSE f : F(f))[n]
    BY DEF MovesBy, ToldStatuses
  <1> QED
    BY <1>2, <1>3 DEF IsRun

LEMMA ChainEnds ==
    ASSUME NEW e \in Entries, watch[e].status \in OosStatuses,
           NEW done, Chain(watch[e].status, done)
    PROVE  /\ StatusThen(e, done) \in OosStatuses
           /\ done # <<>> => /\ Len(done) \in Nat \ {0} /\ Len(done) \in DOMAIN done
                             /\ StatusThen(e, done) = done[Len(done)].to
  <1>1. done \in Seq(Moves)
    BY DEF Chain
  <1>2. CASE done = <<>>
    BY <1>2 DEF StatusThen
  <1>3. CASE done # <<>>
    <2>1. Len(done) \in Nat \ {0} /\ Len(done) \in DOMAIN done
      BY <1>1, <1>3
    <2>2. done[Len(done)] \in Moves
      BY <1>1, <2>1
    <2>3. StatusThen(e, done) = done[Len(done)].to
      BY <1>3 DEF StatusThen, Last
    <2> QED
      BY <2>1, <2>2, <2>3 DEF Moves
  <1> QED
    BY <1>2, <1>3

LEMMA MovedOnce ==
    ASSUME NEW e \in Entries, watch[e].status \in OosStatuses,
           NEW done, Chain(watch[e].status, done),
           NEW told \in SUBSET OosStatuses
    PROVE  /\ Chain(watch[e].status, Moved(e, done, told))
           /\ told = {} => Moved(e, done, told) = done
           /\ told # {} => StatusThen(e, Moved(e, done, told)) \in told
  <1> DEFINE now == StatusThen(e, done)
             new == CHOOSE s \in told : s # now
             move == [from |-> now, to |-> new]
             after == Moved(e, done, told)
  <1>1. now \in OosStatuses /\ done \in Seq(Moves)
    BY ChainEnds DEF Chain
  <1>2. CASE told \subseteq {now}
    <2>1. after = done
      BY <1>2 DEF Moved
    <2> QED
      BY <1>2, <2>1
  <1>3. CASE ~(told \subseteq {now})
    <2>1. new \in told /\ new # now
      BY <1>3
    <2>2. after = Append(done, move)
      BY <1>3 DEF Moved
    <2>3. move \in Moves /\ move.from = now /\ move.to = new /\ move.from # move.to
      BY <1>1, <2>1 DEF Moves
    <2> HIDE DEF move
    <2>4. /\ after \in Seq(Moves) /\ Len(after) = Len(done) + 1
          /\ after[Len(done) + 1] = move /\ Len(done) \in Nat
          /\ \A k \in 1 .. Len(done) : after[k] = done[k]
          /\ DOMAIN after = 1 .. Len(done) + 1
      BY <1>1, <2>2, <2>3
    <2>5. StatusThen(e, after) = new
      <3>1. after # <<>> /\ Last(after) = move
        BY <2>4 DEF Last
      <3> QED
        BY <2>3, <3>1 DEF StatusThen
    <2>6. ASSUME NEW k \in DOMAIN after
          PROVE  /\ after[k].from # after[k].to
                 /\ after[k].from = IF k = 1 THEN watch[e].status ELSE after[k - 1].to
      <3>1. CASE k \in 1 .. Len(done)
        <4>1. after[k] = done[k] /\ (k # 1 => k - 1 \in 1 .. Len(done) /\ after[k - 1] = done[k - 1])
          BY <2>4, <3>1
        <4>2. k \in DOMAIN done
          BY <1>1, <3>1
        <4> QED
          BY <4>1, <4>2 DEF Chain
      <3>2. CASE k = Len(done) + 1
        <4>1. after[k] = move
          BY <2>4, <3>2
        <4>2. CASE done = <<>>
          BY <2>3, <3>2, <4>1, <4>2 DEF StatusThen
        <4>3. CASE done # <<>>
          <5>1. Len(done) \in Nat \ {0} /\ now = done[Len(done)].to
            BY <4>3, ChainEnds
          <5>2. k # 1 /\ k - 1 = Len(done) /\ after[k - 1] = done[k - 1]
            BY <2>4, <3>2, <5>1
          <5> QED
            BY <2>3, <4>1, <5>1, <5>2
        <4> QED
          BY <4>2, <4>3
      <3> QED
        BY <2>4, <3>1, <3>2
    <2> HIDE DEF after, new, now
    <2>7. Chain(watch[e].status, after)
      BY <2>4, <2>6 DEF Chain
    <2>8. Moved(e, done, told) = after
      BY DEF after
    <2> QED
      BY <2>1, <2>5, <2>7, <2>8
  <1> QED
    BY <1>2, <1>3

\* The changes of a chunk are a chain; when all that the entry is told is the
\* same status, it ends there, and untold it ends where it was.
LEMMA MovesAreAChain ==
    ASSUME NEW w \in Workers, NEW e \in Entries, watch[e].status \in OosStatuses,
           Len(file[MyJob(w)]) \in Nat,
           DOMAIN file[MyJob(w)] = 1 .. Len(file[MyJob(w)])
    PROVE  /\ Chain(watch[e].status, MovesBy(w, e))
           /\ \A s : (\A k \in DOMAIN file[MyJob(w)] : ToldStatuses(w, e)[k] \subseteq {s}) =>
                /\ \/ watch[e].status = s
                   \/ \E k \in DOMAIN file[MyJob(w)] : ToldStatuses(w, e)[k] # {}
                   => StatusThen(e, MovesBy(w, e)) = s
           /\ (\A k \in DOMAIN file[MyJob(w)] : ToldStatuses(w, e)[k] = {}) =>
                MovesBy(w, e) = <<>>
  <1> DEFINE n == Len(file[MyJob(w)])
             told == ToldStatuses(w, e)
  <1>1. \A k \in 1 .. n : told[k] \in SUBSET OosStatuses
    BY DEF ToldStatuses, StatusAfter, OosStatuses
  <1>2. PICK f : IsRun(f, n, e, told) /\ MovesBy(w, e) = f[n]
    BY MovesAreARun
  <1> HIDE DEF n, told
  <1>3. n \in Nat /\ DOMAIN file[MyJob(w)] = 1 .. n
    BY DEF n
  <1>4. \A k \in 0 .. n : f[k] = IF k = 0 THEN <<>> ELSE Moved(e, f[k - 1], told[k])
    BY <1>2 DEF IsRun
  <1> DEFINE Alike(s) == \A k \in 1 .. n : told[k] \subseteq {s}
             Good(k) == /\ Chain(watch[e].status, f[k])
                        /\ \A s : Alike(s) =>
                              \/ StatusThen(e, f[k]) = s
                              \/ /\ StatusThen(e, f[k]) = watch[e].status
                                 /\ \A i \in 1 .. k : told[i] = {}
                        /\ (\A i \in 1 .. n : told[i] = {}) => f[k] = <<>>
             Bad == {k \in 0 .. n : ~Good(k)}
  <1>8. \A k \in 0 .. n : k \notin Bad => Good(k)
    <2> HIDE DEF Good
    <2> QED
      OBVIOUS
  <1>5. Bad = {}
    <2>1. SUFFICES ASSUME Bad # {} PROVE FALSE
      OBVIOUS
    <2>2. Bad \in SUBSET Nat
      BY <1>3
    <2>3. PICK m \in Bad : \A k \in Bad : m <= k
      BY <2>1, <2>2, LeastNat
    <2>4. CASE m = 0
      <3>1. f[m] = <<>>
        BY <1>3, <1>4, <2>4
      <3>2. Chain(watch[e].status, <<>>)
        BY DEF Chain
      <3>3. StatusThen(e, <<>>) = watch[e].status
        BY DEF StatusThen
      <3>4. Good(m)
        BY <2>4, <3>1, <3>2, <3>3
      <3> QED
        BY <2>3, <3>4
    <2>5. CASE m # 0
      <3>1. m \in 1 .. n /\ m - 1 \in 0 .. n
        BY <1>3, <2>3, <2>5
      <3>2. m - 1 \notin Bad
        <4> HIDE DEF Good, Bad
        <4> QED
          BY <1>3, <2>3, <3>1
      <3>3. Good(m - 1)
        <4> HIDE DEF Good, Bad
        <4> QED
          BY <1>8, <3>1, <3>2
      <3>4. f[m] = Moved(e, f[m - 1], told[m])
        BY <1>4, <3>1
      <3>5. /\ Chain(watch[e].status, f[m])
            /\ told[m] = {} => f[m] = f[m - 1]
            /\ told[m] # {} => StatusThen(e, f[m]) \in told[m]
        BY <1>1, <3>1, <3>3, <3>4, MovedOnce
      <3>6. ASSUME NEW s, Alike(s)
            PROVE  \/ StatusThen(e, f[m]) = s
                   \/ /\ StatusThen(e, f[m]) = watch[e].status
                      /\ \A i \in 1 .. m : told[i] = {}
        <4>1. told[m] # {} => StatusThen(e, f[m]) = s
          BY <3>1, <3>5, <3>6
        <4>2. \/ StatusThen(e, f[m - 1]) = s
              \/ /\ StatusThen(e, f[m - 1]) = watch[e].status
                 /\ \A i \in 1 .. m - 1 : told[i] = {}
          BY <3>3, <3>6
        <4>3. \A i \in 1 .. m : i = m \/ i \in 1 .. m - 1
          BY <3>1
        <4> QED
          BY <3>5, <4>1, <4>2, <4>3
      <3>7. (\A i \in 1 .. n : told[i] = {}) => f[m] = <<>>
        BY <3>1, <3>3, <3>5
      <3>8. Good(m)
        BY <3>5, <3>6, <3>7
      <3> QED
        BY <2>3, <3>8
    <2> QED
      BY <2>4, <2>5
  <1>6. Good(n)
    <2> HIDE DEF Good, Bad
    <2>1. n \in 0 .. n /\ n \notin Bad
      BY <1>3, <1>5
    <2> QED
      BY <1>8, <2>1
  <1>7. /\ Chain(watch[e].status, MovesBy(w, e))
        /\ \A s : Alike(s) =>
              \/ StatusThen(e, MovesBy(w, e)) = s
              \/ /\ StatusThen(e, MovesBy(w, e)) = watch[e].status
                 /\ \A i \in 1 .. n : told[i] = {}
        /\ (\A i \in 1 .. n : told[i] = {}) => MovesBy(w, e) = <<>>
    BY <1>2, <1>6
  <1> HIDE DEF Good, Bad
  <1> QED
    BY <1>3, <1>7 DEF told

----------------------------------------------------------------------------
(* Types *)

USE BoundsAssumption, ChunkAssumption, VendorsAssumption

LEMMA FileFacts ==
    ASSUME TypeOK, NEW j \in Jobs
    PROVE  /\ file[j] \in Seq(FileRows)
           /\ Len(file[j]) \in Nat /\ DOMAIN file[j] = 1 .. Len(file[j])
           /\ \A k \in DOMAIN file[j] : /\ file[j][k] \in FileRows
                                        /\ file[j][k].line \in Lines
           /\ \A i, k \in DOMAIN file[j] :
                /\ VendorOf[file[j][i].line] = VendorOf[file[j][k].line]
                /\ file[j][i].line = file[j][k].line => i = k
  <1>1. file[j] \in Files \union {<<>>}
    BY DEF TypeOK
  <1>2. file[j] \in Seq(FileRows)
    <2>1. Files \subseteq Seq(FileRows)
      BY FilesAssumption
    <2>2. <<>> \in Seq(FileRows)
      OBVIOUS
    <2> QED
      BY <1>1, <2>1, <2>2
  <1>3. \A k \in DOMAIN file[j] : file[j][k] \in FileRows
    BY <1>2
  <1>4. CASE file[j] = <<>>
    BY <1>2, <1>3, <1>4
  <1>5. CASE file[j] \in Files
    BY <1>2, <1>3, <1>5, FilesAssumption DEF FileRows
  <1> QED
    BY <1>1, <1>4, <1>5

LEMMA WorkerTypes ==
    ASSUME TypeOK, NEW w \in Workers
    PROVE  /\ worker[w] \in WorkerStates
           /\ worker[w].pc \in {"idle", "read", "insert", "commit"}
           /\ worker[w].job \in Jobs \union {0} /\ worker[w].next \in Nat
           /\ worker[w].pending \subseteq Snapshots /\ worker[w].raised \subseteq Events
           /\ worker[w].moves \in [Entries -> Seq(Moves)]
  BY DEF TypeOK, WorkerStates

LEMMA IdleTypes == IdleWorker \in WorkerStates /\ IdleBuyer \in BuyerStates
  BY DEF IdleWorker, WorkerStates, NoMoves, IdleBuyer, BuyerStates, AbsentWatch,
         WatchRows, OosStatuses

LEMMA WorkerSet ==
    ASSUME TypeOK, NEW w \in Workers, NEW new \in WorkerStates,
           worker' = [worker EXCEPT ![w] = new]
    PROVE  /\ worker' \in [Workers -> WorkerStates]
           /\ worker'[w] = new
           /\ \A x \in Workers : x # w => worker'[x] = worker[x]
  BY DEF TypeOK

LEMMA AllPast == Sound => Past(AllSnaps) /\ Past(snap)
  <1> SUFFICES ASSUME Sound PROVE Past(AllSnaps) /\ Past(snap)
    OBVIOUS
  <1>1. \A w \in Workers : worker[w].pending \subseteq Snapshots
    BY WorkerTypes DEF Sound
  <1>2. AllSnaps \subseteq Snapshots
    BY <1>1 DEF Sound, TypeOK, AllSnaps
  <1>3. \E n \in Nat : \A s \in AllSnaps : s.at <= n
    BY DEF Sound, TimesFit
  <1>4. Past(AllSnaps)
    BY <1>2, <1>3 DEF Past
  <1> QED
    BY <1>4, PastKept DEF AllSnaps

LEMMA TransitionKinds ==
    \A x, y : Transition(x, y) \in Kinds \union {"NONE"}
  BY DEF Transition, Kinds

\* The line's previous snapshot.
LEMMA PreviousFacts ==
    ASSUME Sound, NEW l \in Lines
    PROVE  \/ SnapsOf(snap, l) = {} /\ PreviousOf(l) = [job |-> 0, status |-> "NONE"]
           \/ \E t \in SnapsOf(snap, l) :
                /\ t = LatestOf(SnapsOf(snap, l))
                /\ PreviousOf(l) = [job |-> t.job, status |-> t.status]
                /\ t \in Snapshots /\ t.job \in Jobs /\ t.job # 0 /\ t.status \in Statuses
                /\ t.line = l
  <1>1. CASE SnapsOf(snap, l) = {}
    BY <1>1 DEF PreviousOf
  <1>2. CASE SnapsOf(snap, l) # {}
    <2>1. Past(SnapsOf(snap, l))
      BY AllPast, PastKept DEF SnapsOf
    <2>2. PICK t \in SnapsOf(snap, l) : t = LatestOf(SnapsOf(snap, l))
      BY <1>2, <2>1, LatestFacts
    <2>3. t \in Snapshots /\ t.line = l
      BY <2>1 DEF Past, SnapsOf
    <2>4. PreviousOf(l) = [job |-> t.job, status |-> t.status]
      BY <1>2, <2>2 DEF PreviousOf
    <2>5. t.job \in Jobs /\ t.job # 0 /\ t.status \in Statuses
      BY <2>3 DEF Snapshots, Jobs
    <2> QED
      BY <2>2, <2>3, <2>4, <2>5
  <1> QED
    BY <1>1, <1>2

LEMMA RowTypes ==
    ASSUME Sound, NEW j \in Jobs, NEW r \in FileRows
    PROVE  /\ SnapshotOf(j, r) \in Snapshots
           /\ TransitionOf(r) # "NONE" => EventOf(j, r) \in Events
  <1>1. Now \in Nat
    BY AllPast, NowIsLater
  <1>2. r.line \in Lines /\ r.status \in Statuses /\ r.product \in Products \union {None}
    BY DEF FileRows
  <1>3. SnapshotOf(j, r) \in Snapshots
    BY <1>1, <1>2 DEF SnapshotOf, Snapshots
  <1>4. TransitionOf(r) \in Kinds \union {"NONE"}
    BY TransitionKinds DEF TransitionOf
  <1>5. PreviousOf(r.line).job \in Jobs \union {0}
    BY <1>2, PreviousFacts
  <1>6. TransitionOf(r) # "NONE" => EventOf(j, r) \in Events
    BY <1>2, <1>4, <1>5 DEF EventOf, Events
  <1> QED
    BY <1>3, <1>6

LEMMA PrimaryType ==
    \A ev : Primary(ev) \in Entries \union {0}
  <1> TAKE ev
  <1> DEFINE concerned == {e \in Entries : Concerns(e, ev)}
             specific == {e \in concerned : watch[e].vendor # None}
             first(S) == CHOOSE e \in S : \A k \in S : e <= k
  <1>1. concerned # {} => first(concerned) \in Entries
    BY FirstEntry
  <1>2. specific # {} => first(specific) \in Entries
    BY FirstEntry
  <1>3. Primary(ev) = IF concerned = {} THEN 0
                      ELSE IF specific # {} THEN first(specific) ELSE first(concerned)
    BY DEF Primary
  <1> HIDE DEF concerned, specific, first
  <1> QED
    BY <1>1, <1>2, <1>3

----------------------------------------------------------------------------
(* What a step leaves of the rest *)

LEMMA Growth ==
    ASSUME snap \subseteq snap'
    PROVE  /\ \A j, l : Already(j, l) => Already(j, l)'
           /\ \A ev, s : Tells(ev, s) => Tells(ev, s)'
  BY DEF Already, Tells

LEMMA ChunkKept ==
    ASSUME NEW x \in Workers, ChunkFits(x), worker'[x] = worker[x],
           file'[MyJob(x)] = file[MyJob(x)], snap \subseteq snap'
    PROVE  ChunkFits(x)'
  <1>1. /\ MyJob(x)' = MyJob(x) /\ Chunk(x)' = Chunk(x)
        /\ file'[MyJob(x)'] = file[MyJob(x)]
    BY DEF MyJob, Chunk
  <1>2. \A k \in Chunk(x) :
           \/ \E s \in snap' : s.job = MyJob(x) /\ s.line = file[MyJob(x)][k].line
           \/ \E s \in worker[x].pending : s.line = file[MyJob(x)][k].line
    BY DEF ChunkFits, Already
  <1>3. \A s \in worker[x].pending : s.job = MyJob(x) /\ FromFile(s)'
    BY DEF ChunkFits, FromFile
  <1>4. \A ev \in worker[x].raised : \E s \in worker[x].pending : Tells(ev, s)'
    BY Growth DEF ChunkFits
  <1>5. /\ \A s, t \in worker[x].pending : s.line = t.line => s = t
        /\ \A ev, eu \in worker[x].raised : ev.line = eu.line => ev = eu
    BY DEF ChunkFits
  <1> QED
    BY <1>1, <1>2, <1>3, <1>4, <1>5 DEF ChunkFits, Already

LEMMA WalkKept ==
    ASSUME NEW x \in Workers, WalkFits(x), worker'[x] = worker[x],
           Busy(x) => file'[MyJob(x)] = file[MyJob(x)],
           \A j \in Jobs : job[j] # "ABSENT" => job'[j] # "ABSENT",
           snap \subseteq snap'
    PROVE  WalkFits(x)'
  <1>1. MyJob(x)' = MyJob(x) /\ (Busy(x)' <=> Busy(x)) /\ (Holding(x)' <=> Holding(x))
    BY DEF MyJob, Busy, Holding
  <1>2. Holding(x) => Busy(x)
    BY DEF Holding, Busy
  <1>3. Holding(x) => ChunkFits(x)'
    BY <1>2, ChunkKept DEF WalkFits
  <1>4. Busy(x) => \A k \in DOMAIN file[MyJob(x)] :
            k < worker[x].next =>
                \E s \in snap' : s.job = MyJob(x) /\ s.line = file[MyJob(x)][k].line
    BY DEF WalkFits, Already
  <1> QED
    BY <1>1, <1>3, <1>4 DEF WalkFits, Already

\* A worker with nothing in its hands.
LEMMA EmptyHanded ==
    ASSUME NEW w \in Workers,
           worker'[w].pc = "idle" \/ worker'[w].pc = "read",
           worker'[w].pending = {}, worker'[w].raised = {},
           worker'[w].pc = "read" =>
               /\ worker'[w].job \in Jobs /\ job'[worker'[w].job] # "ABSENT"
               /\ \A k \in DOMAIN file'[worker'[w].job] :
                    k < worker'[w].next =>
                        \E s \in snap' : /\ s.job = worker'[w].job
                                         /\ s.line = file'[worker'[w].job][k].line
    PROVE  WalkFits(w)' /\ CommitFits(w)'
  BY DEF WalkFits, CommitFits, Busy, Holding, MyJob, Already

LEMMA TimesKept ==
    ASSUME TimesFit, AllSnaps' \subseteq AllSnaps
    PROVE  TimesFit'
  BY DEF TimesFit

LEMMA Untouched ==
    ASSUME Sound, TypeOK', UNCHANGED <<file, job, snap, event, worker>>
    PROVE  Sound'
  <1>1. JobsFit' /\ SnapsFit' /\ EventsFit'
    BY DEF Sound, JobsFit, SnapsFit, EventsFit, Already, FromFile, Tells, SameKey
  <1>2. TimesFit'
    BY DEF Sound, TimesFit, AllSnaps
  <1>3. \A x \in Workers : WalkFits(x)'
    BY WalkKept DEF Sound
  <1>4. \A x \in Workers : CommitFits(x)'
    BY DEF Sound, CommitFits, SameKey
  <1> QED
    BY <1>1, <1>2, <1>3, <1>4 DEF Sound

\* A worker lets go of what it holds, or of nothing.
LEMMA LetGo ==
    ASSUME Sound, NEW w \in Workers, TypeOK',
           \A x \in Workers : x # w => worker'[x] = worker[x],
           WalkFits(w)', worker'[w].pending = {}, worker'[w].pc # "commit",
           UNCHANGED <<file, snap, event>>,
           \A j \in Jobs : /\ job[j] # "ABSENT" => job'[j] # "ABSENT"
                           /\ job'[j] = "ABSENT" => job[j] = "ABSENT",
           \A j \in Jobs : job'[j] = "DONE" =>
               \A k \in DOMAIN file[j] : Already(j, file[j][k].line)
    PROVE  Sound'
  <1>1. JobsFit'
    BY DEF Sound, JobsFit, Already
  <1>2. SnapsFit' /\ EventsFit'
    BY DEF Sound, SnapsFit, EventsFit, FromFile, Tells, SameKey
  <1>3. AllSnaps' \subseteq AllSnaps
    BY DEF AllSnaps
  <1>4. TimesFit'
    BY <1>3, TimesKept DEF Sound
  <1>5. \A x \in Workers : WalkFits(x)'
    BY WalkKept DEF Sound
  <1>6. \A x \in Workers : CommitFits(x)'
    BY DEF Sound, CommitFits, SameKey
  <1> QED
    BY <1>1, <1>2, <1>4, <1>5, <1>6 DEF Sound

----------------------------------------------------------------------------
(* Every step keeps the tables sound *)

LEMMA ImportSound ==
    ASSUME Sound, NEW j \in Jobs, NEW f \in Files, Import(j, f)
    PROVE  Sound'
  <1>1. /\ job[j] = "ABSENT" /\ file[j] = <<>>
        /\ job' = [job EXCEPT ![j] = "SNAPSHOTTING"] /\ file' = [file EXCEPT ![j] = f]
        /\ UNCHANGED <<snap, event, watch, history, worker, buyer, crashes, discipline>>
    BY DEF Import, Sound, JobsFit
  <1>2. TypeOK'
    BY <1>1 DEF Sound, TypeOK
  <1>3. /\ \A i \in Jobs : i # j => file'[i] = file[i] /\ job'[i] = job[i]
        /\ job'[j] = "SNAPSHOTTING"
    BY <1>1 DEF Sound, TypeOK
  <1>4. JobsFit'
    BY <1>1, <1>3 DEF Sound, JobsFit, Already
  <1>5. \A s : s.job \in Jobs /\ FromFile(s) => FromFile(s)'
    BY <1>1, <1>3 DEF FromFile
  <1>6. \A s \in snap : s.job \in Jobs
    BY DEF Sound, TypeOK, Snapshots
  <1>7. SnapsFit' /\ EventsFit'
    BY <1>1, <1>5, <1>6 DEF Sound, SnapsFit, EventsFit, SameKey, Tells
  <1>8. TimesFit'
    BY <1>1, TimesKept DEF Sound, AllSnaps
  <1>9. ASSUME NEW x \in Workers
        PROVE  WalkFits(x)'
    <2>1. WalkFits(x)
      BY DEF Sound
    <2>2. Busy(x) => file'[MyJob(x)] = file[MyJob(x)]
      BY <1>1, <1>3, <2>1 DEF WalkFits
    <2> QED
      BY <1>1, <1>3, <2>1, <2>2, WalkKept
  <1>10. \A x \in Workers : CommitFits(x)'
    BY <1>1 DEF Sound, CommitFits, SameKey
  <1> QED
    BY <1>2, <1>4, <1>7, <1>8, <1>9, <1>10 DEF Sound

LEMMA StartSound ==
    ASSUME Sound, NEW w \in Workers, NEW j \in Jobs, Start(w, j)
    PROVE  Sound'
  <1> DEFINE new == [IdleWorker EXCEPT !.pc = "read", !.job = j]
  <1>1. /\ worker' = [worker EXCEPT ![w] = new] /\ job[j] = "SNAPSHOTTING"
        /\ UNCHANGED <<file, job, snap, event, watch, history, buyer, crashes, discipline>>
    BY DEF Start, dbVars
  <1>2. new \in WorkerStates
    BY IdleTypes DEF WorkerStates
  <1>3. /\ new.pc = "read" /\ new.job = j /\ new.next = 1
        /\ new.pending = {} /\ new.raised = {}
    BY DEF IdleWorker
  <1> HIDE DEF new
  <1>4. /\ worker' \in [Workers -> WorkerStates] /\ worker'[w] = new
        /\ \A x \in Workers : x # w => worker'[x] = worker[x]
    BY <1>1, <1>2, WorkerSet DEF Sound
  <1>5. TypeOK'
    BY <1>1, <1>4 DEF Sound, TypeOK
  <1>6. \A k \in DOMAIN file[j] : ~(k < 1)
    BY FileFacts DEF Sound
  <1>7. WalkFits(w)'
    BY <1>1, <1>3, <1>4, <1>6, EmptyHanded
  <1>8. \A i \in Jobs : job[i] = "DONE" => \A k \in DOMAIN file[i] : Already(i, file[i][k].line)
    BY DEF Sound, JobsFit
  <1> QED
    BY <1>1, <1>3, <1>4, <1>5, <1>7, <1>8, LetGo

\* A worker that stops, whatever for.
LEMMA StopSound ==
    ASSUME Sound, NEW w \in Workers, worker' = [worker EXCEPT ![w] = IdleWorker],
           UNCHANGED <<file, snap, event, watch, history, buyer, discipline>>,
           crashes' \in 0 .. MaxCrashes,
           job' \in [Jobs -> {"ABSENT", "SNAPSHOTTING", "DONE"}],
           \A j \in Jobs : job'[j] # job[j] => job[j] # "ABSENT" /\ job'[j] = "DONE",
           \A j \in Jobs : job'[j] # job[j] =>
               \A k \in DOMAIN file[j] : Already(j, file[j][k].line)
    PROVE  Sound'
  <1>1. /\ worker' \in [Workers -> WorkerStates] /\ worker'[w] = IdleWorker
        /\ \A x \in Workers : x # w => worker'[x] = worker[x]
    BY IdleTypes, WorkerSet DEF Sound
  <1>2. /\ IdleWorker.pc = "idle" /\ IdleWorker.pending = {} /\ IdleWorker.raised = {}
    BY DEF IdleWorker
  <1>3. TypeOK'
    BY <1>1 DEF Sound, TypeOK
  <1>4. WalkFits(w)'
    BY <1>1, <1>2, EmptyHanded
  <1>5. \A i \in Jobs : job'[i] = "DONE" => \A k \in DOMAIN file[i] : Already(i, file[i][k].line)
    BY DEF Sound, JobsFit
  <1> QED
    BY <1>1, <1>2, <1>3, <1>4, <1>5, LetGo

LEMMA CrashSound ==
    ASSUME Sound, NEW w \in Workers, Crash(w)
    PROVE  Sound'
  <1>1. crashes' \in 0 .. MaxCrashes
    BY DEF Crash, Sound, TypeOK
  <1>2. job' \in [Jobs -> {"ABSENT", "SNAPSHOTTING", "DONE"}]
    BY DEF Crash, dbVars, Sound, TypeOK
  <1> QED
    BY <1>1, <1>2, StopSound DEF Crash, dbVars

LEMMA FinishSound ==
    ASSUME Sound, NEW w \in Workers, Finish(w)
    PROVE  Sound'
  <1>1. /\ WalkFits(w) /\ Busy(w) /\ MyJob(w) \in Jobs /\ job[MyJob(w)] # "ABSENT"
    BY DEF Sound, WalkFits, Busy, Finish
  <1>2. \A k \in DOMAIN file[MyJob(w)] : Already(MyJob(w), file[MyJob(w)][k].line)
    <2>1. \A k \in DOMAIN file[MyJob(w)] : k \in Nat /\ k <= Len(file[MyJob(w)])
      BY <1>1, FileFacts DEF Sound
    <2>2. worker[w].next \in Nat /\ Len(file[MyJob(w)]) \in Nat
      BY <1>1, WorkerTypes, FileFacts DEF Sound
    <2>3. Len(file[MyJob(w)]) < worker[w].next
      BY <2>2 DEF Finish, RowsLeft
    <2> QED
      BY <1>1, <2>1, <2>2, <2>3 DEF WalkFits
  <1>3. job' = [job EXCEPT ![MyJob(w)] = "DONE"] /\ worker' = [worker EXCEPT ![w] = IdleWorker]
    BY DEF Finish
  <1>4. job' \in [Jobs -> {"ABSENT", "SNAPSHOTTING", "DONE"}]
    BY <1>3 DEF Sound, TypeOK
  <1>5. \A j \in Jobs : job'[j] # job[j] => j = MyJob(w) /\ job'[j] = "DONE"
    BY <1>1, <1>3 DEF Sound, TypeOK
  <1>6. crashes' \in 0 .. MaxCrashes
    BY DEF Finish, Sound, TypeOK
  <1> QED
    BY <1>1, <1>2, <1>3, <1>4, <1>5, <1>6, StopSound DEF Finish

LEMMA WatchTypes ==
    /\ AbsentWatch \in WatchRows
    /\ \A p, v : StatusNow(p, v) \in OosStatuses
  BY DEF AbsentWatch, WatchRows, OosStatuses, StatusNow

LEMMA BuyerSound ==
    ASSUME Sound,
           \/ \E b \in Buyers, p \in Products, v \in Vendors \union {None} : AskWatch(b, p, v)
           \/ \E b \in Buyers : AddWatch(b)
           \/ \E e \in Entries : RemoveWatch(e)
    PROVE  Sound' /\ UNCHANGED <<file, job, snap, event, worker, discipline>>
  <1>1. ASSUME NEW b \in Buyers, NEW p \in Products, NEW v \in Vendors \union {None},
               AskWatch(b, p, v)
        PROVE  TypeOK' /\ UNCHANGED <<file, job, snap, event, worker, discipline>>
    <2> DEFINE row == [active |-> TRUE, product |-> p, vendor |-> v, status |-> StatusNow(p, v)]
    <2>1. row \in WatchRows
      BY WatchTypes DEF WatchRows
    <2>2. buyer' = [buyer EXCEPT ![b] = [pc |-> "insert", entry |-> row]]
      BY <1>1 DEF AskWatch
    <2>3. UNCHANGED <<file, job, snap, event, watch, history, worker, crashes, discipline>>
      BY <1>1 DEF AskWatch, dbVars
    <2> HIDE DEF row
    <2>4. [pc |-> "insert", entry |-> row] \in BuyerStates
      BY <2>1 DEF BuyerStates
    <2>5. buyer' \in [Buyers -> BuyerStates]
      BY <2>2, <2>4 DEF Sound, TypeOK
    <2> QED
      BY <2>3, <2>5 DEF Sound, TypeOK
  <1>2. ASSUME NEW b \in Buyers, AddWatch(b)
        PROVE  TypeOK' /\ UNCHANGED <<file, job, snap, event, worker, discipline>>
    <2>1. buyer' \in [Buyers -> BuyerStates]
      BY <1>2, IdleTypes DEF AddWatch, Sound, TypeOK
    <2>2. buyer[b].entry \in WatchRows
      BY DEF Sound, TypeOK, BuyerStates
    <2>3. FreeEntries # {} => (CHOOSE e \in FreeEntries : \A k \in FreeEntries : e <= k) \in Entries
      BY FirstEntry DEF FreeEntries
    <2>4. watch' \in [Entries -> WatchRows]
      BY <1>2, <2>2, <2>3 DEF AddWatch, Sound, TypeOK
    <2>5. UNCHANGED <<file, job, snap, event, history, worker, crashes, discipline>>
      BY <1>2 DEF AddWatch
    <2> QED
      BY <2>1, <2>4, <2>5 DEF Sound, TypeOK
  <1>3. ASSUME NEW e \in Entries, RemoveWatch(e)
        PROVE  TypeOK' /\ UNCHANGED <<file, job, snap, event, worker, discipline>>
    <2>1. watch' = [watch EXCEPT ![e].active = FALSE]
      BY <1>3 DEF RemoveWatch
    <2>2. watch' \in [Entries -> WatchRows]
      BY <2>1 DEF Sound, TypeOK, WatchRows
    <2>3. UNCHANGED <<file, job, snap, event, history, worker, buyer, crashes, discipline>>
      BY <1>3 DEF RemoveWatch
    <2> QED
      BY <2>2, <2>3 DEF Sound, TypeOK
  <1> QED
    BY <1>1, <1>2, <1>3, Untouched

\* The rows of a chunk that nobody has observed, each with its place.
LEMMA ChunkRowsFacts ==
    ASSUME Sound, NEW w \in Workers, Busy(w)
    PROVE  /\ MyJob(w) \in Jobs /\ job[MyJob(w)] # "ABSENT"
           /\ \A r \in Unobserved(w) :
                /\ r \in FileRows /\ r.line \in Lines
                /\ \E k \in DOMAIN file[MyJob(w)] : r = file[MyJob(w)][k]
           /\ \A r, q \in Unobserved(w) : r.line = q.line => r = q
           /\ \A k \in DOMAIN file[MyJob(w)] :
                k < worker[w].next + ChunkRows =>
                    \/ Already(MyJob(w), file[MyJob(w)][k].line)
                    \/ k \in Chunk(w) /\ file[MyJob(w)][k] \in Unobserved(w)
  <1>1. MyJob(w) \in Jobs /\ job[MyJob(w)] # "ABSENT" /\ WalkFits(w)
    BY DEF Sound, WalkFits
  <1>2. /\ \A r \in Unobserved(w) : \E k \in DOMAIN file[MyJob(w)] : r = file[MyJob(w)][k]
        /\ \A k \in Chunk(w) : k \in DOMAIN file[MyJob(w)]
    BY DEF Unobserved, Chunk
  <1>3. \A r \in Unobserved(w) : r \in FileRows /\ r.line \in Lines
    BY <1>1, <1>2, FileFacts DEF Sound
  <1>4. \A r, q \in Unobserved(w) : r.line = q.line => r = q
    BY <1>1, <1>2, FileFacts DEF Sound
  <1>5. ASSUME NEW k \in DOMAIN file[MyJob(w)], k < worker[w].next + ChunkRows,
               ~Already(MyJob(w), file[MyJob(w)][k].line)
        PROVE  k \in Chunk(w) /\ file[MyJob(w)][k] \in Unobserved(w)
    <2>1. k \in Nat /\ worker[w].next \in Nat
      BY <1>1, FileFacts, WorkerTypes DEF Sound
    <2>2. worker[w].next <= k
      BY <1>1, <1>5, <2>1 DEF WalkFits
    <2>3. k \in Chunk(w)
      BY <1>5, <2>2 DEF Chunk
    <2> QED
      BY <1>5, <2>3 DEF Unobserved
  <1> QED
    BY <1>1, <1>2, <1>3, <1>4, <1>5

LEMMA SkipSound ==
    ASSUME Sound, NEW w \in Workers, Build(w), Unobserved(w) = {}
    PROVE  Sound'
  <1> DEFINE new == [worker[w] EXCEPT !.next = worker[w].next + ChunkRows]
  <1>1. /\ worker' = [worker EXCEPT ![w] = new] /\ worker[w].pc = "read"
        /\ UNCHANGED <<file, job, snap, event, watch, history, buyer, crashes, discipline>>
    BY DEF Build, dbVars
  <1>2. worker[w] \in WorkerStates /\ worker[w].next \in Nat
    BY WorkerTypes DEF Sound
  <1>3. new \in WorkerStates /\ new.next = worker[w].next + ChunkRows
        /\ new.pc = "read" /\ new.job = MyJob(w)
        /\ new.pending = worker[w].pending /\ new.raised = worker[w].raised
    <2>1. worker[w].next + ChunkRows \in Nat /\ worker[w].pc = "read"
      BY <1>1, <1>2
    <2> QED
      BY <1>2, <2>1 DEF WorkerStates, MyJob
  <1> HIDE DEF new
  <1>4. /\ worker' \in [Workers -> WorkerStates] /\ worker'[w] = new
        /\ \A x \in Workers : x # w => worker'[x] = worker[x]
    BY <1>1, <1>3, WorkerSet DEF Sound
  <1>5. TypeOK'
    BY <1>1, <1>4 DEF Sound, TypeOK
  <1>6. Busy(w) /\ ~Holding(w)
    BY <1>1 DEF Busy, Holding
  <1>7. worker[w].pending = {} /\ worker[w].raised = {}
    BY <1>6 DEF Sound, WalkFits
  <1>8. \A k \in DOMAIN file[MyJob(w)] :
          k < new.next => Already(MyJob(w), file[MyJob(w)][k].line)
    BY <1>3, <1>6, ChunkRowsFacts
  <1>9. WalkFits(w)'
    <2>1. MyJob(w) \in Jobs /\ job[MyJob(w)] # "ABSENT"
      BY <1>6, ChunkRowsFacts
    <2> QED
      BY <1>1, <1>3, <1>4, <1>7, <1>8, <2>1, EmptyHanded DEF Already
  <1>10. \A i \in Jobs : job[i] = "DONE" => \A k \in DOMAIN file[i] : Already(i, file[i][k].line)
    BY DEF Sound, JobsFit
  <1> QED
    BY <1>1, <1>3, <1>4, <1>5, <1>7, <1>9, <1>10, LetGo

LEMMA TellsOfRow ==
    ASSUME Sound, NEW j \in Jobs, NEW r \in FileRows, TransitionOf(r) # "NONE"
    PROVE  Tells(EventOf(j, r), SnapshotOf(j, r))
  <1> DEFINE ev == EventOf(j, r)
             s == SnapshotOf(j, r)
  <1>1. /\ s.line = r.line /\ s.job = j /\ s.product = r.product /\ s.status = r.status
        /\ s.at = Now
    BY DEF SnapshotOf
  <1>2. /\ ev.line = r.line /\ ev.to = j /\ ev.product = r.product
        /\ ev.kind = TransitionOf(r) /\ ev.from = PreviousOf(r.line).job
    BY DEF EventOf
  <1>3. r.line \in Lines /\ r.status \in Statuses
    BY DEF FileRows
  <1>4. r.status \in IF TransitionOf(r) = "BECAME_AVAILABLE" THEN {"AVAILABLE"} ELSE Unavailable
    BY <1>3 DEF TransitionOf, Transition, Statuses, Unavailable
  <1>5. ASSUME ev.from # 0
        PROVE  \E t \in snap : /\ t.line = ev.line /\ t.job = ev.from /\ t.at < s.at
                               /\ (t.status = "AVAILABLE") # (s.status = "AVAILABLE")
    <2>1. PICK t \in SnapsOf(snap, r.line) :
             /\ PreviousOf(r.line) = [job |-> t.job, status |-> t.status]
             /\ t.line = r.line
      BY <1>2, <1>3, <1>5, PreviousFacts
    <2>2. t \in snap /\ t \in AllSnaps
      BY <2>1 DEF SnapsOf, AllSnaps
    <2>3. t.at < Now
      BY <2>2, AllPast, NowIsLater
    <2>4. PreviousOf(r.line).status = t.status /\ PreviousOf(r.line).job = t.job
      BY <2>1
    <2>5. (t.status = "AVAILABLE") # (r.status = "AVAILABLE")
      BY <2>4 DEF TransitionOf, Transition, Unavailable
    <2> QED
      BY <1>1, <1>2, <2>1, <2>2, <2>3, <2>4, <2>5
  <1> HIDE DEF ev, s
  <1>6. Tells(ev, s)
    BY <1>1, <1>2, <1>4, <1>5 DEF Tells
  <1> QED
    BY <1>6 DEF ev, s

LEMMA BuildSound ==
    ASSUME Sound, NEW w \in Workers, Build(w)
    PROVE  Sound'
  <1> DEFINE j == MyJob(w)
             rows == Unobserved(w)
             news == {SnapshotOf(j, r) : r \in rows}
             evs == {EventOf(j, r) : r \in {x \in rows : TransitionOf(x) # "NONE"}}
             new == [worker[w] EXCEPT !.pc = "insert", !.pending = news, !.raised = evs]
  <1>1. CASE rows = {}
    BY <1>1, SkipSound
  <1>2. CASE rows # {}
    <2>1. /\ worker' = [worker EXCEPT ![w] = new] /\ worker[w].pc = "read"
          /\ UNCHANGED <<file, job, snap, event, watch, history, buyer, crashes, discipline>>
      BY <1>2 DEF Build, dbVars
    <2>2. Busy(w) /\ ~Holding(w) /\ worker[w].pending = {} /\ WalkFits(w)
      BY <2>1 DEF Sound, WalkFits, Busy, Holding
    <2>3. /\ j \in Jobs /\ job[j] # "ABSENT"
          /\ \A r \in rows : /\ r \in FileRows /\ r.line \in Lines
                             /\ \E k \in DOMAIN file[j] : r = file[j][k]
          /\ \A r, q \in rows : r.line = q.line => r = q
          /\ \A k \in Chunk(w) : Already(j, file[j][k].line) \/ file[j][k] \in rows
      <3>1. \A k \in Chunk(w) : k \in DOMAIN file[j] /\ k < worker[w].next + ChunkRows
        BY DEF Chunk
      <3> HIDE DEF rows
      <3> QED
        BY <2>2, <3>1, ChunkRowsFacts DEF rows
    <2>4. news \subseteq Snapshots /\ evs \subseteq Events
      BY <2>3, RowTypes
    <2>5. /\ \A r \in rows : SnapshotOf(j, r) \in news
          /\ \A s \in news : \E r \in rows : s = SnapshotOf(j, r)
          /\ \A ev \in evs : \E r \in rows : TransitionOf(r) # "NONE" /\ ev = EventOf(j, r)
      OBVIOUS
    <2> HIDE DEF rows, news, evs
    <2>6. /\ new \in WorkerStates /\ new.pc = "insert" /\ new.job = j
          /\ new.next = worker[w].next /\ new.pending = news /\ new.raised = evs
      <3>1. worker[w] \in WorkerStates
        BY WorkerTypes DEF Sound
      <3> QED
        BY <2>4, <3>1 DEF WorkerStates, MyJob
    <2> HIDE DEF new
    <2>7. /\ worker' \in [Workers -> WorkerStates] /\ worker'[w] = new
          /\ \A x \in Workers : x # w => worker'[x] = worker[x]
      BY <2>1, <2>6, WorkerSet DEF Sound
    <2>8. TypeOK'
      BY <2>1, <2>7 DEF Sound, TypeOK
    <2>9. /\ \A s \in news : s.job = j /\ s.at = Now /\ FromFile(s)
          /\ \A s, t \in news : s.line = t.line => s = t
          /\ \A ev \in evs : \E s \in news : Tells(ev, s)
          /\ \A ev, eu \in evs : ev.line = eu.line => ev = eu
      <3>1. \A r \in rows : /\ SnapshotOf(j, r).job = j /\ SnapshotOf(j, r).at = Now
                            /\ SnapshotOf(j, r).line = r.line
                            /\ FromFile(SnapshotOf(j, r))
        BY <2>3 DEF SnapshotOf, FromFile
      <3>2. \A r \in rows : TransitionOf(r) # "NONE" =>
                /\ Tells(EventOf(j, r), SnapshotOf(j, r)) /\ EventOf(j, r).line = r.line
        BY <2>3, TellsOfRow DEF EventOf
      <3>3. \A s \in news : s.job = j /\ s.at = Now /\ FromFile(s)
        BY <2>5, <3>1
      <3>4. \A s, t \in news : s.line = t.line => s = t
        BY <2>3, <2>5, <3>1
      <3>5. \A ev \in evs : \E s \in news : Tells(ev, s)
        BY <2>5, <3>2
      <3>6. \A ev, eu \in evs : ev.line = eu.line => ev = eu
        BY <2>3, <2>5, <3>2
      <3> QED
        BY <3>3, <3>4, <3>5, <3>6
    <2>10. TimesFit'
      <3>1. \A s \in AllSnaps' : s \in AllSnaps \/ s \in news
        BY <2>1, <2>6, <2>7 DEF AllSnaps
      <3>2. Now \in Nat /\ \A s \in AllSnaps : s.at < Now
        BY AllPast, NowIsLater
      <3>3. \A s \in AllSnaps : s.at \in Nat
        BY AllPast DEF Past, Snapshots
      <3>4. PICK n \in {Now} : n \in Nat
        BY <3>2
      <3>5. \A s \in AllSnaps' : s.at <= n
        BY <2>9, <3>1, <3>2, <3>3, <3>4
      <3>6. \A s, t \in AllSnaps' : s.line = t.line /\ s.at = t.at => s = t
        BY <2>9, <3>1, <3>2, <3>3 DEF Sound, TimesFit
      <3> QED
        BY <3>4, <3>5, <3>6 DEF TimesFit
    <2>11. JobsFit' /\ SnapsFit' /\ EventsFit'
      BY <2>1 DEF Sound, JobsFit, SnapsFit, EventsFit, Already, FromFile, Tells, SameKey
    <2>12. ChunkFits(w)'
      <3>1. MyJob(w)' = j /\ Chunk(w)' = Chunk(w) /\ file' = file /\ snap' = snap
        BY <2>1, <2>6, <2>7 DEF MyJob, Chunk
      <3>2. \A k \in Chunk(w) : \/ Already(j, file[j][k].line)
                                \/ \E s \in news : s.line = file[j][k].line
        <4>1. \A r \in rows : SnapshotOf(j, r).line = r.line
          BY DEF SnapshotOf
        <4> QED
          BY <2>3, <2>5, <4>1
      <3> QED
        BY <2>6, <2>7, <2>9, <3>1, <3>2 DEF ChunkFits, Already, FromFile, Tells
    <2>13. \A x \in Workers : WalkFits(x)'
      <3>1. ASSUME NEW x \in Workers, x # w PROVE WalkFits(x)'
        BY <2>1, <2>7, <3>1, WalkKept DEF Sound
      <3>2. WalkFits(w)'
        <4>1. MyJob(w)' = j /\ Holding(w)'
          BY <2>6, <2>7 DEF MyJob, Holding
        <4> QED
          BY <2>1, <2>2, <2>3, <2>6, <2>7, <2>12, <4>1 DEF WalkFits, Already
      <3> QED
        BY <3>1, <3>2
    <2>14. \A x \in Workers : CommitFits(x)'
      BY <2>1, <2>6, <2>7 DEF Sound, CommitFits, SameKey
    <2> QED
      BY <2>8, <2>10, <2>11, <2>13, <2>14 DEF Sound
  <1> QED
    BY <1>1, <1>2

Clash(w) == \E s \in worker[w].pending, t \in snap : SameKey(s, t)
Linked(w) == {[ev EXCEPT !.watch = Primary(ev)] : ev \in worker[w].raised}
Decided(w) == [worker[w] EXCEPT !.pc = "commit", !.raised = Linked(w),
                                !.moves = [e \in Entries |-> MovesBy(w, e)]]

LEMMA LinkedFacts ==
    ASSUME Sound, NEW w \in Workers
    PROVE  /\ Linked(w) \subseteq Events
           /\ \A ev \in worker[w].raised : [ev EXCEPT !.watch = Primary(ev)] \in Linked(w)
           /\ \A eu \in Linked(w) : \E ev \in worker[w].raised :
                /\ eu = [ev EXCEPT !.watch = Primary(ev)]
                /\ eu.line = ev.line /\ eu.to = ev.to /\ eu.product = ev.product
                /\ eu.kind = ev.kind /\ eu.from = ev.from
  <1>1. worker[w].raised \subseteq Events
    BY WorkerTypes DEF Sound
  <1>2. ASSUME NEW ev \in Events, NEW n \in Entries \union {0}
        PROVE  /\ [ev EXCEPT !.watch = n] \in Events
               /\ [ev EXCEPT !.watch = n].line = ev.line
               /\ [ev EXCEPT !.watch = n].to = ev.to
               /\ [ev EXCEPT !.watch = n].product = ev.product
               /\ [ev EXCEPT !.watch = n].kind = ev.kind
               /\ [ev EXCEPT !.watch = n].from = ev.from
    BY DEF Events
  <1> DEFINE to(ev) == [ev EXCEPT !.watch = Primary(ev)]
  <1>3. ASSUME NEW ev \in worker[w].raised
        PROVE  /\ to(ev) \in Events
               /\ to(ev).line = ev.line /\ to(ev).to = ev.to
               /\ to(ev).product = ev.product
               /\ to(ev).kind = ev.kind /\ to(ev).from = ev.from
    <2>1. ev \in Events /\ Primary(ev) \in Entries \union {0}
      BY <1>1, PrimaryType
    <2>2. PICK n \in Entries \union {0} : n = Primary(ev)
      BY <2>1
    <2> QED
      BY <1>2, <2>1, <2>2
  <1>4. Linked(w) = {to(ev) : ev \in worker[w].raised}
    BY DEF Linked
  <1> HIDE DEF to
  <1>5. /\ Linked(w) \subseteq Events
        /\ \A ev \in worker[w].raised : to(ev) \in Linked(w)
        /\ \A eu \in Linked(w) : \E ev \in worker[w].raised :
             /\ eu = to(ev)
             /\ eu.line = ev.line /\ eu.to = ev.to /\ eu.product = ev.product
             /\ eu.kind = ev.kind /\ eu.from = ev.from
    BY <1>3, <1>4
  <1> QED
    BY <1>5 DEF to

LEMMA DecidedFacts ==
    ASSUME Sound, NEW w \in Workers, Busy(w)
    PROVE  /\ Decided(w) \in WorkerStates
           /\ Decided(w).pc = "commit" /\ Decided(w).job = worker[w].job
           /\ Decided(w).next = worker[w].next /\ Decided(w).pending = worker[w].pending
           /\ Decided(w).raised = Linked(w)
           /\ Decided(w).moves = [e \in Entries |-> MovesBy(w, e)]
  <1>1. \A e \in Entries : MovesBy(w, e) \in Seq(Moves)
    <2>1. MyJob(w) \in Jobs
      BY ChunkRowsFacts
    <2>2. Len(file[MyJob(w)]) \in Nat /\ DOMAIN file[MyJob(w)] = 1 .. Len(file[MyJob(w)])
      BY <2>1, FileFacts DEF Sound
    <2>3. \A e \in Entries : watch[e].status \in OosStatuses
      BY DEF Sound, TypeOK, WatchRows
    <2> QED
      BY <2>2, <2>3, MovesAreAChain DEF Chain
  <1>2. [e \in Entries |-> MovesBy(w, e)] \in [Entries -> Seq(Moves)]
    BY <1>1
  <1>3. Linked(w) \in SUBSET Events
    BY LinkedFacts
  <1>4. worker[w] \in WorkerStates
    BY WorkerTypes DEF Sound
  <1> DEFINE moves == [e \in Entries |-> MovesBy(w, e)]
             raised == Linked(w)
  <1> HIDE DEF moves, raised
  <1>5. moves \in [Entries -> Seq(Moves)] /\ raised \in SUBSET Events
    BY <1>2, <1>3 DEF moves, raised
  <1>6. Decided(w) = [worker[w] EXCEPT !.pc = "commit", !.raised = raised, !.moves = moves]
    BY DEF Decided, raised, moves
  <1>7. /\ Decided(w) \in WorkerStates
        /\ Decided(w).pc = "commit" /\ Decided(w).job = worker[w].job
        /\ Decided(w).next = worker[w].next /\ Decided(w).pending = worker[w].pending
        /\ Decided(w).raised = raised /\ Decided(w).moves = moves
    BY <1>4, <1>5, <1>6 DEF WorkerStates
  <1> QED
    BY <1>7 DEF raised, moves

LEMMA InsertSteps ==
    ASSUME NEW w \in Workers, Insert(w)
    PROVE  /\ worker[w].pc = "insert"
           /\ UNCHANGED <<file, job, snap, event, watch, history, buyer, crashes, discipline>>
           /\ Clash(w) => worker' = [worker EXCEPT ![w] = IdleWorker]
           /\ ~Clash(w) => worker' = [worker EXCEPT ![w] = Decided(w)]
  BY DEF Insert, dbVars, Clash, Decided, Linked

LEMMA InsertSound ==
    ASSUME Sound, NEW w \in Workers, Insert(w)
    PROVE  Sound'
  <1>1. /\ worker[w].pc = "insert"
        /\ UNCHANGED <<file, job, snap, event, watch, history, buyer, crashes, discipline>>
    BY InsertSteps
  <1>2. CASE Clash(w)
    <2>1. worker' = [worker EXCEPT ![w] = IdleWorker]
      BY <1>2, InsertSteps
    <2>2. crashes' \in 0 .. MaxCrashes /\ job' \in [Jobs -> {"ABSENT", "SNAPSHOTTING", "DONE"}]
      BY <1>1 DEF Sound, TypeOK
    <2> QED
      BY <1>1, <2>1, <2>2, StopSound
  <1>3. CASE ~Clash(w)
    <2>1. Busy(w) /\ Holding(w)
      BY <1>1 DEF Busy, Holding
    <2>2. /\ worker' \in [Workers -> WorkerStates] /\ worker'[w] = Decided(w)
          /\ \A x \in Workers : x # w => worker'[x] = worker[x]
      <3>1. worker' = [worker EXCEPT ![w] = Decided(w)]
        BY <1>3, InsertSteps
      <3> QED
        BY <2>1, <3>1, DecidedFacts, WorkerSet DEF Sound
    <2>3. /\ worker'[w].pc = "commit" /\ worker'[w].job = worker[w].job
          /\ worker'[w].next = worker[w].next /\ worker'[w].pending = worker[w].pending
          /\ worker'[w].raised = Linked(w)
      BY <2>1, <2>2, DecidedFacts
    <2>4. TypeOK'
      BY <1>1, <2>2 DEF Sound, TypeOK
    <2>5. JobsFit' /\ SnapsFit' /\ EventsFit'
      BY <1>1 DEF Sound, JobsFit, SnapsFit, EventsFit, Already, FromFile, Tells, SameKey
    <2>6. AllSnaps' \subseteq AllSnaps
      BY <1>1, <2>2, <2>3 DEF AllSnaps
    <2>7. TimesFit'
      BY <2>6, TimesKept DEF Sound
    <2>8. WalkFits(w) /\ ChunkFits(w)
      BY <2>1 DEF Sound, WalkFits
    <2>9. ChunkFits(w)'
      <3>1. MyJob(w)' = MyJob(w) /\ Chunk(w)' = Chunk(w)
        BY <1>1, <2>3 DEF MyJob, Chunk
      <3>2. \A eu \in Linked(w) : \E s \in worker[w].pending : Tells(eu, s)
        BY <2>8, LinkedFacts DEF ChunkFits, Tells
      <3>3. \A ev, eu \in Linked(w) : ev.line = eu.line => ev = eu
        BY <2>8, LinkedFacts DEF ChunkFits
      <3> QED
        BY <1>1, <2>3, <2>8, <3>1, <3>2, <3>3 DEF ChunkFits, Already, FromFile, Tells
    <2>10. \A x \in Workers : WalkFits(x)'
      <3>1. ASSUME NEW x \in Workers, x # w PROVE WalkFits(x)'
        BY <1>1, <2>2, <3>1, WalkKept DEF Sound
      <3>2. WalkFits(w)'
        <4>1. MyJob(w)' = MyJob(w) /\ Holding(w)'
          BY <2>3 DEF MyJob, Holding
        <4> QED
          BY <1>1, <2>1, <2>3, <2>8, <2>9, <4>1 DEF WalkFits, Already
      <3> QED
        BY <3>1, <3>2
    <2>11. \A x \in Workers : x # w /\ worker[x].pc = "commit" =>
              \A s \in worker[w].pending, t \in worker[x].pending : ~SameKey(s, t)
      BY DEF Insert
    <2>12. \A s \in worker[w].pending, t \in snap : ~SameKey(s, t)
      BY <1>3 DEF Clash
    <2>13. \A x \in Workers : CommitFits(x)'
      <3>1. CommitFits(w)'
        BY <1>1, <2>2, <2>3, <2>11, <2>12 DEF CommitFits, SameKey
      <3>2. ASSUME NEW x \in Workers, x # w PROVE CommitFits(x)'
        <4>1. CommitFits(x) /\ worker'[x] = worker[x]
          BY <2>2, <3>2 DEF Sound
        <4> QED
          BY <1>1, <2>2, <2>3, <2>11, <3>2, <4>1 DEF CommitFits, SameKey
      <3> QED
        BY <3>1, <3>2
    <2> QED
      BY <2>4, <2>5, <2>7, <2>10, <2>13 DEF Sound
  <1> QED
    BY <1>2, <1>3

LEMMA CommitSteps ==
    ASSUME Sound, NEW w \in Workers, Commit(w)
    PROVE  /\ worker[w].pc = "commit" /\ Busy(w) /\ Holding(w)
           /\ snap' = snap \union worker[w].pending
           /\ event' = event \union worker[w].raised
           /\ watch' \in [Entries -> WatchRows]
           /\ history' \in [Entries -> Seq(Moves)]
           /\ \A e \in Entries : /\ watch'[e] = [watch[e] EXCEPT !.status =
                                                    StatusThen(e, worker[w].moves[e])]
                                 /\ history'[e] = history[e] \o worker[w].moves[e]
           /\ worker' \in [Workers -> WorkerStates]
           /\ \A x \in Workers : x # w => worker'[x] = worker[x]
           /\ worker'[w].pc = "read" /\ worker'[w].job = MyJob(w)
           /\ worker'[w].next = worker[w].next + ChunkRows
           /\ worker'[w].pending = {} /\ worker'[w].raised = {}
           /\ UNCHANGED <<file, job, buyer, crashes, discipline>>
  <1> DEFINE new == [IdleWorker EXCEPT !.pc = "read", !.job = MyJob(w),
                                       !.next = worker[w].next + ChunkRows]
             moves == worker[w].moves
  <1>1. /\ worker[w].pc = "commit" /\ Busy(w) /\ Holding(w)
        /\ snap' = snap \union worker[w].pending
        /\ event' = event \union worker[w].raised
        /\ UNCHANGED <<file, job, buyer, crashes, discipline>>
    BY DEF Commit, Busy, Holding
  <1>2. moves \in [Entries -> Seq(Moves)]
    BY WorkerTypes DEF Sound
  <1>3. worker' = [worker EXCEPT ![w] = new]
    BY DEF Commit
  <1>4. watch' = [e \in Entries |-> IF moves[e] = <<>> THEN watch[e]
                       ELSE [watch[e] EXCEPT !.status = Last(moves[e]).to]]
    BY DEF Commit
  <1>5. history' = [e \in Entries |-> history[e] \o moves[e]]
    BY DEF Commit
  <1>6. new \in WorkerStates /\ new.pc = "read" /\ new.job = MyJob(w)
        /\ new.next = worker[w].next + ChunkRows /\ new.pending = {} /\ new.raised = {}
    <2>1. worker[w].next + ChunkRows \in Nat /\ MyJob(w) \in Jobs
      BY <1>1, WorkerTypes, ChunkRowsFacts DEF Sound
    <2> QED
      BY <2>1, IdleTypes DEF WorkerStates, IdleWorker
  <1> HIDE DEF new, moves
  <1>7. /\ worker' \in [Workers -> WorkerStates] /\ worker'[w] = new
        /\ \A x \in Workers : x # w => worker'[x] = worker[x]
    BY <1>3, <1>6, WorkerSet DEF Sound
  <1>8. \A e \in Entries : moves[e] \in Seq(Moves) /\ history[e] \in Seq(Moves)
                           /\ watch[e] \in WatchRows
    BY <1>2 DEF Sound, TypeOK
  <1>9. \A e \in Entries : /\ watch'[e] = [watch[e] EXCEPT !.status = StatusThen(e, moves[e])]
                           /\ watch'[e] \in WatchRows
    <2> TAKE e \in Entries
    <2>1. CASE moves[e] = <<>>
      <3>1. watch'[e] = watch[e] /\ StatusThen(e, moves[e]) = watch[e].status
        BY <1>4, <2>1 DEF StatusThen
      <3>2. [watch[e] EXCEPT !.status = watch[e].status] = watch[e]
        BY <1>8 DEF WatchRows
      <3> QED
        BY <1>8, <3>1, <3>2
    <2>2. CASE moves[e] # <<>>
      <3>1. Len(moves[e]) \in DOMAIN moves[e] /\ moves[e][Len(moves[e])] \in Moves
        BY <1>8, <2>2
      <3>2. Last(moves[e]).to \in OosStatuses
        BY <3>1 DEF Last, Moves
      <3>3. watch'[e] = [watch[e] EXCEPT !.status = Last(moves[e]).to]
        BY <1>4, <2>2
      <3>4. StatusThen(e, moves[e]) = Last(moves[e]).to
        BY <2>2 DEF StatusThen
      <3>5. watch[e] \in WatchRows
        BY <1>8
      <3> QED
        BY <3>2, <3>3, <3>4, <3>5 DEF WatchRows
    <2> QED
      BY <2>1, <2>2
  <1>10. watch' \in [Entries -> WatchRows]
    <2>1. \A e \in Entries : watch'[e] \in WatchRows
      BY <1>9
    <2>2. watch' = [e \in Entries |-> watch'[e]]
      BY <1>4
    <2> QED
      BY <2>1, <2>2
  <1>11. history' \in [Entries -> Seq(Moves)] /\ \A e \in Entries : history'[e] = history[e] \o moves[e]
    <2>1. \A e \in Entries : history[e] \o moves[e] \in Seq(Moves)
      BY <1>8
    <2> QED
      BY <1>5, <2>1
  <1> QED
    BY <1>1, <1>6, <1>7, <1>9, <1>10, <1>11 DEF moves

LEMMA CommitSound ==
    ASSUME Sound, NEW w \in Workers, Commit(w)
    PROVE  Sound'
  <1>1. /\ worker[w].pc = "commit" /\ Busy(w) /\ Holding(w)
        /\ snap' = snap \union worker[w].pending
        /\ event' = event \union worker[w].raised
        /\ worker' \in [Workers -> WorkerStates]
        /\ \A x \in Workers : x # w => worker'[x] = worker[x]
        /\ worker'[w].pc = "read" /\ worker'[w].job = MyJob(w)
        /\ worker'[w].next = worker[w].next + ChunkRows
        /\ worker'[w].pending = {} /\ worker'[w].raised = {}
        /\ UNCHANGED <<file, job, buyer, crashes, discipline>>
    BY CommitSteps
  <1>2. watch' \in [Entries -> WatchRows] /\ history' \in [Entries -> Seq(Moves)]
    BY CommitSteps
  <1>3. WalkFits(w) /\ ChunkFits(w) /\ CommitFits(w)
    BY <1>1 DEF Sound, WalkFits
  <1>4. TypeOK'
    <2>1. worker[w].pending \subseteq Snapshots /\ worker[w].raised \subseteq Events
      BY WorkerTypes DEF Sound
    <2> QED
      BY <1>1, <1>2, <2>1 DEF Sound, TypeOK
  <1>5. JobsFit'
    BY <1>1 DEF Sound, JobsFit, Already
  <1>6. SnapsFit'
    <2>1. \A s \in snap' : FromFile(s)'
      BY <1>1, <1>3 DEF Sound, SnapsFit, ChunkFits, FromFile
    <2>2. \A s, t \in worker[w].pending : SameKey(s, t) => s = t
      BY <1>3 DEF ChunkFits, SameKey
    <2>3. \A s \in worker[w].pending, t \in snap : ~SameKey(s, t) /\ ~SameKey(t, s)
      BY <1>1, <1>3 DEF CommitFits, SameKey
    <2>4. \A s, t \in snap : SameKey(s, t) => s = t
      BY DEF Sound, SnapsFit
    <2>5. \A s, t \in snap' : SameKey(s, t) => s = t
      BY <1>1, <2>2, <2>3, <2>4
    <2> QED
      BY <2>1, <2>5 DEF SnapsFit, SameKey
  <1>7. TimesFit'
    <2>1. AllSnaps' \subseteq AllSnaps
      BY <1>1 DEF AllSnaps
    <2> QED
      BY <2>1, TimesKept DEF Sound
  <1>8. EventsFit'
    <2>1. \A ev, s : Tells(ev, s) => Tells(ev, s)'
      BY <1>1, Growth
    <2>2. \A ev \in event : \E s \in snap : Tells(ev, s)
      BY DEF Sound, EventsFit
    <2>3. \A ev \in worker[w].raised : \E s \in worker[w].pending : Tells(ev, s)
      BY <1>3 DEF ChunkFits
    <2>4. \A ev \in event' : \E s \in snap' : Tells(ev, s)'
      BY <1>1, <2>1, <2>2, <2>3
    <2>5. \A ev \in event, eu \in worker[w].raised : ~(ev.line = eu.line /\ ev.to = eu.to)
      <3>1. \A s \in worker[w].pending, t \in snap : ~SameKey(s, t)
        BY <1>1, <1>3 DEF CommitFits
      <3> QED
        BY <2>2, <2>3, <3>1 DEF Tells, SameKey
    <2>6. \A ev, eu \in worker[w].raised : ev.line = eu.line => ev = eu
      BY <1>3 DEF ChunkFits
    <2>7. \A ev, eu \in event : ev.line = eu.line /\ ev.to = eu.to => ev = eu
      BY DEF Sound, EventsFit
    <2>8. \A ev, eu \in event' : ev.line = eu.line /\ ev.to = eu.to => ev = eu
      BY <1>1, <2>5, <2>6, <2>7
    <2> QED
      BY <2>4, <2>8 DEF EventsFit
  <1>9. \A x \in Workers : WalkFits(x)'
    <2>1. ASSUME NEW x \in Workers, x # w PROVE WalkFits(x)'
      <3>1. WalkFits(x) /\ worker'[x] = worker[x] /\ snap \subseteq snap'
        BY <1>1, <2>1 DEF Sound
      <3> QED
        BY <1>1, <3>1, WalkKept
    <2>2. WalkFits(w)'
      <3>1. MyJob(w) \in Jobs /\ job[MyJob(w)] # "ABSENT"
        BY <1>1, ChunkRowsFacts
      <3>2. ASSUME NEW k \in DOMAIN file[MyJob(w)], k < worker[w].next + ChunkRows
            PROVE  \E s \in snap' : s.job = MyJob(w) /\ s.line = file[MyJob(w)][k].line
        <4>1. CASE Already(MyJob(w), file[MyJob(w)][k].line)
          BY <1>1, <4>1 DEF Already
        <4>2. CASE ~Already(MyJob(w), file[MyJob(w)][k].line)
          <5>1. k \in Chunk(w)
            BY <1>1, <3>2, <4>2, ChunkRowsFacts
          <5>2. PICK s \in worker[w].pending : s.line = file[MyJob(w)][k].line
            BY <1>3, <4>2, <5>1 DEF ChunkFits
          <5>3. s.job = MyJob(w)
            BY <1>3, <5>2 DEF ChunkFits
          <5> QED
            BY <1>1, <5>2, <5>3
        <4> QED
          BY <4>1, <4>2
      <3> QED
        BY <1>1, <3>1, <3>2, EmptyHanded
    <2> QED
      BY <2>1, <2>2
  <1>10. \A x \in Workers : CommitFits(x)'
    <2>1. ASSUME NEW x \in Workers, x # w PROVE CommitFits(x)'
      <3>1. CommitFits(x) /\ worker'[x] = worker[x]
        BY <1>1, <2>1 DEF Sound
      <3>2. ASSUME worker[x].pc = "commit"
            PROVE  \A s \in worker[x].pending, t \in snap' : ~SameKey(s, t)
        BY <1>1, <2>1, <3>1, <3>2 DEF CommitFits
      <3>3. ASSUME worker[x].pc = "commit", NEW y \in Workers, y # x, worker'[y].pc = "commit"
            PROVE  \A s \in worker[x].pending, t \in worker'[y].pending : ~SameKey(s, t)
        BY <1>1, <3>1, <3>3 DEF CommitFits
      <3> QED
        BY <3>1, <3>2, <3>3 DEF CommitFits, SameKey
    <2>2. CommitFits(w)'
      BY <1>1 DEF CommitFits
    <2> QED
      BY <2>1, <2>2
  <1> QED
    BY <1>4, <1>5, <1>6, <1>7, <1>8, <1>9, <1>10 DEF Sound

LEMMA SoundStep ==
    ASSUME Sound, [Next]_vars
    PROVE  Sound'
  <1>1. CASE UNCHANGED vars
    <2>1. TypeOK' /\ UNCHANGED <<file, job, snap, event, worker>>
      BY <1>1 DEF vars, Sound, TypeOK
    <2> QED
      BY <2>1, Untouched
  <1>2. CASE Next
    <2>1. ASSUME NEW w \in Workers, WorkerStep(w) PROVE Sound'
      BY <2>1, BuildSound, InsertSound, CommitSound, FinishSound DEF WorkerStep
    <2> QED
      BY <1>2, <2>1, ImportSound, StartSound, CrashSound, BuyerSound DEF Next
  <1> QED
    BY <1>1, <1>2

----------------------------------------------------------------------------
(* One import of a vendor at a time *)

LEMMA DisciplineStays ==
    ASSUME [Next]_vars
    PROVE  discipline' = discipline
  BY DEF Next, vars, Import, Start, WorkerStep, Build, Insert, Commit, Finish, Crash,
         AskWatch, AddWatch, RemoveWatch, dbVars

LEMMA LinesApart ==
    ASSUME Sound, Apart, NEW w \in Workers, NEW x \in Workers, w # x,
           Holding(w), Holding(x),
           NEW s \in worker[w].pending, NEW t \in worker[x].pending
    PROVE  s.line # t.line
  <1>1. ASSUME NEW y \in Workers, Holding(y), NEW u \in worker[y].pending
        PROVE  VendorOf[u.line] = VendorAt(MyJob(y))
    <2>1. ChunkFits(y) /\ Busy(y)
      BY <1>1 DEF Sound, WalkFits, Holding, Busy
    <2>2. MyJob(y) \in Jobs
      BY <2>1, ChunkRowsFacts
    <2>3. PICK k \in DOMAIN file[MyJob(y)] : u.line = file[MyJob(y)][k].line
      BY <1>1, <2>1 DEF ChunkFits, FromFile
    <2>4. k \in 1 .. Len(file[MyJob(y)]) /\ Len(file[MyJob(y)]) \in Nat
      BY <2>2, <2>3, FileFacts DEF Sound
    <2>5. 1 \in DOMAIN file[MyJob(y)]
      BY <2>2, <2>4, FileFacts DEF Sound
    <2> QED
      BY <2>2, <2>3, <2>5, FileFacts DEF Sound, VendorAt
  <1>2. Busy(w) /\ Busy(x)
    BY DEF Busy, Holding
  <1>3. VendorAt(MyJob(w)) # VendorAt(MyJob(x))
    BY <1>2 DEF Apart
  <1>4. VendorOf[s.line] = VendorAt(MyJob(w))
    BY <1>1
  <1>5. VendorOf[t.line] = VendorAt(MyJob(x))
    BY <1>1
  <1> QED
    BY <1>3, <1>4, <1>5

LEMMA ChunkStays ==
    ASSUME NEW x \in Workers, ChunkIsCurrent(x), worker'[x] = worker[x],
           \A s \in worker[x].pending : SnapsOf(snap', s.line) = SnapsOf(snap, s.line)
    PROVE  ChunkIsCurrent(x)'
  <1>1. \A s \in worker[x].pending : PreviousOf(s.line)' = PreviousOf(s.line)
    BY DEF PreviousOf
  <1>2. ASSUME NEW s \in worker[x].pending
        PROVE  /\ \A t \in SnapsOf(snap', s.line) : t.at < s.at
               /\ Told(s, worker[x].raised, PreviousOf(s.line)')
    BY <1>1, <1>2 DEF ChunkIsCurrent
  <1> QED
    BY <1>2 DEF ChunkIsCurrent

\* Steps that write neither snapshots nor events, and start nothing.
LEMMA VendorwiseKept ==
    ASSUME Vendorwise, Sound, UNCHANGED <<snap, event, discipline>>,
           \A x \in Workers : Busy(x) => file'[MyJob(x)] = file[MyJob(x)],
           \A x \in Workers : Busy(x)' => Busy(x) /\ worker'[x].job = worker[x].job,
           \A x \in Workers : Holding(x)' => ChunkIsCurrent(x)'
    PROVE  Vendorwise'
  <1>1. \A x \in Workers : Busy(x)' =>
            /\ MyJob(x)' = MyJob(x) /\ file'[MyJob(x)'] = file[MyJob(x)]
            /\ VendorAt(MyJob(x))' = VendorAt(MyJob(x))
    BY DEF MyJob, VendorAt
  <1>2. Apart'
    BY <1>1 DEF Vendorwise, Apart
  <1>3. \A s \in snap : Before(s)' = Before(s)
    BY DEF Before
  <1>4. \A s \in snap' : Told(s, event', Before(s)')
    BY <1>3 DEF Vendorwise
  <1>5. \A s \in snap' : Told(s, event, Before(s))'
    BY <1>4 DEF Told
  <1> QED
    BY <1>2, <1>5 DEF Vendorwise

LEMMA ImportVendorwise ==
    ASSUME Sound, Vendorwise, NEW j \in Jobs, NEW f \in Files, Import(j, f)
    PROVE  Vendorwise'
  <1>1. /\ job[j] = "ABSENT" /\ file' = [file EXCEPT ![j] = f]
        /\ UNCHANGED <<snap, event, worker, discipline>>
    BY DEF Import
  <1>2. \A x \in Workers : Busy(x) => file'[MyJob(x)] = file[MyJob(x)]
    BY <1>1, ChunkRowsFacts DEF Sound, TypeOK
  <1>3. \A x \in Workers : /\ Busy(x)' <=> Busy(x)
                           /\ Holding(x)' <=> Holding(x)
    BY <1>1 DEF Busy, Holding
  <1>4. \A x \in Workers : Holding(x) => ChunkIsCurrent(x)'
    BY <1>1, ChunkStays DEF Vendorwise
  <1> QED
    BY <1>1, <1>2, <1>3, <1>4, VendorwiseKept

LEMMA StartVendorwise ==
    ASSUME Sound, Vendorwise, discipline \in {"VENDOR", "SERIAL"},
           NEW w \in Workers, NEW j \in Jobs, Start(w, j)
    PROVE  Vendorwise'
  <1> DEFINE new == [IdleWorker EXCEPT !.pc = "read", !.job = j]
  <1>1. /\ worker' = [worker EXCEPT ![w] = new] /\ MayStart(j)
        /\ UNCHANGED <<file, snap, event, discipline>>
    BY DEF Start, dbVars
  <1>2. new.pc = "read" /\ new.job = j
    BY DEF IdleWorker
  <1> HIDE DEF new
  <1>3. worker'[w] = new /\ \A x \in Workers : x # w => worker'[x] = worker[x]
    BY <1>1 DEF Sound, TypeOK
  <1>4. \A x \in Workers : Busy(x) => discipline = "VENDOR" /\ VendorAt(MyJob(x)) # VendorAt(j)
    BY <1>1 DEF MayStart, BusyWorkers, Busy, MyJob
  <1>5. /\ MyJob(w)' = j /\ VendorAt(MyJob(w))' = VendorAt(j)
        /\ \A x \in Workers : x # w => /\ Busy(x)' <=> Busy(x)
                                       /\ VendorAt(MyJob(x))' = VendorAt(MyJob(x))
    BY <1>1, <1>2, <1>3 DEF MyJob, VendorAt, Busy
  <1>6. Apart'
    BY <1>1, <1>4, <1>5 DEF Vendorwise, Apart
  <1>7. \A x \in Workers : Holding(x)' => ChunkIsCurrent(x)'
    <2>1. ~Holding(w)'
      BY <1>2, <1>3 DEF Holding
    <2>2. ASSUME NEW x \in Workers, x # w, Holding(x)' PROVE ChunkIsCurrent(x)'
      <3>1. Holding(x) /\ worker'[x] = worker[x]
        BY <1>3, <2>2 DEF Holding
      <3> QED
        BY <1>1, <3>1, ChunkStays DEF Vendorwise
    <2> QED
      BY <2>1, <2>2
  <1>8. \A s \in snap' : Told(s, event, Before(s))'
    <2>1. \A s \in snap : Before(s)' = Before(s)
      BY <1>1 DEF Before
    <2>2. \A s \in snap' : Told(s, event', Before(s)')
      BY <1>1, <2>1 DEF Vendorwise
    <2> QED
      BY <2>2 DEF Told
  <1> QED
    BY <1>6, <1>7, <1>8 DEF Vendorwise

\* A worker stops or skips a chunk.
LEMMA LetGoVendorwise ==
    ASSUME Sound, Vendorwise, NEW w \in Workers, UNCHANGED <<file, snap, event, discipline>>,
           \A x \in Workers : x # w => worker'[x] = worker[x],
           ~Holding(w)', Busy(w)' => Busy(w) /\ worker'[w].job = worker[w].job
    PROVE  Vendorwise'
  <1>1. \A x \in Workers : Holding(x)' => ChunkIsCurrent(x)'
    <2>1. ASSUME NEW x \in Workers, x # w, Holding(x)' PROVE ChunkIsCurrent(x)'
      <3>1. Holding(x) /\ worker'[x] = worker[x]
        BY <2>1 DEF Holding
      <3> QED
        BY <3>1, ChunkStays DEF Vendorwise
    <2> QED
      BY <2>1
  <1>2. \A x \in Workers : Busy(x)' => Busy(x) /\ worker'[x].job = worker[x].job
    BY DEF Busy
  <1> QED
    BY <1>1, <1>2, VendorwiseKept

LEMMA StopVendorwise ==
    ASSUME Sound, Vendorwise, NEW w \in Workers,
           worker' = [worker EXCEPT ![w] = IdleWorker],
           UNCHANGED <<file, snap, event, discipline>>
    PROVE  Vendorwise'
  <1>1. worker'[w] = IdleWorker /\ \A x \in Workers : x # w => worker'[x] = worker[x]
    BY DEF Sound, TypeOK
  <1>2. ~Holding(w)' /\ ~Busy(w)'
    BY <1>1 DEF Holding, Busy, IdleWorker
  <1> QED
    BY <1>1, <1>2, LetGoVendorwise

LEMMA BuildVendorwise ==
    ASSUME Sound, Vendorwise, NEW w \in Workers, Build(w)
    PROVE  Vendorwise'
  <1> DEFINE j == MyJob(w)
             rows == Unobserved(w)
             news == {SnapshotOf(j, r) : r \in rows}
             evs == {EventOf(j, r) : r \in {x \in rows : TransitionOf(x) # "NONE"}}
             skip == [worker[w] EXCEPT !.next = worker[w].next + ChunkRows]
             new == [worker[w] EXCEPT !.pc = "insert", !.pending = news, !.raised = evs]
  <1>1. /\ worker[w].pc = "read" /\ UNCHANGED <<file, snap, event, discipline>>
        /\ worker[w] \in WorkerStates
    BY WorkerTypes DEF Build, dbVars, Sound
  <1>2. CASE rows = {}
    <2>1. worker' = [worker EXCEPT ![w] = skip]
      BY <1>2 DEF Build
    <2>2. skip.pc = "read" /\ skip.job = worker[w].job
      BY <1>1 DEF WorkerStates
    <2> HIDE DEF skip
    <2>3. worker'[w] = skip /\ \A x \in Workers : x # w => worker'[x] = worker[x]
      BY <2>1 DEF Sound, TypeOK
    <2>4. ~Holding(w)' /\ Busy(w)
      BY <1>1, <2>2, <2>3 DEF Holding, Busy
    <2> QED
      BY <1>1, <2>2, <2>3, <2>4, LetGoVendorwise
  <1>3. CASE rows # {}
    <2>1. worker' = [worker EXCEPT ![w] = new]
      BY <1>3 DEF Build
    <2>2. /\ new.pc = "insert" /\ new.job = j /\ new.pending = news /\ new.raised = evs
      BY <1>1 DEF WorkerStates, MyJob
    <2>3. /\ \A s \in news : \E r \in rows : s = SnapshotOf(j, r)
          /\ \A ev \in evs : \E r \in rows : TransitionOf(r) # "NONE" /\ ev = EventOf(j, r)
          /\ \A r \in rows : TransitionOf(r) # "NONE" => EventOf(j, r) \in evs
      OBVIOUS
    <2> HIDE DEF new, news, evs
    <2>4. worker'[w] = new /\ \A x \in Workers : x # w => worker'[x] = worker[x]
      BY <2>1 DEF Sound, TypeOK
    <2>5. /\ Busy(w)
          /\ \A r \in rows : r.line \in Lines
          /\ \A r, q \in rows : r.line = q.line => r = q
      BY <1>1, ChunkRowsFacts DEF Busy
    <2>6. ASSUME NEW s \in news
          PROVE  /\ \A t \in SnapsOf(snap, s.line) : t.at < s.at
                 /\ Told(s, evs, PreviousOf(s.line))
      <3>1. PICK r \in rows : s = SnapshotOf(j, r)
        BY <2>3
      <3>2. s.line = r.line /\ s.job = j /\ s.at = Now /\ s.status = r.status /\ s.product = r.product
        BY <3>1 DEF SnapshotOf
      <3>3. \A t \in SnapsOf(snap, s.line) : t.at < s.at
        BY <3>2, AllPast, NowIsLater DEF SnapsOf, AllSnaps
      <3> DEFINE mine == {ev \in evs : ev.line = s.line /\ ev.to = s.job}
      <3>4. \A q \in rows : /\ EventOf(j, q).line = q.line /\ EventOf(j, q).to = j
                            /\ EventOf(j, q).kind = TransitionOf(q)
                            /\ EventOf(j, q).from = PreviousOf(q.line).job
                            /\ EventOf(j, q).product = q.product
        BY DEF EventOf
      <3>5. \A ev \in mine : TransitionOf(r) # "NONE" /\ ev = EventOf(j, r)
        BY <2>3, <2>5, <3>2, <3>4
      <3>6. TransitionOf(r) # "NONE" => EventOf(j, r) \in mine
        BY <2>3, <3>2, <3>4
      <3>7. TransitionOf(r) = Transition(PreviousOf(s.line).status, s.status)
        BY <3>2 DEF TransitionOf
      <3>8. /\ Transition(PreviousOf(s.line).status, s.status) = "NONE" <=> mine = {}
            /\ \A ev \in mine : /\ ev.kind = Transition(PreviousOf(s.line).status, s.status)
                                /\ ev.from = PreviousOf(s.line).job /\ ev.product = s.product
        BY <3>2, <3>4, <3>5, <3>6, <3>7
      <3> QED
        BY <3>3, <3>8 DEF Told
    <2>7. \A l : PreviousOf(l)' = PreviousOf(l)
      BY <1>1 DEF PreviousOf
    <2>8. ChunkIsCurrent(w)'
      <3>1. \A s \in worker'[w].pending :
               /\ \A t \in SnapsOf(snap', s.line) : t.at < s.at
               /\ Told(s, worker'[w].raised, PreviousOf(s.line)')
        BY <1>1, <2>2, <2>4, <2>6, <2>7
      <3> QED
        BY <3>1 DEF ChunkIsCurrent
    <2>9. \A x \in Workers : Holding(x)' => ChunkIsCurrent(x)'
      <3>1. ASSUME NEW x \in Workers, x # w, Holding(x)' PROVE ChunkIsCurrent(x)'
        <4>1. Holding(x) /\ worker'[x] = worker[x]
          BY <2>4, <3>1 DEF Holding
        <4> QED
          BY <1>1, <4>1, ChunkStays DEF Vendorwise
      <3> QED
        BY <2>8, <3>1
    <2>10. \A x \in Workers : Busy(x)' => Busy(x) /\ worker'[x].job = worker[x].job
      BY <2>2, <2>4, <2>5 DEF Busy, MyJob
    <2> QED
      BY <1>1, <2>9, <2>10, VendorwiseKept
  <1> QED
    BY <1>2, <1>3

LEMMA InsertVendorwise ==
    ASSUME Sound, Vendorwise, NEW w \in Workers, Insert(w)
    PROVE  Vendorwise'
  <1>1. worker[w].pc = "insert" /\ UNCHANGED <<file, snap, event, discipline>>
    BY InsertSteps
  <1>2. CASE Clash(w)
    BY <1>1, <1>2, InsertSteps, StopVendorwise
  <1>3. CASE ~Clash(w)
    <2>1. Busy(w) /\ Holding(w)
      BY <1>1 DEF Busy, Holding
    <2>2. worker' = [worker EXCEPT ![w] = Decided(w)]
      BY <1>3, InsertSteps
    <2>3. worker'[w] = Decided(w) /\ \A x \in Workers : x # w => worker'[x] = worker[x]
      BY <2>2 DEF Sound, TypeOK
    <2>4. /\ worker'[w].job = worker[w].job /\ worker'[w].pending = worker[w].pending
          /\ worker'[w].raised = Linked(w)
      BY <2>1, <2>3, DecidedFacts
    <2>5. ASSUME NEW s \in worker[w].pending
          PROVE  Told(s, Linked(w), PreviousOf(s.line))
      <3> DEFINE prev == PreviousOf(s.line)
                 kind == Transition(prev.status, s.status)
                 mine == {ev \in worker[w].raised : ev.line = s.line /\ ev.to = s.job}
                 linked == {ev \in Linked(w) : ev.line = s.line /\ ev.to = s.job}
      <3>1. Told(s, worker[w].raised, prev)
        BY <2>1 DEF Vendorwise, ChunkIsCurrent
      <3>2. \A eu \in linked : \E ev \in mine :
               eu.kind = ev.kind /\ eu.from = ev.from /\ eu.product = ev.product
        BY LinkedFacts
      <3>3. \A ev \in mine : linked # {}
        <4> TAKE ev \in mine
        <4>1. ev \in Events
          BY WorkerTypes DEF Sound
        <4>2. PICK n \in Entries \union {0} : n = Primary(ev)
          BY PrimaryType
        <4>3. [ev EXCEPT !.watch = n] \in Linked(w)
          BY <4>2, LinkedFacts
        <4>4. [ev EXCEPT !.watch = n].line = ev.line /\ [ev EXCEPT !.watch = n].to = ev.to
          BY <4>1 DEF Events
        <4> QED
          BY <4>3, <4>4
      <3>4. /\ kind = "NONE" <=> mine = {}
            /\ \A ev \in mine : ev.kind = kind /\ ev.from = prev.job /\ ev.product = s.product
        BY <3>1 DEF Told
      <3>5. /\ kind = "NONE" <=> linked = {}
            /\ \A ev \in linked : ev.kind = kind /\ ev.from = prev.job /\ ev.product = s.product
        BY <3>2, <3>3, <3>4
      <3> QED
        BY <3>5 DEF Told
    <2>6. ChunkIsCurrent(w)'
      <3>1. \A l : PreviousOf(l)' = PreviousOf(l)
        BY <1>1 DEF PreviousOf
      <3>2. \A s \in worker[w].pending : \A t \in SnapsOf(snap, s.line) : t.at < s.at
        BY <2>1 DEF Vendorwise, ChunkIsCurrent
      <3>3. \A s \in worker'[w].pending :
               /\ \A t \in SnapsOf(snap', s.line) : t.at < s.at
               /\ Told(s, worker'[w].raised, PreviousOf(s.line)')
        BY <1>1, <2>4, <2>5, <3>1, <3>2
      <3> QED
        BY <3>3 DEF ChunkIsCurrent
    <2>7. \A x \in Workers : Holding(x)' => ChunkIsCurrent(x)'
      <3>1. ASSUME NEW x \in Workers, x # w, Holding(x)' PROVE ChunkIsCurrent(x)'
        <4>1. Holding(x) /\ worker'[x] = worker[x]
          BY <2>3, <3>1 DEF Holding
        <4> QED
          BY <1>1, <4>1, ChunkStays DEF Vendorwise
      <3> QED
        BY <2>6, <3>1
    <2>8. \A x \in Workers : Busy(x)' => Busy(x) /\ worker'[x].job = worker[x].job
      BY <2>1, <2>3, <2>4 DEF Busy
    <2> QED
      BY <1>1, <2>7, <2>8, VendorwiseKept
  <1> QED
    BY <1>2, <1>3

LEMMA CommitVendorwise ==
    ASSUME Sound, Vendorwise, NEW w \in Workers, Commit(w)
    PROVE  Vendorwise'
  <1> DEFINE news == worker[w].pending
             evs == worker[w].raised
  <1>1. /\ worker[w].pc = "commit" /\ Busy(w) /\ Holding(w)
        /\ snap' = snap \union news
        /\ event' = event \union evs
        /\ \A x \in Workers : x # w => worker'[x] = worker[x]
        /\ worker'[w].pc = "read" /\ worker'[w].job = MyJob(w)
        /\ UNCHANGED <<file, discipline>>
    BY CommitSteps
  <1>2. /\ ChunkIsCurrent(w) /\ ChunkFits(w)
        /\ \A s \in news, t \in snap : ~SameKey(s, t)
    BY <1>1 DEF Vendorwise, Sound, WalkFits, CommitFits
  <1>3. Apart'
    <2>1. \A x \in Workers : /\ Busy(x)' <=> Busy(x)
                             /\ MyJob(x)' = MyJob(x)
                             /\ VendorAt(MyJob(x))' = VendorAt(MyJob(x))
      BY <1>1 DEF Busy, MyJob, VendorAt
    <2> QED
      BY <1>1, <2>1 DEF Vendorwise, Apart
  <1>4. \A x \in Workers : Holding(x)' => ChunkIsCurrent(x)'
    <2>1. ~Holding(w)'
      BY <1>1 DEF Holding
    <2>2. ASSUME NEW x \in Workers, x # w, Holding(x)' PROVE ChunkIsCurrent(x)'
      <3>1. Holding(x) /\ worker'[x] = worker[x] /\ ChunkIsCurrent(x)
        BY <1>1, <2>2 DEF Holding, Vendorwise
      <3>2. \A s \in worker[x].pending : \A t \in news : t.line # s.line
        BY <1>1, <2>2, <3>1, LinesApart DEF Vendorwise
      <3>3. \A s \in worker[x].pending : SnapsOf(snap', s.line) = SnapsOf(snap, s.line)
        BY <1>1, <3>2 DEF SnapsOf
      <3> QED
        BY <3>1, <3>3, ChunkStays
    <2> QED
      BY <2>1, <2>2
  <1>5. \A ev \in event : \E s \in snap : s.line = ev.line /\ s.job = ev.to
    BY DEF Sound, EventsFit, Tells
  <1>6. \A ev \in evs : \E s \in news : s.line = ev.line /\ s.job = ev.to
    BY <1>2 DEF ChunkFits, Tells
  <1>7. \A s \in news, t \in news : s.line = t.line => s = t
    BY <1>2 DEF ChunkFits
  <1>8. \A s \in news : \A t \in SnapsOf(snap, s.line) : t.at < s.at
    BY <1>2 DEF ChunkIsCurrent
  <1>9. \A s \in AllSnaps : s.at \in Nat
    BY AllPast DEF Past, Snapshots
  <1>10. snap \subseteq AllSnaps /\ news \subseteq AllSnaps
    BY DEF AllSnaps
  <1>11. ASSUME NEW s \in snap
         PROVE  Told(s, event', Before(s)')
    <2>1. {t \in SnapsOf(snap', s.line) : t.at < s.at} = {t \in SnapsOf(snap, s.line) : t.at < s.at}
      <3>1. \A t \in news : t.line = s.line => s.at < t.at
        BY <1>8 DEF SnapsOf
      <3>2. \A t \in news : t.line = s.line => ~(t.at < s.at)
        BY <1>9, <1>10, <3>1
      <3> QED
        BY <1>1, <3>2 DEF SnapsOf
    <2>2. Before(s)' = Before(s)
      BY <2>1 DEF Before
    <2>3. {ev \in event' : ev.line = s.line /\ ev.to = s.job}
            = {ev \in event : ev.line = s.line /\ ev.to = s.job}
      <3>1. \A ev \in evs : ~(ev.line = s.line /\ ev.to = s.job)
        BY <1>2, <1>6 DEF SameKey
      <3> QED
        BY <1>1, <3>1
    <2>4. Told(s, event, Before(s))
      BY DEF Vendorwise
    <2> QED
      BY <2>2, <2>3, <2>4 DEF Told
  <1>12. ASSUME NEW s \in news
         PROVE  Told(s, event', Before(s)')
    <2>1. {t \in SnapsOf(snap', s.line) : t.at < s.at} = SnapsOf(snap, s.line)
      <3>1. \A t \in news : t.line = s.line => ~(t.at < s.at)
        BY <1>7, <1>9, <1>10
      <3> QED
        BY <1>1, <1>8, <3>1 DEF SnapsOf
    <2>2. Before(s)' = PreviousOf(s.line)
      BY <2>1 DEF Before, PreviousOf
    <2>3. {ev \in event' : ev.line = s.line /\ ev.to = s.job}
            = {ev \in evs : ev.line = s.line /\ ev.to = s.job}
      <3>1. \A ev \in event : ~(ev.line = s.line /\ ev.to = s.job)
        BY <1>2, <1>5 DEF SameKey
      <3> QED
        BY <1>1, <3>1
    <2>4. Told(s, evs, PreviousOf(s.line))
      BY <1>2 DEF ChunkIsCurrent
    <2> QED
      BY <2>2, <2>3, <2>4 DEF Told
  <1>13. \A s \in snap' : Told(s, event', Before(s)')
    BY <1>1, <1>11, <1>12
  <1>14. \A s \in snap' : Told(s, event, Before(s))'
    BY <1>13 DEF Told
  <1> QED
    BY <1>3, <1>4, <1>14 DEF Vendorwise

LEMMA VendorStep ==
    ASSUME VendorInv, [Next]_vars
    PROVE  VendorInv'
  <1>1. Sound /\ Sound'
    BY SoundStep DEF VendorInv
  <1>2. discipline' = discipline
    BY DisciplineStays
  <1>3. ASSUME discipline \in {"VENDOR", "SERIAL"}
        PROVE  Vendorwise'
    <2>1. Vendorwise
      BY <1>3 DEF VendorInv
    <2>2. ASSUME NEW w \in Workers, WorkerStep(w) PROVE Vendorwise'
      <3>1. CASE Finish(w)
        BY <1>1, <2>1, <3>1, StopVendorwise DEF Finish
      <3> QED
        BY <1>1, <2>1, <2>2, <3>1, BuildVendorwise, InsertVendorwise, CommitVendorwise
           DEF WorkerStep
    <2>3. ASSUME NEW w \in Workers, Crash(w) PROVE Vendorwise'
      BY <1>1, <2>1, <2>3, StopVendorwise DEF Crash, dbVars
    <2>4. ASSUME UNCHANGED <<file, job, snap, event, worker, discipline>> PROVE Vendorwise'
      <3>1. \A x \in Workers : /\ Busy(x)' <=> Busy(x)
                               /\ Holding(x)' <=> Holding(x)
        BY <2>4 DEF Busy, Holding
      <3>2. \A x \in Workers : Holding(x) => ChunkIsCurrent(x)'
        BY <2>1, <2>4, ChunkStays DEF Vendorwise
      <3> QED
        BY <1>1, <2>1, <2>4, <3>1, <3>2, VendorwiseKept
    <2>5. CASE UNCHANGED vars
      BY <2>4, <2>5 DEF vars
    <2>6. CASE Next
      BY <1>1, <1>3, <2>1, <2>2, <2>3, <2>4, <2>6, ImportVendorwise, StartVendorwise,
         BuyerSound DEF Next
    <2> QED
      BY <2>5, <2>6
  <1> QED
    BY <1>1, <1>2, <1>3 DEF VendorInv

LEMMA VendorInit == Init => VendorInv
  <1> SUFFICES ASSUME Init PROVE VendorInv
    OBVIOUS
  <1>1. /\ file = [j \in Jobs |-> <<>>] /\ job = [j \in Jobs |-> "ABSENT"]
        /\ snap = {} /\ event = {} /\ worker = [w \in Workers |-> IdleWorker]
    BY DEF Init
  <1>2. /\ IdleWorker.pc = "idle" /\ IdleWorker.pending = {} /\ IdleWorker.raised = {}
    BY DEF IdleWorker
  <1>3. \A w \in Workers : /\ worker[w].pc = "idle" /\ worker[w].pending = {}
                           /\ worker[w].raised = {}
    BY <1>1, <1>2
  <1>4. TypeOK
    <2>1. history \in [Entries -> Seq(Moves)] /\ watch \in [Entries -> WatchRows]
      BY WatchTypes DEF Init
    <2>2. worker \in [Workers -> WorkerStates] /\ buyer \in [Buyers -> BuyerStates]
      BY IdleTypes DEF Init
    <2> QED
      BY <1>1, <2>1, <2>2 DEF Init, TypeOK
  <1>5. JobsFit /\ SnapsFit /\ EventsFit
    BY <1>1 DEF JobsFit, SnapsFit, EventsFit
  <1>6. TimesFit
    <2>1. AllSnaps = {}
      BY <1>1, <1>3 DEF AllSnaps
    <2> QED
      BY <2>1 DEF TimesFit
  <1>7. \A w \in Workers : WalkFits(w) /\ CommitFits(w) /\ ~Busy(w) /\ ~Holding(w)
    BY <1>3 DEF WalkFits, CommitFits, Busy, Holding
  <1>8. Vendorwise
    BY <1>1, <1>7 DEF Vendorwise, Apart
  <1> QED
    BY <1>4, <1>5, <1>6, <1>7, <1>8 DEF VendorInv, Sound

\* Of every behaviour: tables, walks and chunks in hand fit each other.  Of those
\* with one import of a vendor at a time: what a chunk found out is still so when
\* it commits, and events are the transitions.
THEOREM VendorInvariance == Spec => []VendorInv
  BY VendorInit, VendorStep, PTL DEF Spec

\* AC-11.1, AC-11.7: a finished import has exactly one snapshot of every row,
\* however many processes ran its snapshotting and wherever they died.
THEOREM EveryRowIsObserved == Spec => []FinishedImportsAreObserved
  <1>1. VendorInv => FinishedImportsAreObserved
    <2> SUFFICES ASSUME VendorInv PROVE FinishedImportsAreObserved
      OBVIOUS
    <2>1. ASSUME NEW j \in Jobs, job[j] = "DONE", NEW k \in DOMAIN file[j]
          PROVE  \E s \in snap : /\ {t \in snap : SameKey(s, t)} = {s}
                                 /\ s.job = j /\ s.line = file[j][k].line
                                 /\ s.status = file[j][k].status
                                 /\ s.product = file[j][k].product
      <3>1. PICK s \in snap : s.job = j /\ s.line = file[j][k].line
        BY <2>1 DEF VendorInv, Sound, JobsFit, Already
      <3>2. PICK i \in DOMAIN file[j] : /\ s.line = file[j][i].line
                                        /\ s.status = file[j][i].status
                                        /\ s.product = file[j][i].product
        BY <3>1 DEF VendorInv, Sound, SnapsFit, FromFile
      <3>3. i = k
        <4>1. file[j][i].line = file[j][k].line
          BY <3>1, <3>2
        <4> QED
          BY <4>1, FileFacts DEF VendorInv, Sound
      <3>4. {t \in snap : SameKey(s, t)} = {s}
        BY DEF VendorInv, Sound, SnapsFit, SameKey
      <3> QED
        BY <3>1, <3>2, <3>3, <3>4
    <2> QED
      BY <2>1 DEF FinishedImportsAreObserved, VendorInv, Sound
  <1> QED
    BY <1>1, VendorInvariance, PTL

\* Of any overlap: an event is its snapshot's only one, and names an older
\* snapshot of the line on the other side of being available.
THEOREM EventsAreTrue == Spec => []EventsTellTheirSnapshots
  <1>1. VendorInv => EventsTellTheirSnapshots
    <2> SUFFICES ASSUME VendorInv, NEW ev \in event
                 PROVE  \E s \in snap :
                          /\ s.line = ev.line /\ s.job = ev.to
                          /\ s.product = ev.product
                          /\ EventsInto(s) = {ev}
                          /\ s.status \in IF ev.kind = "BECAME_AVAILABLE"
                                          THEN {"AVAILABLE"} ELSE Unavailable
                          /\ ev.from # 0 => \E t \in snap :
                               /\ t.line = ev.line /\ t.job = ev.from /\ t.at < s.at
                               /\ (t.status = "AVAILABLE") # (s.status = "AVAILABLE")
      BY DEF EventsTellTheirSnapshots
    <2>1. PICK s \in snap : Tells(ev, s)
      BY DEF VendorInv, Sound, EventsFit
    <2>2. EventsInto(s) = {ev}
      BY <2>1 DEF VendorInv, Sound, EventsFit, EventsInto, Tells
    <2> QED
      BY <2>1, <2>2 DEF Tells
  <1> QED
    BY <1>1, VendorInvariance, PTL

\* AC-11.2 to AC-11.4: with one import of a vendor at a time, the events of a
\* line are the transitions along its history, each told once.
THEOREM EventsAreTransitions == Spec => []EventsMatchTransitions
  <1>1. VendorInv => EventsMatchTransitions
    <2> SUFFICES ASSUME VendorInv, discipline \in {"VENDOR", "SERIAL"}, NEW s \in snap
                 PROVE  LET earlier == {t \in SnapsOf(snap, s.line) : t.at < s.at}
                            before == IF earlier = {} THEN "NONE" ELSE LatestOf(earlier).status
                            from == IF earlier = {} THEN 0 ELSE LatestOf(earlier).job
                            up == s.status = "AVAILABLE" /\ before # "AVAILABLE"
                            down == s.status \in Unavailable /\ before = "AVAILABLE"
                        IN /\ Cardinality(EventsInto(s)) = IF up \/ down THEN 1 ELSE 0
                           /\ \A ev \in EventsInto(s) :
                                /\ ev.kind = IF up THEN "BECAME_AVAILABLE" ELSE "BECAME_UNAVAILABLE"
                                /\ ev.from = from
                                /\ ev.product = s.product
      BY DEF EventsMatchTransitions
    <2> DEFINE earlier == {t \in SnapsOf(snap, s.line) : t.at < s.at}
               before == IF earlier = {} THEN "NONE" ELSE LatestOf(earlier).status
               from == IF earlier = {} THEN 0 ELSE LatestOf(earlier).job
               up == s.status = "AVAILABLE" /\ before # "AVAILABLE"
               down == s.status \in Unavailable /\ before = "AVAILABLE"
    <2>1. Told(s, event, Before(s))
      BY DEF VendorInv, Vendorwise
    <2>2. Before(s).status = before /\ Before(s).job = from
      BY DEF Before
    <2> HIDE DEF earlier, before, from
    <2>3. /\ up => Transition(before, s.status) = "BECAME_AVAILABLE"
          /\ down => Transition(before, s.status) = "BECAME_UNAVAILABLE"
          /\ ~up /\ ~down => Transition(before, s.status) = "NONE"
      BY DEF Transition, Unavailable
    <2>4. /\ Transition(before, s.status) = "NONE" <=> EventsInto(s) = {}
          /\ \A ev \in EventsInto(s) :
               ev.kind = Transition(before, s.status) /\ ev.from = from /\ ev.product = s.product
      BY <2>1, <2>2 DEF Told, EventsInto
    <2>5. \A ev, eu \in EventsInto(s) : ev = eu
      BY DEF VendorInv, Sound, EventsFit, EventsInto
    <2>6. Cardinality(EventsInto(s)) = IF up \/ down THEN 1 ELSE 0
      <3>1. CASE EventsInto(s) = {}
        <4>1. Cardinality(EventsInto(s)) = 0
          BY <3>1, FS_EmptySet
        <4> QED
          BY <2>3, <2>4, <3>1, <4>1
      <3>2. CASE EventsInto(s) # {}
        <4>1. PICK ev : EventsInto(s) = {ev}
          BY <2>5, <3>2
        <4>2. Cardinality(EventsInto(s)) = 1
          BY <4>1, FS_Singleton
        <4> QED
          BY <2>3, <2>4, <3>2, <4>2
      <3> QED
        BY <3>1, <3>2
    <2>7. \A ev \in EventsInto(s) :
             /\ ev.kind = IF up THEN "BECAME_AVAILABLE" ELSE "BECAME_UNAVAILABLE"
             /\ ev.from = from
             /\ ev.product = s.product
      BY <2>3, <2>4
    <2> QED
      BY <2>6, <2>7 DEF earlier, before, from
  <1> QED
    BY <1>1, VendorInvariance, PTL

----------------------------------------------------------------------------
(* Watch entries, with one import at a time *)

\* The changes of a chunk continue a history.
LEMMA HistoryGrows ==
    ASSUME NEW e \in Entries, watch[e].status \in OosStatuses,
           NEW h \in Seq(Moves), EndsIn(h, watch[e].status),
           NEW m, Chain(watch[e].status, m)
    PROVE  EndsIn(h \o m, StatusThen(e, m))
  <1>1. m \in Seq(Moves) /\ Len(m) \in Nat /\ Len(h) \in Nat
    BY DEF Chain
  <1>2. CASE m = <<>>
    <2>1. h \o m = h /\ StatusThen(e, m) = watch[e].status
      BY <1>2 DEF StatusThen
    <2> QED
      BY <2>1
  <1>3. CASE m # <<>>
    <2>1. Len(m) \in Nat \ {0} /\ StatusThen(e, m) = m[Len(m)].to
      BY <1>3, ChainEnds
    <2>2. /\ DOMAIN (h \o m) = 1 .. Len(h) + Len(m) /\ Len(h \o m) = Len(h) + Len(m)
          /\ \A k \in 1 .. Len(h) : (h \o m)[k] = h[k]
          /\ \A k \in 1 .. Len(m) : (h \o m)[Len(h) + k] = m[k]
      BY <1>1
    <2>3. ASSUME NEW k \in 1 .. Len(h)
          PROVE  /\ (h \o m)[k].from # (h \o m)[k].to
                 /\ (h \o m)[k].to = (h \o m)[k + 1].from
      <3>1. (h \o m)[k] = h[k] /\ k \in DOMAIN h
        BY <2>2
      <3>2. CASE k < Len(h)
        <4>1. (h \o m)[k + 1] = h[k + 1]
          BY <1>1, <2>2, <3>2
        <4> QED
          BY <3>1, <3>2, <4>1 DEF EndsIn
      <3>3. CASE k = Len(h)
        <4>1. 1 \in 1 .. Len(m) /\ (h \o m)[k + 1] = m[1]
          BY <2>1, <2>2, <3>3
        <4>2. m[1].from = watch[e].status
          BY <1>1, <4>1 DEF Chain
        <4>3. h[k].from # h[k].to /\ h[k].to = watch[e].status
          BY <1>1, <3>1, <3>3 DEF EndsIn
        <4> QED
          BY <3>1, <4>1, <4>2, <4>3
      <3>4. k < Len(h) \/ k = Len(h)
        BY <1>1
      <3> QED
        BY <3>2, <3>3, <3>4
    <2>4. ASSUME NEW i \in 1 .. Len(m)
          PROVE  /\ (h \o m)[Len(h) + i].from # (h \o m)[Len(h) + i].to
                 /\ (h \o m)[Len(h) + i].to =
                       IF i < Len(m) THEN (h \o m)[Len(h) + i + 1].from ELSE StatusThen(e, m)
      <3>1. (h \o m)[Len(h) + i] = m[i] /\ i \in DOMAIN m
        BY <1>1, <2>2
      <3>2. CASE i < Len(m)
        <4>1. i + 1 \in 1 .. Len(m) /\ i + 1 # 1 /\ (i + 1) - 1 = i
              /\ Len(h) + i + 1 = Len(h) + (i + 1)
          BY <1>1, <3>2
        <4>2. (h \o m)[Len(h) + i + 1] = m[i + 1]
          BY <2>2, <4>1
        <4>3. i + 1 \in DOMAIN m
          BY <1>1, <4>1
        <4>4. m[i + 1].from = m[i].to
          BY <4>1, <4>3 DEF Chain
        <4>5. m[i].from # m[i].to
          BY <3>1 DEF Chain
        <4> QED
          BY <3>1, <3>2, <4>2, <4>4, <4>5
      <3>3. CASE i = Len(m)
        <4>1. m[i].from # m[i].to
          BY <3>1 DEF Chain
        <4> QED
          BY <2>1, <3>1, <3>3, <4>1
      <3>4. i < Len(m) \/ i = Len(m)
        BY <1>1
      <3> QED
        BY <3>2, <3>3, <3>4
    <2>5. ASSUME NEW k \in DOMAIN (h \o m)
          PROVE  /\ (h \o m)[k].from # (h \o m)[k].to
                 /\ (h \o m)[k].to = IF k < Len(h \o m) THEN (h \o m)[k + 1].from
                                     ELSE StatusThen(e, m)
      <3>1. CASE k <= Len(h)
        <4>1. k \in 1 .. Len(h) /\ k < Len(h \o m)
          BY <1>1, <2>1, <2>2, <3>1
        <4> QED
          BY <2>3, <4>1
      <3>2. CASE k > Len(h)
        <4> DEFINE i == k - Len(h)
        <4>1. i \in 1 .. Len(m) /\ k = Len(h) + i /\ (k < Len(h \o m) <=> i < Len(m))
          BY <1>1, <2>2, <3>2
        <4> HIDE DEF i
        <4> QED
          BY <2>4, <4>1
      <3> QED
        BY <1>1, <2>2, <3>1, <3>2
    <2> QED
      BY <2>5 DEF EndsIn
  <1> QED
    BY <1>2, <1>3

\* Whoever looks for a stocked product finds it.
LEMMA StockIsFound ==
    ASSUME Sound, NEW S, S \subseteq AllSnaps, NEW p, NEW v, Stocked(S, p, v)
    PROVE  "AVAILABLE" \in LatestStatuses(S, p, v)
  <1>1. PICK l \in Lines : /\ v \in {None, VendorOf[l]} /\ SnapsOf(S, l) # {}
                           /\ LatestOf(SnapsOf(S, l)).status = "AVAILABLE"
                           /\ \A s \in SnapsOf(S, l) : s.status = "AVAILABLE" => s.product = p
    BY DEF Stocked
  <1> DEFINE carrying == {s \in SnapsOf(S, l) : s.product = p}
             t == LatestOf(SnapsOf(S, l))
             u == LatestOf(carrying)
  <1>2. Past(SnapsOf(S, l)) /\ Past(carrying)
    BY AllPast, PastKept DEF SnapsOf
  <1>3. t \in SnapsOf(S, l) /\ \A s \in SnapsOf(S, l) : s.at <= t.at
    BY <1>1, <1>2, LatestFacts
  <1>4. t \in carrying
    BY <1>1, <1>3
  <1>5. u \in carrying /\ \A s \in carrying : s.at <= u.at
    <2>1. carrying # {}
      BY <1>4
    <2> HIDE DEF carrying
    <2> QED
      BY <1>2, <2>1, LatestFacts
  <1>6. u \in SnapsOf(S, l)
    BY <1>5
  <1>7. t.at <= u.at /\ u.at <= t.at /\ t.at \in Nat /\ u.at \in Nat
    BY <1>2, <1>3, <1>4, <1>5, <1>6 DEF Past, Snapshots
  <1>8. t.line = l /\ u.line = l /\ t \in AllSnaps /\ u \in AllSnaps
    BY <1>3, <1>6 DEF SnapsOf
  <1>9. u = t
    <2>1. t.at = u.at
      BY <1>7
    <2> HIDE DEF t, u
    <2> QED
      BY <1>8, <2>1 DEF Sound, TimesFit
  <1>10. u.status = "AVAILABLE" /\ carrying # {}
    BY <1>1, <1>4, <1>9
  <1> QED
    BY <1>1, <1>10 DEF LatestStatuses

\* A chunk that leaves a watched product in stock leaves the entry knowing it.
LEMMA ChunkTellsOfStock ==
    ASSUME Sound, Vendorwise, NEW w \in Workers, Holding(w),
           NEW e \in Entries, EntryFits(e), watch[e].active,
           Stocked(snap \union worker[w].pending, watch[e].product, watch[e].vendor)
    PROVE  /\ \A k \in DOMAIN file[MyJob(w)] : ToldStatuses(w, e)[k] \subseteq {"IN_STOCK"}
           /\ \/ watch[e].status = "IN_STOCK"
              \/ \E k \in DOMAIN file[MyJob(w)] : ToldStatuses(w, e)[k] # {}
  <1> DEFINE news == worker[w].pending
             S == snap \union news
             p == watch[e].product
             v == watch[e].vendor
             rows == file[MyJob(w)]
  <1>1. /\ MyJob(w) \in Jobs /\ ChunkFits(w) /\ ChunkIsCurrent(w)
    <2>1. Busy(w)
      BY DEF Busy, Holding
    <2> QED
      BY <2>1, ChunkRowsFacts DEF Sound, WalkFits, Vendorwise
  <1>2. S \subseteq AllSnaps /\ Past(S)
    <2>1. S \subseteq AllSnaps
      BY DEF AllSnaps
    <2> QED
      BY <2>1, AllPast, PastKept
  <1>3. p # None
    BY DEF EntryFits
  <1>4. \A k \in DOMAIN rows : ToldStatuses(w, e)[k] \subseteq {"IN_STOCK"}
    <2>1. "AVAILABLE" \in LatestStatuses(S, p, v)
      BY <1>2, StockIsFound
    <2>2. \A ev : Concerns(e, ev) => StatusAfter(S, e, ev) = "IN_STOCK"
      BY <2>1 DEF Concerns, StatusAfter
    <2> HIDE DEF rows
    <2>3. ToldStatuses(w, e) = [k \in DOMAIN rows |->
             {StatusAfter(S, e, ev) :
                 ev \in {x \in worker[w].raised : x.line = rows[k].line /\ Concerns(e, x)}}]
      BY DEF ToldStatuses, rows
    <2> HIDE DEF S
    <2> QED
      BY <2>2, <2>3
  <1>5. PICK l \in Lines : /\ v \in {None, VendorOf[l]} /\ SnapsOf(S, l) # {}
                           /\ LatestOf(SnapsOf(S, l)).status = "AVAILABLE"
                           /\ \A s \in SnapsOf(S, l) : s.status = "AVAILABLE" => s.product = p
    BY DEF Stocked
  <1>6. ASSUME SnapsOf(snap, l) # {}, LatestOf(SnapsOf(snap, l)).status = "AVAILABLE"
        PROVE  watch[e].status = "IN_STOCK"
    <2>1. \A s \in SnapsOf(snap, l) : s.status = "AVAILABLE" => s.product = p
      BY <1>5 DEF SnapsOf
    <2>2. Stocked(snap, p, v)
      BY <1>5, <1>6, <2>1 DEF Stocked
    <2> QED
      BY <2>2 DEF EntryFits
  <1>7. CASE SnapsOf(news, l) = {}
    <2>1. SnapsOf(S, l) = SnapsOf(snap, l)
      BY <1>7 DEF SnapsOf
    <2> QED
      BY <1>4, <1>5, <1>6, <2>1
  <1>8. CASE SnapsOf(news, l) # {}
    <2>1. PICK s \in news : s.line = l
      BY <1>8 DEF SnapsOf
    <2>2. \A t \in SnapsOf(S, l) : t # s => t.at < s.at
      BY <1>1, <2>1 DEF SnapsOf, ChunkIsCurrent, ChunkFits
    <2>3. s \in SnapsOf(S, l) /\ Past(SnapsOf(S, l))
      BY <1>2, <2>1, PastKept DEF SnapsOf
    <2>4. LatestOf(SnapsOf(S, l)) = s
      BY <2>2, <2>3, LatestIsUnique
    <2>5. s.status = "AVAILABLE" /\ s.product = p
      BY <1>5, <2>3, <2>4
    <2>6. CASE PreviousOf(l).status = "AVAILABLE"
      <3>1. SnapsOf(snap, l) # {} /\ LatestOf(SnapsOf(snap, l)).status = "AVAILABLE"
        BY <2>6 DEF PreviousOf
      <3> QED
        BY <1>4, <1>6, <3>1
    <2>7. CASE PreviousOf(l).status # "AVAILABLE"
      <3>1. Told(s, worker[w].raised, PreviousOf(l))
        BY <1>1, <2>1 DEF ChunkIsCurrent
      <3>2. Transition(PreviousOf(l).status, s.status) # "NONE"
        BY <2>5, <2>7 DEF Transition
      <3>3. PICK ev \in worker[w].raised : ev.line = l /\ ev.product = s.product
        BY <2>1, <3>1, <3>2 DEF Told
      <3>4. Concerns(e, ev)
        BY <1>3, <1>5, <2>5, <3>3 DEF Concerns
      <3>5. PICK k \in DOMAIN rows : rows[k].line = l
        BY <1>1, <2>1 DEF ChunkFits, FromFile
      <3>6. ToldStatuses(w, e)[k] # {}
        BY <3>3, <3>4, <3>5 DEF ToldStatuses
      <3> QED
        BY <1>4, <3>6
    <2> QED
      BY <2>6, <2>7
  <1> QED
    BY <1>7, <1>8

LEMMA InsertMoves ==
    ASSUME Sound, Vendorwise, NEW w \in Workers, Holding(w), NEW e \in Entries, EntryFits(e)
    PROVE  /\ Chain(watch[e].status, MovesBy(w, e))
           /\ ~watch[e].active => MovesBy(w, e) = <<>>
           /\ watch[e].active /\ Stocked(snap \union worker[w].pending,
                                        watch[e].product, watch[e].vendor) =>
                StatusThen(e, MovesBy(w, e)) = "IN_STOCK"
  <1>1. MyJob(w) \in Jobs
    BY ChunkRowsFacts DEF Busy, Holding
  <1>2. Len(file[MyJob(w)]) \in Nat /\ DOMAIN file[MyJob(w)] = 1 .. Len(file[MyJob(w)])
    BY <1>1, FileFacts DEF Sound
  <1>3. watch[e].status \in OosStatuses
    BY DEF Sound, TypeOK, WatchRows
  <1>4. Chain(watch[e].status, MovesBy(w, e))
    BY <1>2, <1>3, MovesAreAChain
  <1>5. ASSUME ~watch[e].active PROVE MovesBy(w, e) = <<>>
    <2>1. \A k \in DOMAIN file[MyJob(w)] : ToldStatuses(w, e)[k] = {}
      BY <1>5 DEF ToldStatuses, Concerns
    <2> QED
      BY <1>2, <1>3, <2>1, MovesAreAChain
  <1>6. ASSUME watch[e].active, Stocked(snap \union worker[w].pending,
                                        watch[e].product, watch[e].vendor)
        PROVE  StatusThen(e, MovesBy(w, e)) = "IN_STOCK"
    <2>1. /\ \A k \in DOMAIN file[MyJob(w)] : ToldStatuses(w, e)[k] \subseteq {"IN_STOCK"}
          /\ \/ watch[e].status = "IN_STOCK"
             \/ \E k \in DOMAIN file[MyJob(w)] : ToldStatuses(w, e)[k] # {}
      BY <1>6, ChunkTellsOfStock
    <2> QED
      BY <1>2, <1>3, <2>1, MovesAreAChain
  <1> QED
    BY <1>4, <1>5, <1>6

\* Steps of a process that touch neither the watchlist nor the snapshots.
LEMMA SerialwiseKept ==
    ASSUME Serialwise, UNCHANGED <<snap, watch, history, buyer>>,
           \A x \in Workers, b \in Buyers : Busy(x)' => buyer[b].pc = "idle",
           \A x \in Workers : MovesFit(x)'
    PROVE  Serialwise'
  <1>1. \A e \in Entries : EntryFits(e)'
    BY DEF Serialwise, EntryFits
  <1>2. \A b \in Buyers : RequestFits(b)'
    BY DEF Serialwise, RequestFits
  <1> QED
    BY <1>1, <1>2 DEF Serialwise

LEMMA MovesStay ==
    ASSUME Serialwise, UNCHANGED <<snap, watch>>, NEW x \in Workers,
           worker'[x] = worker[x] \/ worker'[x].pc # "commit"
    PROVE  MovesFit(x)'
  <1>1. CASE worker'[x].pc # "commit"
    BY <1>1 DEF MovesFit
  <1>2. CASE worker'[x] = worker[x]
    <2>1. MovesFit(x)
      BY DEF Serialwise
    <2>2. worker'[x].pc = "commit" => worker[x].pc = "commit"
      BY <1>2
    <2> QED
      BY <1>2, <2>1, <2>2 DEF MovesFit, StatusThen
  <1> QED
    BY <1>1, <1>2

LEMMA StartSerialwise ==
    ASSUME Sound, Serialwise, discipline = "SERIAL",
           NEW w \in Workers, NEW j \in Jobs, Start(w, j)
    PROVE  Serialwise'
  <1> DEFINE new == [IdleWorker EXCEPT !.pc = "read", !.job = j]
  <1>1. /\ worker' = [worker EXCEPT ![w] = new] /\ MayStart(j)
        /\ UNCHANGED <<snap, watch, history, buyer>>
    BY DEF Start, dbVars
  <1>2. new.pc = "read"
    BY DEF IdleWorker
  <1> HIDE DEF new
  <1>3. worker'[w] = new /\ \A x \in Workers : x # w => worker'[x] = worker[x]
    BY <1>1 DEF Sound, TypeOK
  <1>4. \A b \in Buyers : buyer[b].pc = "idle"
    BY <1>1 DEF MayStart, BusyBuyers
  <1>5. \A x \in Workers : MovesFit(x)'
    BY <1>1, <1>2, <1>3, MovesStay
  <1> QED
    BY <1>1, <1>4, <1>5, SerialwiseKept

\* A process stops, or goes on without deciding anything.
LEMMA GoesOnSerialwise ==
    ASSUME Serialwise, NEW w \in Workers, UNCHANGED <<snap, watch, history, buyer>>,
           \A x \in Workers : x # w => worker'[x] = worker[x],
           worker'[w].pc # "commit", Busy(w)
    PROVE  Serialwise'
  <1>1. \A x \in Workers : MovesFit(x)'
    BY MovesStay
  <1>2. \A x \in Workers : Busy(x)' => Busy(x)
    BY DEF Busy
  <1> QED
    BY <1>1, <1>2, SerialwiseKept DEF Serialwise

LEMMA StopSerialwise ==
    ASSUME Sound, Serialwise, NEW w \in Workers, Busy(w),
           worker' = [worker EXCEPT ![w] = IdleWorker],
           UNCHANGED <<snap, watch, history, buyer>>
    PROVE  Serialwise'
  <1>1. worker'[w] = IdleWorker /\ \A x \in Workers : x # w => worker'[x] = worker[x]
    BY DEF Sound, TypeOK
  <1>2. worker'[w].pc # "commit"
    BY <1>1 DEF IdleWorker
  <1> QED
    BY <1>1, <1>2, GoesOnSerialwise

LEMMA BuildSerialwise ==
    ASSUME Sound, Serialwise, NEW w \in Workers, Build(w)
    PROVE  Serialwise'
  <1> DEFINE skip == [worker[w] EXCEPT !.next = worker[w].next + ChunkRows]
             new == [worker[w] EXCEPT
              !.pc = "insert",
              !.pending = {SnapshotOf(MyJob(w), r) : r \in Unobserved(w)},
              !.raised = {EventOf(MyJob(w), r) :
                             r \in {x \in Unobserved(w) : TransitionOf(x) # "NONE"}}]
  <1>1. /\ worker[w].pc = "read" /\ UNCHANGED <<snap, watch, history, buyer>>
        /\ worker[w] \in WorkerStates
        /\ worker' = [worker EXCEPT ![w] = IF Unobserved(w) = {} THEN skip ELSE new]
    BY WorkerTypes DEF Build, dbVars, Sound
  <1>2. skip.pc = "read" /\ new.pc = "insert"
    BY <1>1 DEF WorkerStates
  <1> HIDE DEF skip, new
  <1>3. /\ worker'[w] = IF Unobserved(w) = {} THEN skip ELSE new
        /\ \A x \in Workers : x # w => worker'[x] = worker[x]
    BY <1>1 DEF Sound, TypeOK
  <1>4. worker'[w].pc # "commit" /\ Busy(w)
    BY <1>1, <1>2, <1>3 DEF Busy
  <1> QED
    BY <1>1, <1>3, <1>4, GoesOnSerialwise

LEMMA InsertSerialwise ==
    ASSUME Sound, Vendorwise, Serialwise, NEW w \in Workers, Insert(w)
    PROVE  Serialwise'
  <1>1. /\ worker[w].pc = "insert" /\ Busy(w) /\ Holding(w)
        /\ UNCHANGED <<snap, watch, history, buyer>>
    BY InsertSteps DEF Busy, Holding
  <1>2. CASE Clash(w)
    BY <1>1, <1>2, InsertSteps, StopSerialwise
  <1>3. CASE ~Clash(w)
    <2>1. worker' = [worker EXCEPT ![w] = Decided(w)]
      BY <1>3, InsertSteps
    <2>2. worker'[w] = Decided(w) /\ \A x \in Workers : x # w => worker'[x] = worker[x]
      BY <2>1 DEF Sound, TypeOK
    <2>3. /\ worker'[w].pc = "commit" /\ worker'[w].pending = worker[w].pending
          /\ \A e \in Entries : worker'[w].moves[e] = MovesBy(w, e)
      <3>1. /\ Decided(w).pc = "commit" /\ Decided(w).pending = worker[w].pending
            /\ Decided(w).moves = [e \in Entries |-> MovesBy(w, e)]
        BY <1>1, DecidedFacts
      <3>2. \A e \in Entries : Decided(w).moves[e] = MovesBy(w, e)
        BY <3>1
      <3> QED
        BY <2>2, <3>1, <3>2
    <2>4. \A e \in Entries :
             /\ Chain(watch[e].status, MovesBy(w, e))
             /\ ~watch[e].active => MovesBy(w, e) = <<>>
             /\ watch[e].active /\ Stocked(snap \union worker[w].pending,
                                          watch[e].product, watch[e].vendor) =>
                  StatusThen(e, MovesBy(w, e)) = "IN_STOCK"
      BY <1>1, InsertMoves DEF Serialwise
    <2>5. MovesFit(w)'
      <3>1. \A e \in Entries :
               /\ Chain(watch'[e].status, worker'[w].moves[e])
               /\ ~watch'[e].active => worker'[w].moves[e] = <<>>
               /\ watch'[e].active /\ Stocked(snap' \union worker'[w].pending,
                                             watch'[e].product, watch'[e].vendor) =>
                    StatusThen(e, MovesBy(w, e)) = "IN_STOCK"
        BY <1>1, <2>3, <2>4
      <3>2. \A e \in Entries :
               StatusThen(e, MovesBy(w, e))
                 = IF worker'[w].moves[e] = <<>> THEN watch'[e].status
                   ELSE Last(worker'[w].moves[e]).to
        BY <1>1, <2>3 DEF StatusThen
      <3> QED
        BY <3>1, <3>2 DEF MovesFit, StatusThen
    <2>6. \A x \in Workers : MovesFit(x)'
      BY <1>1, <2>2, <2>5, MovesStay
    <2>7. \A x \in Workers : Busy(x)' => Busy(x)
      BY <1>1, <2>2 DEF Busy
    <2> QED
      BY <1>1, <2>6, <2>7, SerialwiseKept DEF Serialwise
  <1> QED
    BY <1>2, <1>3

LEMMA CommitSerialwise ==
    ASSUME Sound, Vendorwise, Serialwise, discipline = "SERIAL",
           NEW w \in Workers, Commit(w)
    PROVE  Serialwise'
  <1>1. /\ worker[w].pc = "commit" /\ Busy(w)
        /\ snap' = snap \union worker[w].pending
        /\ \A x \in Workers : x # w => worker'[x] = worker[x]
        /\ worker'[w].pc = "read"
        /\ UNCHANGED buyer
    BY CommitSteps
  <1>2. MovesFit(w)
    BY DEF Serialwise
  <1>3. \A x \in Workers : x # w => ~Busy(x)
    BY <1>1 DEF Vendorwise, Apart
  <1>4. \A b \in Buyers : buyer[b].pc = "idle"
    BY <1>1 DEF Serialwise
  <1>5. \A x \in Workers : MovesFit(x)'
    BY <1>1, <1>3 DEF MovesFit, Busy
  <1>6. \A b \in Buyers : RequestFits(b)'
    BY <1>1, <1>4 DEF RequestFits
  <1>7. ASSUME NEW e \in Entries
        PROVE  EntryFits(e)'
    <2> DEFINE m == worker[w].moves[e]
               end == StatusThen(e, m)
    <2>1. /\ watch'[e] = [watch[e] EXCEPT !.status = end]
          /\ history'[e] = history[e] \o m
      BY CommitSteps
    <2>2. /\ watch[e] \in WatchRows /\ watch[e].status \in OosStatuses
          /\ history[e] \in Seq(Moves) /\ m \in Seq(Moves)
      BY WorkerTypes DEF Sound, TypeOK, WatchRows
    <2>3. /\ Chain(watch[e].status, m)
          /\ ~watch[e].active => m = <<>>
          /\ watch[e].active /\ Stocked(snap', watch[e].product, watch[e].vendor) =>
               end = "IN_STOCK"
      BY <1>1, <1>2 DEF MovesFit
    <2>4. EntryFits(e)
      BY DEF Serialwise
    <2>5. EndsIn(history[e] \o m, end)
      BY <2>2, <2>3, <2>4, HistoryGrows DEF EntryFits
    <2> HIDE DEF m, end
    <2>6. /\ watch'[e].status = end /\ watch'[e].active = watch[e].active
          /\ watch'[e].product = watch[e].product /\ watch'[e].vendor = watch[e].vendor
      BY <2>1, <2>2 DEF WatchRows
    <2>7. watch[e].product = None => ~watch[e].active /\ history'[e] = <<>>
      <3>1. watch[e].product = None => history[e] = <<>> /\ m = <<>> /\ ~watch[e].active
        BY <2>3, <2>4 DEF EntryFits
      <3>2. history[e] = <<>> /\ m = <<>> => history[e] \o m = <<>>
        BY <2>2
      <3> QED
        BY <2>1, <3>1, <3>2
    <2>8. EndsIn(history'[e], watch'[e].status)
      BY <2>1, <2>5, <2>6
    <2> QED
      BY <2>3, <2>6, <2>7, <2>8 DEF EntryFits
  <1>8. \A x \in Workers, b \in Buyers : Busy(x)' => buyer'[b].pc = "idle"
    BY <1>1, <1>4
  <1> QED
    BY <1>5, <1>6, <1>7, <1>8 DEF Serialwise

\* Requests run when no import does.
LEMMA RequestsSerialwise ==
    ASSUME UNCHANGED <<snap, worker>>, \A x \in Workers : ~Busy(x),
           \A e \in Entries : EntryFits(e)',
           \A b \in Buyers : RequestFits(b)'
    PROVE  Serialwise'
  <1>1. \A x \in Workers : ~Busy(x)'
    BY DEF Busy
  <1>2. \A x \in Workers : MovesFit(x)'
    BY <1>1 DEF MovesFit, Busy
  <1> QED
    BY <1>1, <1>2 DEF Serialwise

LEMMA AskSerialwise ==
    ASSUME Sound, Serialwise, discipline = "SERIAL",
           NEW b \in Buyers, NEW p \in Products, NEW v \in Vendors \union {None},
           AskWatch(b, p, v)
    PROVE  Serialwise'
  <1> DEFINE entry == [active |-> TRUE, product |-> p, vendor |-> v, status |-> StatusNow(p, v)]
             new == [pc |-> "insert", entry |-> entry]
  <1>1. /\ buyer' = [buyer EXCEPT ![b] = new] /\ MayEdit
        /\ UNCHANGED <<snap, watch, history, worker>>
    BY DEF AskWatch, dbVars
  <1>2. \A x \in Workers : ~Busy(x)
    BY <1>1 DEF MayEdit, BusyWorkers, Busy
  <1>3. \A e \in Entries : EntryFits(e)'
    BY <1>1 DEF Serialwise, EntryFits
  <1>4. Stocked(snap, p, v) => StatusNow(p, v) = "IN_STOCK"
    <2>1. ASSUME Stocked(snap, p, v) PROVE "AVAILABLE" \in LatestStatuses(snap, p, v)
      BY <2>1, StockIsFound DEF AllSnaps
    <2> QED
      BY <2>1 DEF StatusNow
  <1>5. /\ new.pc = "insert" /\ new.entry.active /\ new.entry.product = p
        /\ new.entry.vendor = v /\ new.entry.status = StatusNow(p, v)
    OBVIOUS
  <1>6. p # None
    BY NoneAssumption
  <1> HIDE DEF new, entry
  <1>7. buyer'[b] = new /\ \A d \in Buyers : d # b => buyer'[d] = buyer[d]
    BY <1>1 DEF Sound, TypeOK
  <1>8. RequestFits(b)'
    <2>1. /\ buyer'[b].entry.active /\ buyer'[b].entry.product # None
          /\ Stocked(snap', buyer'[b].entry.product, buyer'[b].entry.vendor) =>
               buyer'[b].entry.status = "IN_STOCK"
      BY <1>1, <1>4, <1>5, <1>6, <1>7
    <2> QED
      BY <2>1 DEF RequestFits
  <1>9. \A d \in Buyers : RequestFits(d)'
    <2>1. ASSUME NEW d \in Buyers, d # b PROVE RequestFits(d)'
      BY <1>1, <1>7, <2>1 DEF Serialwise, RequestFits
    <2> QED
      BY <1>8, <2>1
  <1> QED
    BY <1>1, <1>2, <1>3, <1>9, RequestsSerialwise

LEMMA AddSerialwise ==
    ASSUME Sound, Serialwise, NEW b \in Buyers, AddWatch(b)
    PROVE  Serialwise'
  <1>1. /\ buyer[b].pc = "insert" /\ buyer' = [buyer EXCEPT ![b] = IdleBuyer]
        /\ UNCHANGED <<snap, history, worker>>
    BY DEF AddWatch
  <1>2. \A x \in Workers : ~Busy(x)
    BY <1>1 DEF Serialwise
  <1>3. RequestFits(b)
    BY DEF Serialwise
  <1>4. \A e \in Entries : EntryFits(e)'
    <2>1. CASE watch' = watch
      BY <1>1, <2>1 DEF Serialwise, EntryFits
    <2>2. CASE watch' # watch
      <3>1. FreeEntries # {} /\ FreeEntries \in SUBSET Entries
        BY <2>2 DEF AddWatch, FreeEntries
      <3>2. PICK f \in FreeEntries : f = CHOOSE e \in FreeEntries : \A k \in FreeEntries : e <= k
        BY <3>1, FirstEntry
      <3>3. watch' = [watch EXCEPT ![f] = buyer[b].entry]
        BY <2>2, <3>2 DEF AddWatch
      <3>4. f \in Entries /\ watch[f].product = None
        BY <3>2 DEF FreeEntries
      <3>5. watch'[f] = buyer[b].entry /\ \A e \in Entries : e # f => watch'[e] = watch[e]
        BY <3>3, <3>4 DEF Sound, TypeOK
      <3>6. history[f] = <<>>
        BY <3>4 DEF Serialwise, EntryFits
      <3>7. EndsIn(history'[f], watch'[f].status)
        BY <1>1, <3>6 DEF EndsIn
      <3>8. EntryFits(f)'
        BY <1>1, <1>3, <3>5, <3>7 DEF RequestFits, EntryFits
      <3>9. ASSUME NEW e \in Entries, e # f PROVE EntryFits(e)'
        BY <1>1, <3>5, <3>9 DEF Serialwise, EntryFits
      <3> QED
        BY <3>8, <3>9
    <2> QED
      BY <2>1, <2>2
  <1>5. \A d \in Buyers : RequestFits(d)'
    <2>1. buyer'[b] = IdleBuyer /\ \A d \in Buyers : d # b => buyer'[d] = buyer[d]
      BY <1>1 DEF Sound, TypeOK
    <2>2. RequestFits(b)'
      BY <2>1 DEF RequestFits, IdleBuyer
    <2>3. ASSUME NEW d \in Buyers, d # b PROVE RequestFits(d)'
      BY <1>1, <2>1, <2>3 DEF Serialwise, RequestFits
    <2> QED
      BY <2>2, <2>3
  <1> QED
    BY <1>1, <1>2, <1>4, <1>5, RequestsSerialwise

LEMMA RemoveSerialwise ==
    ASSUME Sound, Serialwise, discipline = "SERIAL", NEW f \in Entries, RemoveWatch(f)
    PROVE  Serialwise'
  <1>1. /\ MayEdit /\ watch[f].active /\ watch' = [watch EXCEPT ![f].active = FALSE]
        /\ UNCHANGED <<snap, history, worker, buyer>>
    BY DEF RemoveWatch
  <1>2. \A x \in Workers : ~Busy(x)
    BY <1>1 DEF MayEdit, BusyWorkers, Busy
  <1>3. watch[f] \in WatchRows
    BY DEF Sound, TypeOK
  <1>4. /\ watch'[f].active = FALSE /\ watch'[f].status = watch[f].status
        /\ watch'[f].product = watch[f].product
        /\ \A e \in Entries : e # f => watch'[e] = watch[e]
    BY <1>1, <1>3 DEF Sound, TypeOK, WatchRows
  <1>5. EntryFits(f)'
    BY <1>1, <1>4 DEF Serialwise, EntryFits
  <1>6. ASSUME NEW e \in Entries, e # f PROVE EntryFits(e)'
    BY <1>1, <1>4, <1>6 DEF Serialwise, EntryFits
  <1>7. \A b \in Buyers : RequestFits(b)'
    BY <1>1 DEF Serialwise, RequestFits
  <1> QED
    BY <1>1, <1>2, <1>5, <1>6, <1>7, RequestsSerialwise

LEMMA SerialStep ==
    ASSUME SerialInv, [Next]_vars
    PROVE  SerialInv'
  <1>1. Sound /\ VendorInv'
    BY VendorStep DEF SerialInv, VendorInv
  <1>2. discipline' = discipline
    BY DisciplineStays
  <1>3. ASSUME discipline = "SERIAL"
        PROVE  Serialwise'
    <2>1. Serialwise /\ Vendorwise
      BY <1>3 DEF SerialInv, VendorInv
    <2>2. ASSUME UNCHANGED <<snap, watch, history, worker, buyer>> PROVE Serialwise'
      <3>1. \A x \in Workers : MovesFit(x)'
        BY <2>1, <2>2, MovesStay
      <3>2. \A x \in Workers : Busy(x)' => Busy(x)
        BY <2>2 DEF Busy
      <3> QED
        BY <2>1, <2>2, <3>1, <3>2, SerialwiseKept DEF Serialwise
    <2>3. ASSUME NEW w \in Workers, WorkerStep(w) PROVE Serialwise'
      <3>1. CASE Finish(w)
        BY <1>1, <2>1, <3>1, StopSerialwise DEF Finish, Busy
      <3> QED
        BY <1>1, <1>3, <2>1, <2>3, <3>1, BuildSerialwise, InsertSerialwise, CommitSerialwise
           DEF WorkerStep
    <2>4. ASSUME NEW w \in Workers, Crash(w) PROVE Serialwise'
      BY <1>1, <2>1, <2>4, StopSerialwise DEF Crash, dbVars, Busy
    <2>5. CASE UNCHANGED vars
      BY <2>2, <2>5 DEF vars
    <2>6. ASSUME NEW j \in Jobs, NEW f \in Files, Import(j, f) PROVE Serialwise'
      BY <2>2, <2>6 DEF Import
    <2>7. CASE Next
      BY <1>1, <1>3, <2>1, <2>3, <2>4, <2>6, <2>7, StartSerialwise, AskSerialwise,
         AddSerialwise, RemoveSerialwise DEF Next
    <2> QED
      BY <2>5, <2>7
  <1> QED
    BY <1>1, <1>2, <1>3 DEF SerialInv

LEMMA SerialInit == Init => SerialInv
  <1> SUFFICES ASSUME Init PROVE SerialInv
    OBVIOUS
  <1>1. /\ snap = {} /\ watch = [e \in Entries |-> AbsentWatch]
        /\ history = [e \in Entries |-> <<>>]
        /\ worker = [w \in Workers |-> IdleWorker] /\ buyer = [b \in Buyers |-> IdleBuyer]
    BY DEF Init
  <1>2. IdleWorker.pc = "idle" /\ IdleBuyer.pc = "idle" /\ ~AbsentWatch.active
    BY DEF IdleWorker, IdleBuyer, AbsentWatch
  <1>3. \A w \in Workers : ~Busy(w) /\ MovesFit(w)
    BY <1>1, <1>2 DEF Busy, MovesFit
  <1>4. \A b \in Buyers : RequestFits(b)
    BY <1>1, <1>2 DEF RequestFits
  <1>5. \A e \in Entries : EntryFits(e)
    BY <1>1, <1>2 DEF EntryFits, EndsIn
  <1> QED
    BY <1>3, <1>4, <1>5, VendorInit DEF SerialInv, Serialwise

\* With one import at a time and requests in between, entries know of the stock
\* and a chunk in hand is about to tell them of its own.
THEOREM SerialInvariance == Spec => []SerialInv
  BY SerialInit, SerialStep, PTL DEF Spec

\* A buyer waiting for a product hears of stock when imports do not overlap, if
\* the line was mapped to the product before it was available.
THEOREM NoStockIsMissed == Spec => []NoMissedStock
  <1>1. SerialInv => NoMissedStock
    <2> SUFFICES ASSUME SerialInv, discipline = "SERIAL", NEW e \in Entries,
                        watch[e].active, watch[e].status # "IN_STOCK", NEW l \in Lines,
                        Watched(e, l), AlwaysAsWatched(e, l), CurrentOf(l).status = "AVAILABLE"
                 PROVE  FALSE
      BY DEF NoMissedStock
    <2>1. Stocked(snap, watch[e].product, watch[e].vendor)
      BY DEF Watched, Observed, AlwaysAsWatched, CurrentOf, Stocked
    <2> QED
      BY <2>1 DEF SerialInv, Serialwise, EntryFits
  <1> QED
    BY <1>1, SerialInvariance, PTL

\* AC-10.2: an entry's history is a chain of changes ending in its status.
THEOREM HistoriesAreChains == Spec => []HistoryIsAChain
  <1>1. SerialInv => HistoryIsAChain
    <2> SUFFICES ASSUME SerialInv, discipline = "SERIAL", NEW e \in Entries,
                        NEW k \in DOMAIN history[e]
                 PROVE  /\ history[e][k].from # history[e][k].to
                        /\ IF k < Len(history[e])
                           THEN history[e][k].to = history[e][k + 1].from
                           ELSE history[e][k].to = watch[e].status
      BY DEF HistoryIsAChain
    <2>1. EndsIn(history[e], watch[e].status)
      BY DEF SerialInv, Serialwise, EntryFits
    <2>2. /\ history[e][k].from # history[e][k].to
          /\ history[e][k].to = IF k < Len(history[e]) THEN history[e][k + 1].from
                                ELSE watch[e].status
      BY <2>1 DEF EndsIn
    <2> QED
      BY <2>2
  <1> QED
    BY <1>1, SerialInvariance, PTL
=============================================================================
