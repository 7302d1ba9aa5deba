-------------------------- MODULE VendorMail_proofs --------------------------
(***************************************************************************)
(* For every set of sources, mailbox, page size and number of polls,       *)
(* crashes, retries and uploads: imports are applied in the order of their *)
(* messages, content is imported once, what belongs to two vendors is      *)
(* routed to neither, and an interrupted import blocks its source.         *)
(***************************************************************************)
EXTENDS VendorMail, FiniteSetTheorems, TLAPS

----------------------------------------------------------------------------
(* The inductive invariant *)

\* A delivery is being applied, and the import it goes on with is known.
Hand == {"decide", "link", "check", "work", "parse", "stage", "result"}
Following == Hand \ {"decide"}

\* The advisory lock.
OneAtATime ==
    \A p, q \in Pollers : poller[p].pc # "idle" /\ poller[q].pc # "idle" => p = q

InHand(s, m) ==
    \E p \in Pollers : poller[p].pc \in Hand /\ Src(p) = s /\ Msg(p) = m

Tries == MaxAttempts + spent.crashes

Done == {j \in DOMAIN job : job[j].done # 0}

\* The import j may be the one that a delivery of message m to source s has.
JobRef(s, m, j) ==
    j # 0 => /\ j \in DOMAIN job
             /\ job[j].feed = FeedOf[s]
             /\ spent.pauses = 0 => ~Ambiguous(m, Sources)

OneLiveJob ==
    \A i, k \in DOMAIN job :
        i # k /\ job[i].feed = job[k].feed /\ job[i].content = job[k].content
            => job[i].status = "FAILED" \/ job[k].status = "FAILED"

\* Imports are numbered in the order they complete, and only uploads complete
\* with error rows.
CompletionsOK ==
    /\ \A j \in DOMAIN job :
         /\ job[j].done = 0 <=> job[j].status \notin {"COMPLETED", "COMPLETED_WITH_ERRORS"}
         /\ job[j].done <= Cardinality(Done)
         /\ job[j].status = "COMPLETED_WITH_ERRORS" => spent.uploads > 0
    /\ \A i, k \in DOMAIN job : i # k /\ job[i].done # 0 => job[i].done # job[k].done

DeliveryOK(s, m) ==
    LET d == delivery[s][m] IN
    /\ d.status = "ABSENT" => d.job = 0
    /\ d.status # "ABSENT" => mail[m] # NoMail
    /\ JobRef(s, m, d.job)
    /\ d.status = "COMPLETED" => m <= source[s].success
    /\ Imported(s, m) => job[d.job].status = "COMPLETED"
    /\ d.attempts <= Tries
    /\ d.status \in Due /\ ~InHand(s, m) => d.attempts < Tries

SourceOK(s) == spent.pauses = 0 => source[s].active

\* The i-th delivery selected: what the session holds of it is what the row has,
\* or had before an operator forgot its import.
EntryOK(p, i) ==
    LET e == poller[p].queue[i] IN
    /\ mail[e.m] # NoMail
    /\ \A k \in DOMAIN poller[p].queue :
         i # k /\ poller[p].queue[k].s = e.s => poller[p].queue[k].m # e.m
    /\ e.copy.read => /\ JobRef(e.s, e.m, e.copy.job)
                      /\ delivery[e.s][e.m].job \in {0, e.copy.job}
    /\ i > 1 \/ poller[p].pc = "apply" =>
         /\ delivery[e.s][e.m].status \in Due
         /\ e.copy.read => e.copy.attempts < Tries

QueueOK(p) ==
    /\ poller[p].pc \in {"apply"} \union Hand =>
         \A i \in DOMAIN poller[p].queue : EntryOK(p, i)
    /\ poller[p].pc \in Hand => poller[p].queue # <<>>
    /\ poller[p].pc = "record" => \A d \in poller[p].todo : mail[d[2]] # NoMail

\* No import of the source's feed completed after the one in hand.
Leads(p) ==
    /\ \A m \in Messages :
         Imported(Src(p), m) => JobOf(Src(p), m).done <= MyJob(p).done
    /\ spent.uploads = 0 =>
         \A k \in DOMAIN job :
             job[k].feed = FeedOf[Src(p)] => job[k].done <= MyJob(p).done

HandOK(p) ==
    /\ poller[p].pc \in Hand =>
         /\ delivery[Src(p)][Msg(p)].status = "RUNNING"
         /\ Mine(p).read
    /\ poller[p].pc \in Following =>
         /\ poller[p].job # 0
         /\ JobRef(Src(p), Msg(p), poller[p].job)
         /\ Msg(p) >= source[Src(p)].success
    /\ poller[p].pc \in Following \ {"link"} => Mine(p).job = poller[p].job
    /\ poller[p].pc = "link" => Others(Src(p), Msg(p)) = {}
    /\ poller[p].pc = "parse" => MyJob(p).status = "PARSING"
    /\ poller[p].pc = "stage" => MyJob(p).status = "STAGED"
    /\ poller[p].pc = "result" => MyJob(p).status = "COMPLETED"
    /\ poller[p].pc \in {"work", "result"} /\ MyJob(p).status = "COMPLETED" => Leads(p)

Typed == TypeOK /\ spent \in [DOMAIN Bounds -> Nat]

IInv ==
    /\ Typed
    /\ OneAtATime
    /\ OneLiveJob
    /\ CompletionsOK
    /\ \A s \in Sources, m \in Messages : DeliveryOK(s, m)
    /\ \A s \in Sources : SourceOK(s)
    /\ \A p \in Pollers : QueueOK(p)
    /\ \A p \in Pollers : HandOK(p)
    /\ AppliedInOrder

----------------------------------------------------------------------------
(* Types of what the actions build *)

USE SourcesAssumption, LimitsAssumption, BoundsAssumption

LEMMA Limits ==
    IInv => /\ spent.crashes \in 0 .. MaxCrashes
            /\ spent.uploads \in Nat /\ spent.pauses \in Nat
            /\ Tries \in 1 .. MaxAttempts + MaxCrashes
            /\ MaxAttempts <= Tries
    BY DEF IInv, Typed, TypeOK, Bounds, Tries

LEMMA IdleTypes == AbsentDelivery \in DeliveryRows /\ IdlePoller \in PollerStates
    BY DEF AbsentDelivery, IdlePoller, DeliveryRows, PollerStates, Statuses, Attempts

\* A delivery selected, with its parts.
LEMMA EntryTypes ==
    ASSUME NEW e \in Entries
    PROVE  e.s \in Sources /\ e.m \in Messages /\ e.copy \in Copies
    BY DEF Entries

LEMMA CopyTypes ==
    /\ Unread \in Copies /\ ~Unread.read
    /\ \A d \in DeliveryRows : /\ Read(d) \in Copies /\ Read(d).read
                              /\ Read(d).attempts = d.attempts /\ Read(d).job = d.job
    /\ \A c \in Copies : c.attempts \in Nat
    BY DEF Unread, Read, Copies, DeliveryRows, Attempts

\* What a poll is doing, and the first delivery it selected.
LEMMA Holds ==
    ASSUME IInv, NEW p \in Pollers
    PROVE  /\ poller[p] \in PollerStates
           /\ poller[p].queue \in Seq(Entries)
           /\ \A i \in DOMAIN poller[p].queue : poller[p].queue[i] \in Entries
           /\ poller[p].queue # <<>> =>
                /\ 1 \in DOMAIN poller[p].queue
                /\ Head(poller[p].queue) = poller[p].queue[1]
                /\ Src(p) = poller[p].queue[1].s /\ Msg(p) = poller[p].queue[1].m
                /\ Mine(p) = poller[p].queue[1].copy
                /\ Src(p) \in Sources /\ Msg(p) \in Messages /\ Mine(p) \in Copies
                /\ delivery[Src(p)][Msg(p)] \in DeliveryRows
                /\ source[Src(p)] \in SourceRows
<1>1. poller[p] \in PollerStates
    BY DEF IInv, Typed, TypeOK
<1>2. poller[p].queue \in Seq(Entries)
    BY <1>1 DEF PollerStates
<1>3. \A i \in DOMAIN poller[p].queue : poller[p].queue[i] \in Entries
    BY <1>2
<1>4. ASSUME poller[p].queue # <<>>
      PROVE  /\ 1 \in DOMAIN poller[p].queue
             /\ Head(poller[p].queue) = poller[p].queue[1]
    BY <1>2, <1>4
<1>5. ASSUME poller[p].queue # <<>>
      PROVE  /\ Src(p) = poller[p].queue[1].s /\ Msg(p) = poller[p].queue[1].m
             /\ Mine(p) = poller[p].queue[1].copy
             /\ Src(p) \in Sources /\ Msg(p) \in Messages /\ Mine(p) \in Copies
    BY <1>3, <1>4, <1>5, EntryTypes DEF Src, Msg, Mine
<1>6. ASSUME poller[p].queue # <<>>
      PROVE  delivery[Src(p)][Msg(p)] \in DeliveryRows /\ source[Src(p)] \in SourceRows
    BY <1>5, <1>6 DEF IInv, Typed, TypeOK
<1> QED BY <1>1, <1>2, <1>3, <1>4, <1>5, <1>6

\* Giving one poll a new state.
LEMMA PutPoller ==
    ASSUME IInv, NEW p \in Pollers, NEW new \in PollerStates,
           poller' = [poller EXCEPT ![p] = new]
    PROVE  /\ poller' \in [Pollers -> PollerStates]
           /\ poller'[p] = new
           /\ \A q \in Pollers \ {p} : poller'[q] = poller[q]
    BY DEF IInv, Typed, TypeOK

\* Giving one delivery a new row.
LEMMA PutDelivery ==
    ASSUME IInv, NEW s \in Sources, NEW m \in Messages, NEW row \in DeliveryRows,
           delivery' = [delivery EXCEPT ![s][m] = row]
    PROVE  /\ delivery' \in [Sources -> [Messages -> DeliveryRows]]
           /\ delivery'[s][m] = row
           /\ \A t \in Sources, n \in Messages :
                t # s \/ n # m => delivery'[t][n] = delivery[t][n]
    BY DEF IInv, Typed, TypeOK

\* A function on 1 .. n is a sequence.
LEMMA IsASeq ==
    ASSUME NEW S, NEW n \in Nat, NEW f, f = [i \in 1 .. n |-> f[i]],
           \A i \in 1 .. n : f[i] \in S
    PROVE  f \in Seq(S) /\ Len(f) = n /\ DOMAIN f = 1 .. n
    OBVIOUS

\* A rollback forgets what the session held of the deliveries selected.
LEMMA ForgetTypes ==
    ASSUME NEW state \in PollerStates
    PROVE  /\ Forget(state) \in PollerStates
           /\ Forget(state).pc = state.pc /\ Forget(state).job = state.job
           /\ Forget(state).todo = state.todo
           /\ DOMAIN Forget(state).queue = DOMAIN state.queue
           /\ Forget(state).queue \in Seq(Entries)
           /\ \A i \in DOMAIN state.queue :
                /\ Forget(state).queue[i].s = state.queue[i].s
                /\ Forget(state).queue[i].m = state.queue[i].m
                /\ Forget(state).queue[i].copy = Unread
<1> DEFINE q == state.queue
           new == [i \in DOMAIN q |-> [q[i] EXCEPT !.copy = Unread]]
<1>1. q \in Seq(Entries)
    BY DEF PollerStates
<1>2. \A i \in DOMAIN q : new[i] \in Entries /\ new[i].s = q[i].s
                          /\ new[i].m = q[i].m /\ new[i].copy = Unread
  <2> TAKE i \in DOMAIN q
  <2>1. q[i] \in Entries /\ new[i] = [q[i] EXCEPT !.copy = Unread]
      BY <1>1
  <2> QED BY <2>1, CopyTypes DEF Entries
<1>3. new \in Seq(Entries)
  <2>1. Len(q) \in Nat /\ DOMAIN q = 1 .. Len(q)
      BY <1>1
  <2>2. new = [i \in 1 .. Len(q) |-> new[i]]
      BY <2>1
  <2> HIDE DEF new
  <2> QED BY <1>2, <2>1, <2>2, IsASeq
<1>4. Forget(state) = [state EXCEPT !.held = {}, !.queue = new]
    BY DEF Forget
<1> HIDE DEF new
<1>5. /\ Forget(state) \in PollerStates /\ Forget(state).queue = new
      /\ Forget(state).pc = state.pc /\ Forget(state).job = state.job
      /\ Forget(state).todo = state.todo
    BY <1>3, <1>4 DEF PollerStates
<1>6. DOMAIN new = DOMAIN q
    BY DEF new
<1> QED BY <1>2, <1>3, <1>5, <1>6

\* What is left of the selection once its first delivery is done with.
LEMMA NextTypes ==
    ASSUME IInv, NEW p \in Pollers, poller[p].queue # <<>>
    PROVE  LET new == NextDelivery(p) IN
           /\ new \in PollerStates
           /\ new.pc = "apply"
           /\ new.queue = Tail(poller[p].queue)
           /\ new.queue \in Seq(Entries)
           /\ \A i \in DOMAIN new.queue : /\ i + 1 \in DOMAIN poller[p].queue
                                         /\ new.queue[i] = poller[p].queue[i + 1]
<1>1. poller[p] \in PollerStates /\ poller[p].queue \in Seq(Entries)
    BY Holds
<1>2. /\ Tail(poller[p].queue) \in Seq(Entries)
      /\ \A i \in DOMAIN Tail(poller[p].queue) :
            /\ i + 1 \in DOMAIN poller[p].queue
            /\ Tail(poller[p].queue)[i] = poller[p].queue[i + 1]
    BY <1>1
<1> QED BY <1>1, <1>2 DEF NextDelivery, PollerStates

----------------------------------------------------------------------------
(* What no step undoes, and what it therefore keeps *)

Grows ==
    /\ \A m \in Messages : mail[m] # NoMail => mail'[m] = mail[m]
    /\ \A s \in Sources : source[s].success <= source'[s].success
    /\ DOMAIN job \subseteq DOMAIN job'
    /\ \A j \in DOMAIN job : /\ job'[j].feed = job[j].feed
                             /\ job[j].status = "COMPLETED" => job'[j] = job[j]
    /\ spent.crashes <= spent'.crashes /\ spent'.crashes \in 0 .. MaxCrashes
    /\ spent.pauses <= spent'.pauses /\ spent.uploads <= spent'.uploads
    /\ spent'.pauses \in Nat /\ spent'.uploads \in Nat
    /\ source' \in [Sources -> SourceRows]

LEMMA TriesGrow ==
    ASSUME IInv, Grows
    PROVE  Tries \in Nat /\ Tries' \in Nat /\ Tries <= Tries'
    BY Limits DEF Grows, Tries

LEMMA BelowTries ==
    ASSUME IInv, Grows, NEW a \in Nat, a < Tries
    PROVE  a < Tries'
    BY TriesGrow

LEMMA RefKept ==
    ASSUME IInv, Grows, NEW s \in Sources, NEW m \in Messages, NEW j,
           JobRef(s, m, j), mail[m] # NoMail
    PROVE  JobRef(s, m, j)'
<1>1. Ambiguous(m, Sources)' = Ambiguous(m, Sources)
    BY DEF Grows, Ambiguous
<1>2. spent'.pauses = 0 => spent.pauses = 0
    BY Limits DEF Grows
<1> QED BY <1>1, <1>2 DEF Grows, JobRef

\* A delivery whose row is left alone, unless it is dropped without a crash.
LEMMA DeliveryKept ==
    ASSUME IInv, Grows, NEW s \in Sources, NEW m \in Messages,
           delivery'[s][m] = delivery[s][m],
           InHand(s, m) => InHand(s, m)' \/ spent.crashes < spent'.crashes
    PROVE  DeliveryOK(s, m)'
<1> DEFINE d == delivery[s][m]
<1>1. DeliveryOK(s, m) /\ d \in DeliveryRows
    BY DEF IInv, Typed, TypeOK
<1>2. d.status = "ABSENT" => d.job = 0
    BY <1>1 DEF DeliveryOK
<1>3. d.status # "ABSENT" => mail'[m] # NoMail
    BY <1>1 DEF DeliveryOK, Grows
<1>4. JobRef(s, m, d.job)'
    <2>1. CASE d.job = 0
        BY <2>1 DEF JobRef
    <2>2. CASE d.job # 0
        BY <1>1, <1>2, <2>2, RefKept DEF DeliveryOK
    <2> QED BY <2>1, <2>2
<1>5. d.status = "COMPLETED" => m <= source'[s].success
    BY <1>1 DEF DeliveryOK, Grows, IInv, Typed, TypeOK, SourceRows, Messages
<1>6. Imported(s, m)' => job'[d.job].status = "COMPLETED"
    BY <1>1 DEF DeliveryOK, Grows, Imported, JobRef
<1>7. d.attempts <= Tries'
    BY <1>1, Limits DEF DeliveryOK, Grows, Tries, DeliveryRows, Attempts
<1>8. d.status \in Due /\ ~InHand(s, m)' => d.attempts < Tries'
    BY <1>1, Limits DEF DeliveryOK, Grows, Tries, DeliveryRows, Attempts
<1> QED BY <1>2, <1>3, <1>4, <1>5, <1>6, <1>7, <1>8 DEF DeliveryOK

LEMMA OrderKept ==
    ASSUME IInv, Grows,
           \A s \in Sources, m \in Messages :
               Imported(s, m)' => Imported(s, m) /\ delivery'[s][m].job = delivery[s][m].job
    PROVE  AppliedInOrder'
<1> SUFFICES ASSUME NEW s \in Sources, NEW m \in Messages, NEW n \in Messages, m < n,
                    Imported(s, m)', Imported(s, n)',
                    delivery'[s][m].job # delivery'[s][n].job
             PROVE  JobOf(s, m)'.done < JobOf(s, n)'.done
    BY DEF AppliedInOrder
<1>1. /\ Imported(s, m) /\ Imported(s, n)
      /\ delivery'[s][m].job = delivery[s][m].job
      /\ delivery'[s][n].job = delivery[s][n].job
    OBVIOUS
<1>2. JobOf(s, m).done < JobOf(s, n).done
    BY <1>1 DEF IInv, AppliedInOrder
<1>3. \A k \in {m, n} : /\ delivery[s][k].job \in DOMAIN job
                        /\ JobOf(s, k).status = "COMPLETED"
    BY <1>1 DEF IInv, DeliveryOK, JobRef, Imported, JobOf
<1>4. JobOf(s, m)' = JobOf(s, m) /\ JobOf(s, n)' = JobOf(s, n)
    BY <1>1, <1>3 DEF Grows, JobOf
<1> QED BY <1>2, <1>4

LEMMA SameJobs ==
    ASSUME IInv, job' = job, spent.uploads \in Nat, spent'.uploads \in Nat,
           spent.uploads <= spent'.uploads
    PROVE  OneLiveJob' /\ CompletionsOK'
<1>1. Done' = Done
    BY DEF Done
<1> QED BY <1>1 DEF IInv, OneLiveJob, CompletionsOK

\* The lock: while one poll is busy, the others are not.
LEMMA Alone ==
    ASSUME IInv, NEW p \in Pollers, poller[p].pc # "idle" \/ LockFree,
           \A q \in Pollers \ {p} : poller'[q] = poller[q]
    PROVE  /\ \A q \in Pollers \ {p} : poller[q].pc = "idle"
           /\ OneAtATime'
           /\ \A q \in Pollers \ {p} : QueueOK(q)' /\ HandOK(q)'
<1>1. \A q \in Pollers \ {p} : poller[q].pc = "idle" /\ poller'[q].pc = "idle"
    BY DEF IInv, OneAtATime, LockFree
<1>2. OneAtATime'
    BY <1>1 DEF OneAtATime
<1>3. \A q \in Pollers \ {p} : QueueOK(q)' /\ HandOK(q)'
    BY <1>1 DEF QueueOK, HandOK, Hand, Following
<1> QED BY <1>1, <1>2, <1>3

\* Nobody but a busy poll has a delivery in hand.
LEMMA InOwnHand ==
    ASSUME IInv, NEW p \in Pollers, poller[p].pc # "idle" \/ LockFree,
           NEW s, NEW m
    PROVE  InHand(s, m) <=> poller[p].pc \in Hand /\ Src(p) = s /\ Msg(p) = m
    BY DEF IInv, OneAtATime, LockFree, InHand, Hand

\* The k-th delivery selected, e, becomes the i-th one, f: its row is left alone,
\* and the session's copy is too, or is forgotten.
Alike(p, k, i, e, f) ==
    /\ poller[p].pc \in {"apply"} \union Hand
    /\ k \in DOMAIN poller[p].queue /\ e = poller[p].queue[k]
    /\ f = poller'[p].queue[i]
    /\ f.s = e.s /\ f.m = e.m /\ f.copy \in {e.copy, Unread}
    /\ delivery'[e.s][e.m].status \in Due \/ ~(k > 1 \/ poller[p].pc = "apply")
    /\ delivery'[e.s][e.m].job \in {0, delivery[e.s][e.m].job}
    /\ \A l \in DOMAIN poller'[p].queue :
         i # l /\ poller'[p].queue[l].s = e.s => poller'[p].queue[l].m # e.m
    /\ i > 1 \/ poller'[p].pc = "apply" => k > 1 \/ poller[p].pc = "apply"

LEMMA EntryKept ==
    ASSUME IInv, Grows, NEW p \in Pollers, NEW k, NEW i, NEW e, NEW f,
           Alike(p, k, i, e, f)
    PROVE  EntryOK(p, i)'
<1>1. EntryOK(p, k) /\ e \in Entries
    BY Holds DEF IInv, QueueOK, Alike
<1>2. e.s \in Sources /\ e.m \in Messages /\ e.copy \in Copies
    BY <1>1, EntryTypes
<1>3. e = poller[p].queue[k] /\ f = poller'[p].queue[i] /\ f.s = e.s /\ f.m = e.m
    BY DEF Alike
<1>4. mail[e.m] # NoMail /\ mail'[f.m] # NoMail
    BY <1>1, <1>2, <1>3 DEF EntryOK, Grows
<1>5. f.copy.read => f.copy = e.copy /\ e.copy.read
    BY CopyTypes DEF Alike
<1>6. ASSUME f.copy.read
      PROVE  JobRef(f.s, f.m, f.copy.job)' /\ delivery'[f.s][f.m].job \in {0, f.copy.job}
    <2>1. JobRef(e.s, e.m, e.copy.job) /\ delivery[e.s][e.m].job \in {0, e.copy.job}
        BY <1>1, <1>3, <1>5, <1>6 DEF EntryOK
    <2>2. JobRef(e.s, e.m, e.copy.job)'
        BY <1>2, <1>4, <2>1, RefKept
    <2>3. delivery'[e.s][e.m].job \in {0, e.copy.job}
        BY <2>1 DEF Alike
    <2> QED BY <1>3, <1>5, <1>6, <2>2, <2>3
<1>7. ASSUME i > 1 \/ poller'[p].pc = "apply"
      PROVE  /\ delivery'[f.s][f.m].status \in Due
             /\ f.copy.read => f.copy.attempts < Tries'
    <2>1. k > 1 \/ poller[p].pc = "apply"
        BY <1>7 DEF Alike
    <2>2. e.copy.read => e.copy.attempts < Tries
        BY <1>1, <1>3, <2>1 DEF EntryOK
    <2>3. e.copy.attempts \in Nat
        BY <1>2, CopyTypes
    <2>4. e.copy.attempts < Tries => e.copy.attempts < Tries'
        BY <2>3, BelowTries
    <2>5. delivery'[f.s][f.m].status \in Due
        BY <1>3, <2>1 DEF Alike
    <2> QED BY <1>5, <2>2, <2>4, <2>5
<1>8. \A l \in DOMAIN poller'[p].queue :
        i # l /\ poller'[p].queue[l].s = f.s => poller'[p].queue[l].m # f.m
    BY <1>3 DEF Alike
<1> QED BY <1>3, <1>4, <1>6, <1>7, <1>8 DEF EntryOK

\* Going on with the delivery in hand.
LEMMA Advance ==
    ASSUME IInv, Grows, NEW p \in Pollers, poller[p].pc \in Hand,
           NEW new \in PollerStates, poller' = [poller EXCEPT ![p] = new],
           new.pc \in Hand, new.queue = poller[p].queue, delivery' = delivery
    PROVE  /\ OneAtATime' /\ poller' \in [Pollers -> PollerStates]
           /\ \A s \in Sources, m \in Messages : DeliveryOK(s, m)'
           /\ \A q \in Pollers : QueueOK(q)'
           /\ \A q \in Pollers \ {p} : HandOK(q)'
           /\ poller'[p] = new /\ poller'[p].queue = poller[p].queue
           /\ AppliedInOrder'
<1>1. /\ poller' \in [Pollers -> PollerStates] /\ poller'[p] = new
      /\ \A q \in Pollers \ {p} : poller'[q] = poller[q]
    BY PutPoller
<1>2. /\ OneAtATime'
      /\ \A q \in Pollers \ {p} : QueueOK(q)' /\ HandOK(q)'
    BY <1>1, Alone DEF Hand
<1>3. ASSUME NEW s \in Sources, NEW m \in Messages
      PROVE  DeliveryOK(s, m)'
  <2>1. InHand(s, m) => InHand(s, m)'
      BY <1>1, InOwnHand DEF InHand, Src, Msg, Hand
  <2> QED BY <2>1, DeliveryKept
<1>4. QueueOK(p)'
  <2>1. poller[p].queue # <<>> /\ \A i \in DOMAIN poller[p].queue : EntryOK(p, i)
      BY DEF IInv, QueueOK
  <2>2. ASSUME NEW i \in DOMAIN poller[p].queue
        PROVE  EntryOK(p, i)'
    <3> DEFINE e == poller[p].queue[i]
    <3>1. \A l \in DOMAIN poller[p].queue :
            i # l /\ poller[p].queue[l].s = e.s => poller[p].queue[l].m # e.m
        BY <2>1 DEF EntryOK
    <3>2. PICK f : f = e
        OBVIOUS
    <3>3. e = poller[p].queue[i] /\ poller'[p].queue = poller[p].queue
        BY <1>1
    <3>4. poller'[p].pc # "apply" /\ poller[p].pc # "apply"
        BY <1>1 DEF Hand
    <3>5. i > 1 => delivery[e.s][e.m].status \in Due
        BY <2>1 DEF EntryOK
    <3> HIDE DEF e
    <3>6. PICK c : c = e
        OBVIOUS
    <3>7. Alike(p, i, i, c, f)
        BY <1>1, <3>1, <3>2, <3>3, <3>4, <3>5, <3>6 DEF Alike
    <3> QED BY <3>7, EntryKept
  <2>3. poller'[p].pc \notin {"apply", "poll", "record"}
      BY <1>1 DEF Hand
  <2> QED BY <1>1, <2>1, <2>2, <2>3 DEF QueueOK
<1>5. AppliedInOrder'
  <2>1. \A s \in Sources, m \in Messages :
          Imported(s, m)' => Imported(s, m) /\ delivery'[s][m].job = delivery[s][m].job
      BY DEF Imported
  <2> QED BY <2>1, OrderKept
<1> QED BY <1>1, <1>2, <1>3, <1>4, <1>5

\* Being done with the delivery in hand, m of source s: its row becomes row, and
\* the poll goes on with the rest of its selection.
Leaves(p, s, m, row, new) ==
    /\ poller[p].pc \in Hand /\ s = Src(p) /\ m = Msg(p)
    /\ delivery' = [delivery EXCEPT ![s][m] = row]
    /\ poller' = [poller EXCEPT ![p] = new]
    /\ row.job = delivery[s][m].job /\ row.attempts = delivery[s][m].attempts
    /\ new.pc = "apply"
    /\ \A i \in DOMAIN new.queue :
         /\ i + 1 \in DOMAIN poller[p].queue /\ i \in Nat \ {0}
         /\ new.queue[i].s = poller[p].queue[i + 1].s
         /\ new.queue[i].m = poller[p].queue[i + 1].m
         /\ new.queue[i].copy \in {poller[p].queue[i + 1].copy, Unread}

\* What the delivery may be left as.
MayBe(s, m, row) ==
    /\ row.status # "ABSENT"
    /\ row.status \in Due => row.attempts < MaxAttempts
    /\ row.status = "COMPLETED" =>
         /\ m <= source'[s].success
         /\ row.job # 0 => job'[row.job].status = "COMPLETED"

LEMMA LeavesRow ==
    ASSUME IInv, Grows, NEW p \in Pollers, NEW s \in Sources, NEW m \in Messages,
           NEW row \in DeliveryRows, NEW new \in PollerStates,
           Leaves(p, s, m, row, new), MayBe(s, m, row)
    PROVE  DeliveryOK(s, m)'
<1> DEFINE d == delivery[s][m]
<1>1. DeliveryOK(s, m) /\ d.status = "RUNNING" /\ d \in DeliveryRows
    BY DEF IInv, HandOK, Leaves, Typed, TypeOK
<1>2. delivery'[s][m] = row /\ row.job = d.job /\ row.attempts = d.attempts
    BY PutDelivery DEF Leaves
<1>3. mail[m] # NoMail /\ mail'[m] # NoMail
    BY <1>1 DEF DeliveryOK, Grows
<1>4. JobRef(s, m, row.job)
    BY <1>1, <1>2 DEF DeliveryOK
<1>5. JobRef(s, m, row.job)'
    BY <1>3, <1>4, RefKept
<1>6. row.attempts \in Nat /\ row.attempts <= Tries /\ MaxAttempts <= Tries
    BY <1>1, <1>2, Limits DEF DeliveryOK, DeliveryRows, Attempts
<1>7. row.attempts <= Tries'
    BY <1>6, TriesGrow
<1>8. row.status \in Due => row.attempts < Tries'
  <2>1. row.status \in Due => row.attempts < MaxAttempts
      BY DEF MayBe
  <2>2. MaxAttempts \in Nat
      OBVIOUS
  <2> QED BY <1>6, <2>1, <2>2, TriesGrow
<1> HIDE DEF d
<1> QED BY <1>2, <1>3, <1>5, <1>7, <1>8 DEF DeliveryOK, MayBe, Imported

LEMMA LeavesEntry ==
    ASSUME IInv, Grows, NEW p \in Pollers, NEW s \in Sources, NEW m \in Messages,
           NEW row \in DeliveryRows, NEW new \in PollerStates,
           Leaves(p, s, m, row, new), NEW i \in DOMAIN new.queue
    PROVE  EntryOK(p, i)'
<1> DEFINE q == poller[p].queue
<1>1. /\ q # <<>> /\ \A k \in DOMAIN q : EntryOK(p, k)
      /\ 1 \in DOMAIN q /\ s = q[1].s /\ m = q[1].m
    BY Holds DEF IInv, QueueOK, Leaves
<1>2. PICK k, e, f : k = i + 1 /\ e = q[k] /\ f = new.queue[i]
    OBVIOUS
<1>3. /\ k \in DOMAIN q /\ i \in Nat \ {0} /\ f.s = e.s /\ f.m = e.m
      /\ f.copy \in {e.copy, Unread}
  <2> HIDE DEF q
  <2> QED BY <1>2 DEF Leaves, q
<1>4. k > 1 /\ k # 1
    BY <1>2, <1>3
<1>5. e \in Entries /\ e.s \in Sources /\ e.m \in Messages
    BY <1>2, <1>3, Holds, EntryTypes
<1>6. e.s = s => e.m # m
    BY <1>1, <1>2, <1>3, <1>4 DEF EntryOK
<1>7. delivery'[e.s][e.m] = delivery[e.s][e.m]
    BY <1>5, <1>6, PutDelivery DEF Leaves
<1>8. \A l \in DOMAIN new.queue :
        i # l /\ new.queue[l].s = e.s => new.queue[l].m # e.m
  <2> SUFFICES ASSUME NEW l \in DOMAIN new.queue, i # l
               PROVE  new.queue[l].s = e.s => new.queue[l].m # e.m
      OBVIOUS
  <2>1. /\ l + 1 \in DOMAIN q /\ l \in Nat
        /\ new.queue[l].s = q[l + 1].s /\ new.queue[l].m = q[l + 1].m
      BY DEF Leaves
  <2>2. l + 1 # k
    <3> HIDE DEF q
    <3> QED BY <1>2, <1>3, <2>1
  <2>3. q[l + 1].s = e.s => q[l + 1].m # e.m
      BY <1>1, <1>2, <1>3, <2>1, <2>2 DEF EntryOK
  <2> QED BY <2>1, <2>3
<1>9. poller'[p] = new /\ poller[p].pc \in Hand
    BY PutPoller DEF Leaves
<1>10. delivery'[e.s][e.m].status \in Due
    BY <1>1, <1>2, <1>3, <1>4, <1>7 DEF EntryOK
<1> HIDE DEF q
<1>11. Alike(p, k, i, e, f)
    BY <1>2, <1>3, <1>4, <1>7, <1>8, <1>9, <1>10 DEF Alike, q
<1> QED BY <1>11, EntryKept

LEMMA LeavesOK ==
    ASSUME IInv, Grows, NEW p \in Pollers, NEW s \in Sources, NEW m \in Messages,
           NEW row \in DeliveryRows, NEW new \in PollerStates,
           Leaves(p, s, m, row, new), MayBe(s, m, row)
    PROVE  /\ OneAtATime' /\ poller' \in [Pollers -> PollerStates]
           /\ delivery' \in [Sources -> [Messages -> DeliveryRows]]
           /\ \A t \in Sources, n \in Messages : DeliveryOK(t, n)'
           /\ \A q \in Pollers : QueueOK(q)' /\ HandOK(q)'
           /\ row.status # "COMPLETED" => AppliedInOrder'
<1>1. /\ poller' \in [Pollers -> PollerStates] /\ poller'[p] = new
      /\ \A r \in Pollers \ {p} : poller'[r] = poller[r]
    BY PutPoller DEF Leaves
<1>2. /\ delivery' \in [Sources -> [Messages -> DeliveryRows]]
      /\ delivery'[s][m] = row
      /\ \A t \in Sources, n \in Messages :
            t # s \/ n # m => delivery'[t][n] = delivery[t][n]
  <2>1. delivery' = [delivery EXCEPT ![s][m] = row]
      BY DEF Leaves
  <2>2. delivery \in [Sources -> [Messages -> DeliveryRows]]
      BY DEF IInv, Typed, TypeOK
  <2> QED BY <2>1, <2>2
<1>3. /\ OneAtATime'
      /\ \A r \in Pollers \ {p} : QueueOK(r)' /\ HandOK(r)'
    BY <1>1, Alone DEF Leaves, Hand
<1>4. ASSUME NEW t \in Sources, NEW n \in Messages
      PROVE  DeliveryOK(t, n)'
  <2>1. CASE t = s /\ n = m
      BY <2>1, LeavesRow
  <2>2. CASE ~(t = s /\ n = m)
    <3>1. ~InHand(t, n)
        BY <2>2, InOwnHand DEF Hand, Leaves
    <3> QED BY <1>2, <2>2, <3>1, DeliveryKept
  <2> QED BY <2>1, <2>2
<1>5. QueueOK(p)' /\ HandOK(p)'
  <2>1. \A i \in DOMAIN poller'[p].queue : EntryOK(p, i)'
      BY <1>1, LeavesEntry
  <2>2. poller'[p].pc = "apply"
      BY <1>1 DEF Leaves
  <2> QED BY <2>1, <2>2 DEF QueueOK, HandOK, Hand, Following
<1>6. ASSUME row.status # "COMPLETED" PROVE AppliedInOrder'
  <2>1. \A t \in Sources, n \in Messages :
          Imported(t, n)' => Imported(t, n) /\ delivery'[t][n].job = delivery[t][n].job
      BY <1>2, <1>6 DEF Imported
  <2> QED BY <2>1, OrderKept
<1> QED BY <1>1, <1>2, <1>3, <1>4, <1>5, <1>6

\* Settle and SettleError leave the delivery in hand.
LEMMA SettleLeaves ==
    ASSUME IInv, NEW p \in Pollers, poller[p].pc \in Hand,
           NEW status \in Statuses, NEW waiting \in BOOLEAN,
           Settle(p, status, waiting) \/ SettleError(p, status, waiting)
    PROVE  \E s \in Sources, m \in Messages, row \in DeliveryRows, new \in PollerStates :
               /\ Leaves(p, s, m, row, new)
               /\ row.status = status
<1> DEFINE q == poller[p].queue
           s == Src(p)
           m == Msg(p)
           row == [delivery[s][m] EXCEPT !.status = status, !.waiting = waiting]
           rest == NextDelivery(p)
<1>1. q # <<>> /\ s \in Sources /\ m \in Messages /\ delivery[s][m] \in DeliveryRows
    BY Holds DEF IInv, QueueOK
<1>2. /\ row \in DeliveryRows /\ row.status = status
      /\ row.job = delivery[s][m].job /\ row.attempts = delivery[s][m].attempts
    BY <1>1 DEF DeliveryRows
<1>3. /\ rest \in PollerStates /\ rest.pc = "apply" /\ rest.queue \in Seq(Entries)
      /\ \A i \in DOMAIN rest.queue : i + 1 \in DOMAIN q /\ rest.queue[i] = q[i + 1]
    BY <1>1, NextTypes
<1>4. \A i \in DOMAIN rest.queue : i \in Nat \ {0}
    BY <1>3
<1>5. delivery' = [delivery EXCEPT ![s][m] = row]
    BY DEF Settle, SettleError
<1>6. \/ poller' = [poller EXCEPT ![p] = rest]
      \/ poller' = [poller EXCEPT ![p] = Forget(rest)]
    BY DEF Settle, SettleError
<1> HIDE DEF s, m, row, rest
<1>7. CASE poller' = [poller EXCEPT ![p] = rest]
  <2>1. Leaves(p, s, m, row, rest)
      BY <1>2, <1>3, <1>4, <1>5, <1>7 DEF Leaves, s, m
  <2> QED BY <1>1, <1>2, <1>3, <2>1
<1>8. CASE poller' = [poller EXCEPT ![p] = Forget(rest)]
  <2> DEFINE new == Forget(rest)
  <2>1. /\ new \in PollerStates /\ new.pc = "apply"
        /\ DOMAIN new.queue = DOMAIN rest.queue
        /\ \A i \in DOMAIN rest.queue : /\ new.queue[i].s = rest.queue[i].s
                                        /\ new.queue[i].m = rest.queue[i].m
                                        /\ new.queue[i].copy = Unread
      BY <1>3, ForgetTypes
  <2> HIDE DEF new
  <2>2. Leaves(p, s, m, row, new)
      BY <1>2, <1>3, <1>4, <1>5, <1>8, <2>1 DEF Leaves, s, m, new
  <2> QED BY <1>1, <1>2, <2>1, <2>2
<1> QED BY <1>6, <1>7, <1>8

\* Whatever ends the work on the delivery in hand without completing it.
LEMMA Settled ==
    ASSUME IInv, Grows, NEW p \in Pollers, poller[p].pc \in Hand,
           NEW status \in Statuses \ {"ABSENT", "COMPLETED"}, NEW waiting \in BOOLEAN,
           Settle(p, status, waiting) \/ SettleError(p, status, waiting),
           status \in Due => delivery[Src(p)][Msg(p)].attempts < MaxAttempts
    PROVE  /\ OneAtATime' /\ poller' \in [Pollers -> PollerStates]
           /\ delivery' \in [Sources -> [Messages -> DeliveryRows]]
           /\ \A t \in Sources, n \in Messages : DeliveryOK(t, n)'
           /\ \A q \in Pollers : QueueOK(q)' /\ HandOK(q)'
           /\ AppliedInOrder'
<1>1. PICK s \in Sources, m \in Messages, row \in DeliveryRows, new \in PollerStates :
          Leaves(p, s, m, row, new) /\ row.status = status
    BY SettleLeaves
<1>2. MayBe(s, m, row)
    BY <1>1 DEF MayBe, Leaves
<1> QED BY <1>1, <1>2, LeavesOK

LEMMA Reviewed ==
    ASSUME IInv, Grows, NEW p \in Pollers, poller[p].pc \in Hand,
           Review(p) \/ Retry(p)
    PROVE  /\ OneAtATime' /\ poller' \in [Pollers -> PollerStates]
           /\ delivery' \in [Sources -> [Messages -> DeliveryRows]]
           /\ \A t \in Sources, n \in Messages : DeliveryOK(t, n)'
           /\ \A q \in Pollers : QueueOK(q)' /\ HandOK(q)'
           /\ AppliedInOrder'
<1>1. CASE SettleError(p, "NEEDS_REVIEW", FALSE)
    BY <1>1, Settled DEF Statuses, Due
<1>2. CASE /\ SettleError(p, "FAILED", TRUE)
           /\ delivery[Src(p)][Msg(p)].attempts < MaxAttempts
    BY <1>2, Settled DEF Statuses, Due
<1> QED BY <1>1, <1>2 DEF Review, Retry

----------------------------------------------------------------------------
(* Steps that leave imports and sources alone *)

\* What a step may disturb through the deliveries and the polls.
Flow ==
    /\ OneAtATime
    /\ \A s \in Sources, m \in Messages : DeliveryOK(s, m)
    /\ \A p \in Pollers : QueueOK(p)
    /\ \A p \in Pollers : HandOK(p)
    /\ AppliedInOrder

\* ... and through the imports and the sources.
Base ==
    /\ OneLiveJob
    /\ CompletionsOK
    /\ \A s \in Sources : SourceOK(s)

LEMMA Whole == IInv <=> Typed /\ Flow /\ Base
    BY DEF IInv, Flow, Base

LEMMA Spends ==
    ASSUME IInv, NEW b \in DOMAIN Bounds, Spend(b)
    PROVE  /\ spent' \in [DOMAIN Bounds -> Nat]
           /\ \A c \in DOMAIN Bounds : spent'[c] \in 0 .. Bounds[c]
           /\ \A c \in DOMAIN Bounds \ {b} : spent'[c] = spent[c]
           /\ spent'[b] = spent[b] + 1
<1>1. /\ spent \in [DOMAIN Bounds -> Nat] /\ spent[b] < Bounds[b]
      /\ spent' = [spent EXCEPT ![b] = @ + 1]
      /\ \A c \in DOMAIN Bounds : spent[c] \in 0 .. Bounds[c]
    BY DEF Spend, IInv, Typed, TypeOK
<1>2. \A c \in DOMAIN Bounds : Bounds[c] \in Nat
    BY DEF Bounds
<1> QED BY <1>1, <1>2

Apart == UNCHANGED <<mail, source, job>> /\ (UNCHANGED spent \/ Spend("faults"))

LEMMA ApartKeeps ==
    ASSUME IInv, Apart
    PROVE  /\ Grows /\ Base'
           /\ spent' \in [DOMAIN Bounds -> Nat]
           /\ \A b \in DOMAIN Bounds : spent'[b] \in 0 .. Bounds[b]
           /\ mail' \in [Messages -> MailRows] /\ source' \in [Sources -> SourceRows]
           /\ job' \in Seq(JobRows) /\ Len(job') <= MaxJobs
<1>1. /\ spent' \in [DOMAIN Bounds -> Nat]
      /\ \A b \in DOMAIN Bounds : spent'[b] \in 0 .. Bounds[b]
      /\ \A b \in DOMAIN Bounds \ {"faults"} : spent'[b] = spent[b]
    BY Spends DEF Apart, IInv, Typed, TypeOK, Bounds
<1>2. /\ spent'.crashes = spent.crashes /\ spent'.pauses = spent.pauses
      /\ spent'.uploads = spent.uploads
    BY <1>1 DEF Bounds
<1>3. /\ mail' \in [Messages -> MailRows] /\ source' \in [Sources -> SourceRows]
      /\ job' \in Seq(JobRows) /\ Len(job') <= MaxJobs
    BY DEF Apart, IInv, Typed, TypeOK
<1>4. Grows
  <2>1. \A s \in Sources : source[s].success \in Nat /\ source'[s] = source[s]
      BY DEF Apart, IInv, Typed, TypeOK, SourceRows, Messages
  <2> QED BY <1>2, <1>3, <2>1, Limits DEF Grows, Apart
<1>5. OneLiveJob' /\ CompletionsOK'
    BY <1>2, Limits, SameJobs DEF Apart
<1>6. \A s \in Sources : SourceOK(s)'
    BY <1>2 DEF IInv, SourceOK, Apart
<1> QED BY <1>1, <1>3, <1>4, <1>5, <1>6 DEF Base

LEMMA TypesKept ==
    ASSUME IInv, Apart, Flow', seen' \subseteq Messages,
           delivery' \in [Sources -> [Messages -> DeliveryRows]],
           poller' \in [Pollers -> PollerStates]
    PROVE  IInv'
<1>1. /\ Base' /\ spent' \in [DOMAIN Bounds -> Nat]
      /\ \A b \in DOMAIN Bounds : spent'[b] \in 0 .. Bounds[b]
      /\ mail' \in [Messages -> MailRows] /\ source' \in [Sources -> SourceRows]
      /\ job' \in Seq(JobRows) /\ Len(job') <= MaxJobs
    BY ApartKeeps
<1>2. Typed'
    BY <1>1 DEF Typed, TypeOK, Bounds
<1> QED BY <1>1, <1>2 DEF IInv, Flow, Base

\* A poll moves on with no delivery in hand.
LEMMA PollMoves ==
    ASSUME IInv, Apart, NEW p \in Pollers, NEW new \in PollerStates,
           poller[p].pc \notin Hand, poller[p].pc # "idle" \/ LockFree,
           new.pc \notin Hand, poller' = [poller EXCEPT ![p] = new],
           delivery' = delivery, seen' \subseteq Messages,
           new.pc = "record" => \A d \in new.todo : mail[d[2]] # NoMail,
           new.pc = "apply" => \A i \in DOMAIN new.queue : EntryOK(p, i)'
    PROVE  IInv'
<1>1. Grows
    BY ApartKeeps
<1>2. /\ poller' \in [Pollers -> PollerStates] /\ poller'[p] = new
      /\ \A q \in Pollers \ {p} : poller'[q] = poller[q]
    BY PutPoller
<1>3. /\ OneAtATime'
      /\ \A q \in Pollers \ {p} : QueueOK(q)' /\ HandOK(q)'
    BY <1>2, Alone
<1>4. \A s \in Sources, m \in Messages : DeliveryOK(s, m)'
  <2> SUFFICES ASSUME NEW s \in Sources, NEW m \in Messages PROVE DeliveryOK(s, m)'
      OBVIOUS
  <2>1. ~InHand(s, m)
      BY InOwnHand
  <2> QED BY <1>1, <2>1, DeliveryKept
<1>5. QueueOK(p)' /\ HandOK(p)'
  <2>1. new.pc = "record" => \A d \in new.todo : mail'[d[2]] # NoMail
      BY DEF Apart
  <2>2. poller'[p].pc \notin Hand
      BY <1>2
  <2>3. HandOK(p)'
      BY <2>2 DEF HandOK, Hand, Following
  <2>4. QueueOK(p)'
      BY <1>2, <2>1, <2>2 DEF QueueOK
  <2> QED BY <2>3, <2>4
<1>6. AppliedInOrder'
  <2>1. \A s \in Sources, m \in Messages :
          Imported(s, m)' => Imported(s, m) /\ delivery'[s][m].job = delivery[s][m].job
      BY DEF Imported
  <2> QED BY <1>1, <2>1, OrderKept
<1>7. Flow' /\ delivery' \in [Sources -> [Messages -> DeliveryRows]]
    BY <1>3, <1>4, <1>5, <1>6 DEF Flow, IInv, Typed, TypeOK
<1> QED BY <1>2, <1>7, TypesKept

LEMMA StartPollStep ==
    ASSUME IInv, NEW p \in Pollers, StartPoll(p)
    PROVE  IInv'
<1> DEFINE new == [IdlePoller EXCEPT !.pc = "poll", !.held = Active]
<1>1. new \in PollerStates /\ new.pc = "poll"
    BY IdleTypes DEF PollerStates, IdlePoller, Active
<1>2. /\ poller[p].pc = "idle" /\ LockFree /\ poller' = [poller EXCEPT ![p] = new]
      /\ delivery' = delivery /\ seen' \subseteq Messages /\ Apart
    BY DEF StartPoll, Apart, IInv, Typed, TypeOK
<1> HIDE DEF new
<1> QED BY <1>1, <1>2, PollMoves DEF Hand

LEMMA FetchPageStep ==
    ASSUME IInv, NEW p \in Pollers, FetchPage(p)
    PROVE  IInv'
<1> DEFINE todo(S) == {d \in Sources \X S : d[1] \in Concerned(d[2], poller[p].held)}
           more(S) == ~(Arrived \subseteq seen \union S)
           new(S) == [poller[p] EXCEPT !.pc = "record", !.fetched = S, !.pages = @ + 1,
                                       !.more = more(S), !.todo = todo(S)]
<1>1. PICK S \in SUBSET (Arrived \ seen) :
        poller' = [poller EXCEPT ![p] = [@ EXCEPT
            !.pc = "record", !.fetched = S, !.pages = poller[p].pages + 1,
            !.more = more(S), !.todo = todo(S)]]
    BY Zenon DEF FetchPage
<1>2. S \subseteq Messages /\ \A m \in S : mail[m] # NoMail
    BY DEF Arrived
<1>3. todo(S) \in SUBSET (Sources \X Messages) /\ \A d \in todo(S) : d[2] \in S
    BY <1>2
<1>4. more(S) \in BOOLEAN
    OBVIOUS
<1>5. poller[p] \in PollerStates
    BY Holds
<1> HIDE DEF todo, more
<1>6. /\ new(S) \in PollerStates /\ new(S).pc = "record" /\ new(S).todo = todo(S)
      /\ poller' = [poller EXCEPT ![p] = new(S)]
  <2>1. poller' = [poller EXCEPT ![p] = new(S)]
      BY <1>1
  <2>2. poller[p].pages + 1 \in Nat /\ S \in SUBSET Messages
      BY <1>2, <1>5 DEF PollerStates
  <2>3. new(S) \in PollerStates /\ new(S).pc = "record" /\ new(S).todo = todo(S)
      BY <1>3, <1>4, <1>5, <2>2 DEF PollerStates
  <2> QED BY <2>1, <2>3
<1>7. /\ poller[p].pc = "poll" /\ delivery' = delivery
      /\ seen' \subseteq Messages /\ Apart
    BY DEF FetchPage, Apart, IInv, Typed, TypeOK
<1> HIDE DEF new
<1> QED BY <1>1, <1>2, <1>3, <1>6, <1>7, PollMoves DEF Hand

LEMMA GiveUpMoves ==
    ASSUME IInv, NEW p \in Pollers, GiveUp(p)
    PROVE  \E new \in PollerStates :
               poller' = [poller EXCEPT ![p] = new] /\ new.pc = "select"
<1> DEFINE old == Forget(poller[p])
           new == [old EXCEPT !.pc = "select", !.todo = {}, !.fetched = {}]
<1>1. old \in PollerStates
    BY Holds, ForgetTypes
<1>2. poller' = [poller EXCEPT ![p] = new]
    BY DEF GiveUp
<1> HIDE DEF old
<1>3. new \in PollerStates /\ new.pc = "select"
    BY <1>1 DEF PollerStates
<1> QED BY <1>2, <1>3

LEMMA PollFailsStep ==
    ASSUME IInv, NEW p \in Pollers, PollFails(p)
    PROVE  IInv'
<1>1. PICK new \in PollerStates :
          poller' = [poller EXCEPT ![p] = new] /\ new.pc = "select"
    BY GiveUpMoves DEF PollFails
<1>2. /\ poller[p].pc \in {"poll", "record"} /\ delivery' = delivery
      /\ seen' \subseteq Messages /\ Apart
    BY DEF PollFails, Apart, IInv, Typed, TypeOK
<1> QED BY <1>1, <1>2, PollMoves DEF Hand

LEMMA RecordFailsStep ==
    ASSUME IInv, NEW p \in Pollers, RecordFails(p)
    PROVE  IInv'
<1>1. PICK new \in PollerStates :
          poller' = [poller EXCEPT ![p] = new] /\ new.pc = "select"
    BY GiveUpMoves DEF RecordFails
<1>2. /\ poller[p].pc = "record" /\ delivery' = delivery
      /\ seen' \subseteq Messages /\ Apart
    BY DEF RecordFails, Apart, IInv, Typed, TypeOK
<1> QED BY <1>1, <1>2, PollMoves DEF Hand

LEMMA CheckpointStep ==
    ASSUME IInv, NEW p \in Pollers, Checkpoint(p)
    PROVE  IInv'
<1>1. PICK pc \in {"poll", "select"} :
        poller' = [poller EXCEPT ![p] = [@ EXCEPT
                      !.fetched = {}, !.todo = {}, !.pc = pc]]
    BY DEF Checkpoint
<1> DEFINE new == [poller[p] EXCEPT !.fetched = {}, !.todo = {}, !.pc = pc]
<1>2. new \in PollerStates /\ new.pc = pc
    BY Holds DEF PollerStates
<1>3. poller' = [poller EXCEPT ![p] = new]
    BY <1>1
<1>4. poller[p].fetched \subseteq Messages
    BY Holds DEF PollerStates
<1>5. /\ poller[p].pc = "record" /\ delivery' = delivery
      /\ seen' \subseteq Messages /\ Apart
    BY <1>4 DEF Checkpoint, Apart, IInv, Typed, TypeOK
<1> HIDE DEF new
<1> QED BY <1>2, <1>3, <1>5, PollMoves DEF Hand

LEMMA EndPollStep ==
    ASSUME IInv, NEW p \in Pollers, EndPoll(p)
    PROVE  IInv'
<1>1. IdlePoller \in PollerStates /\ IdlePoller.pc = "idle"
    BY IdleTypes DEF IdlePoller
<1>2. /\ poller[p].pc = "apply" /\ delivery' = delivery
      /\ poller' = [poller EXCEPT ![p] = IdlePoller]
      /\ seen' \subseteq Messages /\ Apart
    BY DEF EndPoll, Apart, IInv, Typed, TypeOK
<1> QED BY <1>1, <1>2, PollMoves DEF Hand

LEMMA RecordStep ==
    ASSUME IInv, NEW p \in Pollers, NEW s \in Sources, NEW m \in Messages, Record(p, s, m)
    PROVE  IInv'
<1> DEFINE rest == poller[p].todo \ {<<s, m>>}
           new == [poller[p] EXCEPT !.todo = rest]
<1>1. /\ poller[p].pc = "record" /\ <<s, m>> \in poller[p].todo
      /\ poller' = [poller EXCEPT ![p] = new]
      /\ seen' \subseteq Messages /\ Apart
    BY DEF Record, Apart, IInv, Typed, TypeOK
<1>2. poller[p] \in PollerStates
    BY Holds
<1> HIDE DEF rest
<1>3. new \in PollerStates /\ new.pc = "record" /\ new.todo \subseteq poller[p].todo
    BY <1>1, <1>2 DEF PollerStates, rest
<1>4. \A d \in poller[p].todo : mail[d[2]] # NoMail
    BY <1>1 DEF IInv, QueueOK
<1>5. mail[m] # NoMail
    BY <1>1, <1>4
<1> HIDE DEF new
<1>6. CASE delivery' = delivery
    BY <1>1, <1>3, <1>4, <1>6, PollMoves DEF Hand
<1>7. ASSUME NEW status \in {"NEEDS_REVIEW", "PENDING"},
             delivery[s][m].status = "ABSENT",
             delivery' = [delivery EXCEPT ![s][m] = [AbsentDelivery EXCEPT !.status = status]]
      PROVE  IInv'
  <2> DEFINE row == [AbsentDelivery EXCEPT !.status = status]
  <2>1. row \in DeliveryRows /\ row.job = 0 /\ row.status = status /\ row.attempts = 0
      BY IdleTypes DEF AbsentDelivery, DeliveryRows, Statuses, Due
  <2> HIDE DEF row
  <2>2. /\ delivery' \in [Sources -> [Messages -> DeliveryRows]]
        /\ delivery'[s][m] = row
        /\ \A t \in Sources, n \in Messages :
             t # s \/ n # m => delivery'[t][n] = delivery[t][n]
    <3>1. delivery' = [delivery EXCEPT ![s][m] = row]
        BY <1>7 DEF row
    <3>2. delivery \in [Sources -> [Messages -> DeliveryRows]]
        BY DEF IInv, Typed, TypeOK
    <3> QED BY <2>1, <3>1, <3>2
  <2>3. /\ poller' \in [Pollers -> PollerStates] /\ poller'[p] = new
        /\ \A q \in Pollers \ {p} : poller'[q] = poller[q]
      BY <1>1, <1>3, PutPoller
  <2>4. /\ OneAtATime'
        /\ \A q \in Pollers \ {p} : QueueOK(q)' /\ HandOK(q)'
      BY <1>1, <2>3, Alone
  <2>5. Grows
      BY <1>1, ApartKeeps
  <2>6. ASSUME NEW t \in Sources, NEW n \in Messages PROVE DeliveryOK(t, n)'
    <3>1. CASE t = s /\ n = m
      <4>1. Tries' \in Nat /\ Tries \in Nat /\ Tries > 0 /\ Tries <= Tries'
          BY <2>5, Limits, TriesGrow
      <4>2. mail'[m] # NoMail
          BY <1>1, <1>5 DEF Apart
      <4> QED BY <2>1, <2>2, <3>1, <4>1, <4>2 DEF DeliveryOK, JobRef, Imported
    <3>2. CASE ~(t = s /\ n = m)
      <4>1. ~InHand(t, n)
          BY <1>1, InOwnHand DEF Hand
      <4> QED BY <2>2, <2>5, <3>2, <4>1, DeliveryKept
    <3> QED BY <3>1, <3>2
  <2>7. poller'[p].pc = "record" /\ \A d \in poller'[p].todo : mail'[d[2]] # NoMail
      BY <1>1, <1>3, <1>4, <2>3 DEF Apart
  <2>8. QueueOK(p)' /\ HandOK(p)'
      BY <2>7 DEF QueueOK, HandOK, Hand, Following
  <2>9. \A t \in Sources, n \in Messages :
          Imported(t, n)' => Imported(t, n) /\ delivery'[t][n].job = delivery[t][n].job
      BY <2>1, <2>2 DEF Imported
  <2>10. AppliedInOrder'
      BY <2>5, <2>9, OrderKept
  <2>11. Flow'
      BY <2>4, <2>6, <2>8, <2>10 DEF Flow
  <2> QED BY <1>1, <2>2, <2>3, <2>11, TypesKept
<1>8. \/ delivery' = delivery
      \/ /\ delivery[s][m].status = "ABSENT"
         /\ \E status \in {"NEEDS_REVIEW", "PENDING"} :
              delivery' = [delivery EXCEPT ![s][m] = [AbsentDelivery EXCEPT !.status = status]]
    BY DEF Record
<1> QED BY <1>6, <1>7, <1>8

LEMMA SelectStep ==
    ASSUME IInv, NEW p \in Pollers, Select(p)
    PROVE  IInv'
<1> DEFINE due == {d \in Sources \X Messages : DueNow(d[1], d[2])}
           n == IF Cardinality(due) <= MaxDeliveries THEN Cardinality(due) ELSE MaxDeliveries
           entry(d) == [s |-> d[1], m |-> d[2], copy |-> Read(delivery[d[1]][d[2]])]
           queue(q) == [i \in 1 .. n |-> entry(q[i])]
           new(q) == [poller[p] EXCEPT !.pc = "apply", !.queue = queue(q)]
<1>1. PICK q \in [1 .. n -> due] :
        /\ \A i, k \in 1 .. n : i < k => q[i] # q[k] /\ q[i][2] <= q[k][2]
        /\ \A d \in due : \A i \in 1 .. n : d[2] < q[i][2] => \E k \in 1 .. n : q[k] = d
        /\ poller' = [poller EXCEPT ![p] = [@ EXCEPT !.pc = "apply", !.queue = queue(q)]]
    BY Zenon DEF Select
<1>2. n \in Nat
  <2>1. IsFiniteSet(Messages)
    <3>1. 1 \in Int /\ MaxMails \in Int
        OBVIOUS
    <3>2. IsFiniteSet(1 .. MaxMails)
        BY <3>1, FS_Interval
    <3> QED BY <3>2 DEF Messages
  <2>2. IsFiniteSet(Sources \X Messages)
      BY <2>1, FS_Product
  <2>3. IsFiniteSet(due)
      BY <2>2, FS_Subset
  <2>4. Cardinality(due) \in Nat
      BY <2>3, FS_CardinalityType
  <2> QED BY <2>4
<1>3. \A d \in due : /\ d \in Sources \X Messages /\ d = <<d[1], d[2]>>
                     /\ d[1] \in Sources /\ d[2] \in Messages
                     /\ DueNow(d[1], d[2])
    OBVIOUS
<1> HIDE DEF n, due
<1>4. \A d \in due : /\ entry(d) \in Entries /\ entry(d).s = d[1] /\ entry(d).m = d[2]
                     /\ entry(d).copy = Read(delivery[d[1]][d[2]])
  <2>1. \A d \in due : Read(delivery[d[1]][d[2]]) \in Copies
      BY <1>3, CopyTypes DEF IInv, Typed, TypeOK
  <2> QED BY <1>3, <2>1 DEF Entries
<1> HIDE DEF entry
<1>5. /\ queue(q) \in Seq(Entries) /\ DOMAIN queue(q) = 1 .. n
      /\ \A i \in 1 .. n : queue(q)[i] = entry(q[i])
  <2>1. \A i \in 1 .. n : queue(q)[i] \in Entries /\ queue(q)[i] = entry(q[i])
      BY <1>4
  <2>2. queue(q) = [i \in 1 .. n |-> queue(q)[i]]
      OBVIOUS
  <2> HIDE DEF queue
  <2> QED BY <1>2, <2>1, <2>2, IsASeq
<1> HIDE DEF queue
<1>6. /\ new(q) \in PollerStates /\ new(q).pc = "apply" /\ new(q).queue = queue(q)
      /\ poller' = [poller EXCEPT ![p] = new(q)]
  <2>1. poller[p] \in PollerStates
      BY Holds
  <2>2. poller' = [poller EXCEPT ![p] = new(q)]
      BY <1>1
  <2> QED BY <1>5, <2>1, <2>2 DEF PollerStates
<1>7. /\ poller'[p] = new(q) /\ DOMAIN poller'[p].queue = 1 .. n
      /\ \A i \in 1 .. n : /\ q[i] \in due
                          /\ poller'[p].queue[i] = entry(q[i])
                          /\ poller'[p].queue[i].s = q[i][1]
                          /\ poller'[p].queue[i].m = q[i][2]
  <2>1. poller'[p] = new(q)
      BY <1>6, PutPoller
  <2>2. \A i \in 1 .. n : q[i] \in due
      BY <1>1
  <2>3. poller'[p].queue = queue(q)
      BY <1>6, <2>1
  <2>4. \A i \in 1 .. n : /\ poller'[p].queue[i] = entry(q[i])
                          /\ entry(q[i]).s = q[i][1] /\ entry(q[i]).m = q[i][2]
      BY <1>4, <1>5, <2>2, <2>3
  <2> HIDE DEF new
  <2> QED BY <1>5, <2>1, <2>2, <2>3, <2>4
<1>8. /\ poller[p].pc = "select" /\ delivery' = delivery
      /\ seen' \subseteq Messages /\ Apart /\ mail' = mail
    BY DEF Select, Apart, IInv, Typed, TypeOK
<1>9. Grows
    BY <1>8, ApartKeeps
<1> HIDE DEF new
<1>10. ASSUME NEW i \in 1 .. n
       PROVE  EntryOK(p, i)'
  <2>1. PICK d \in due : d = q[i]
      BY <1>1
  <2>2. PICK s \in Sources, m \in Messages : s = d[1] /\ m = d[2] /\ DueNow(s, m)
      BY <1>3
  <2>3. PICK e : e = entry(d)
      OBVIOUS
  <2>4. /\ poller'[p].queue[i] = e /\ e.s = s /\ e.m = m /\ e.copy = Read(delivery[s][m])
        /\ delivery[s][m] \in DeliveryRows
    <3>1. delivery[s][m] \in DeliveryRows
        BY DEF IInv, Typed, TypeOK
    <3> QED BY <1>4, <1>7, <2>1, <2>2, <2>3, <3>1
  <2>5. delivery[s][m].status \in Due /\ ~InHand(s, m) /\ DeliveryOK(s, m)
      BY <1>8, <2>2, InOwnHand DEF DueNow, IInv, Hand
  <2>6. DeliveryOK(s, m)'
      BY <1>8, <1>9, <2>5, DeliveryKept
  <2>7. mail'[m] # NoMail
      BY <1>8, <2>5 DEF DeliveryOK, Due
  <2>8. e.copy.read /\ e.copy.job = delivery[s][m].job
        /\ e.copy.attempts = delivery[s][m].attempts
      BY <2>4, CopyTypes
  <2>9. \A j : j = delivery[s][m].job => JobRef(s, m, j)'
    <3>1. delivery'[s][m].job = delivery[s][m].job
        BY <1>8
    <3> QED BY <2>6, <3>1 DEF DeliveryOK, JobRef
  <2>10. delivery[s][m].attempts < Tries'
    <3>1. delivery[s][m].attempts \in Nat /\ delivery[s][m].attempts < Tries
        BY <2>4, <2>5 DEF DeliveryOK, DeliveryRows, Attempts
    <3> QED BY <1>9, <3>1, BelowTries
  <2>11. \A k \in 1 .. n : i # k /\ poller'[p].queue[k].s = s => poller'[p].queue[k].m # m
    <3> SUFFICES ASSUME NEW k \in 1 .. n, i # k
                 PROVE  ~(poller'[p].queue[k].s = s /\ poller'[p].queue[k].m = m)
        OBVIOUS
    <3>1. q[k] \in due /\ q[i] \in due
        BY <1>1
    <3>2. q[i] # q[k]
        BY <1>1, <1>2
    <3>3. q[k] = <<q[k][1], q[k][2]>> /\ q[i] = <<s, m>>
        BY <1>3, <2>1, <2>2, <3>1
    <3>4. poller'[p].queue[k].s = q[k][1] /\ poller'[p].queue[k].m = q[k][2]
        BY <1>7
    <3> QED BY <3>2, <3>3, <3>4
  <2>12. DOMAIN poller'[p].queue = 1 .. n
      BY <1>7
  <2> QED BY <1>8, <2>4, <2>5, <2>7, <2>8, <2>9, <2>10, <2>11, <2>12 DEF EntryOK
<1>11. \A i \in DOMAIN new(q).queue : EntryOK(p, i)'
    BY <1>5, <1>6, <1>10
<1> QED BY <1>1, <1>6, <1>8, <1>11, PollMoves DEF Hand

----------------------------------------------------------------------------
(* Steps of the world around a poll *)

\* What the world may do to a delivery: nothing to one in hand, and nothing that
\* makes a due one not due, an import out of nothing or a completion undone.
Harmless(s, m) ==
    LET d == delivery[s][m]
        e == delivery'[s][m] IN
    /\ e.job \in {0, d.job}
    /\ d.status \in Due => e.status \in Due
    /\ d.status = "RUNNING" => e.status = "RUNNING"
    /\ e.status = "COMPLETED" => d.status = "COMPLETED" /\ e.job = d.job

SuccessKept == \A s \in Sources : source'[s].success = source[s].success

\* Imports are added at most, by uploads.
JobsAdded ==
    /\ \A j \in DOMAIN job : job'[j] = job[j]
    /\ spent'.uploads = 0 => job' = job

LEMMA HandKept ==
    ASSUME IInv, Grows, poller' = poller, SuccessKept, JobsAdded,
           \A s \in Sources, m \in Messages : Harmless(s, m),
           NEW p \in Pollers
    PROVE  HandOK(p)'
<1>1. CASE poller[p].pc \notin Hand
    BY <1>1 DEF HandOK, Hand, Following
<1>2. CASE poller[p].pc \in Hand
  <2>1. PICK s \in Sources, m \in Messages, j \in {0} \union Jobs :
            s = Src(p) /\ m = Msg(p) /\ j = poller[p].job
      BY <1>2, Holds DEF IInv, QueueOK, PollerStates
  <2>2. Src(p)' = s /\ Msg(p)' = m /\ Mine(p)' = Mine(p) /\ poller'[p] = poller[p]
      BY <2>1 DEF Src, Msg, Mine
  <2>3. HandOK(p) /\ Harmless(s, m)
      BY DEF IInv
  <2>4. delivery'[s][m].status = "RUNNING" /\ Mine(p).read
      BY <1>2, <2>1, <2>3 DEF HandOK, Harmless
  <2>5. mail[m] # NoMail
    <3>1. DeliveryOK(s, m) /\ delivery[s][m].status = "RUNNING"
        BY <1>2, <2>1, <2>3 DEF IInv, HandOK
    <3> QED BY <3>1 DEF DeliveryOK
  <2>6. ASSUME poller[p].pc \in Following
        PROVE  /\ j # 0 /\ JobRef(s, m, j)' /\ m >= source'[s].success
               /\ j \in DOMAIN job /\ job[j].feed = FeedOf[s]
               /\ job'[j] = job[j] /\ MyJob(p) = job[j] /\ MyJob(p)' = job[j]
    <3>1. j # 0 /\ JobRef(s, m, j) /\ m >= source[s].success
        BY <2>1, <2>3, <2>6 DEF HandOK
    <3>2. JobRef(s, m, j)'
        BY <2>5, <3>1, RefKept
    <3>3. j \in DOMAIN job /\ job[j].feed = FeedOf[s]
        BY <3>1 DEF JobRef
    <3> QED BY <2>1, <2>2, <3>1, <3>2, <3>3 DEF MyJob, JobsAdded, SuccessKept
  <2>7. poller[p].pc \in Following \ {"link"} => Mine(p).job = j
      BY <2>1, <2>3 DEF HandOK
  <2>8. poller[p].pc = "link" => Others(s, m)' = {}
    <3> SUFFICES ASSUME poller[p].pc = "link", NEW k \in Messages \ {m},
                        delivery'[s][k].job # 0,
                        job'[delivery'[s][k].job].status \in Unfinished
                 PROVE  FALSE
        BY DEF Others
    <3>1. Harmless(s, k) /\ DeliveryOK(s, k)
        BY DEF IInv
    <3>2. delivery'[s][k].job = delivery[s][k].job /\ delivery[s][k].job \in DOMAIN job
        BY <3>1 DEF Harmless, DeliveryOK, JobRef
    <3>3. job[delivery[s][k].job].status \in Unfinished
        BY <3>2 DEF JobsAdded
    <3>4. Others(s, m) = {}
        BY <2>1, <2>3 DEF HandOK
    <3> QED BY <3>2, <3>3, <3>4 DEF Others
  <2>9. /\ poller[p].pc = "parse" => MyJob(p)'.status = "PARSING"
        /\ poller[p].pc = "stage" => MyJob(p)'.status = "STAGED"
        /\ poller[p].pc = "result" => MyJob(p)'.status = "COMPLETED"
      BY <2>3, <2>6 DEF HandOK, Following, Hand
  <2>10. ASSUME poller[p].pc \in {"work", "result"}, MyJob(p)'.status = "COMPLETED"
         PROVE  Leads(p)'
    <3>1. MyJob(p) = job[j] /\ MyJob(p)' = job[j] /\ job'[j] = job[j]
        BY <2>6, <2>10 DEF Following, Hand
    <3>2. Leads(p)
        BY <2>3, <2>10, <3>1 DEF HandOK
    <3>3. ASSUME NEW n \in Messages, Imported(s, n)'
          PROVE  JobOf(s, n)'.done <= job[j].done
      <4>1. Harmless(s, n) /\ DeliveryOK(s, n)
          BY DEF IInv
      <4>2. Imported(s, n) /\ delivery'[s][n].job = delivery[s][n].job
          BY <3>3, <4>1 DEF Imported, Harmless
      <4>3. delivery[s][n].job \in DOMAIN job
          BY <4>1, <4>2 DEF Imported, DeliveryOK, JobRef
      <4>4. JobOf(s, n)' = JobOf(s, n)
          BY <4>2, <4>3 DEF JobOf, JobsAdded
      <4> QED BY <2>1, <3>1, <3>2, <4>2, <4>4 DEF Leads
    <3>4. ASSUME spent'.uploads = 0
          PROVE  /\ job' = job
                 /\ \A k \in DOMAIN job : job[k].feed = FeedOf[s] => job[k].done <= job[j].done
      <4>1. spent.uploads = 0
          BY <3>4, Limits DEF Grows
      <4> QED BY <2>1, <3>1, <3>2, <3>4, <4>1 DEF Leads, JobsAdded
    <3> QED BY <2>2, <3>1, <3>3, <3>4 DEF Leads
  <2>11. poller[p].pc = "link" => Others(Src(p), Msg(p))' = {}
      BY <2>2, <2>8 DEF Others
  <2>12. poller[p].pc \in Following => JobRef(Src(p), Msg(p), poller[p].job)'
      BY <2>1, <2>2, <2>6 DEF JobRef, Ambiguous
  <2>13. poller[p].pc \in Following =>
            poller'[p].job # 0 /\ Msg(p)' >= source'[Src(p)'].success
      BY <2>1, <2>2, <2>6
  <2>14. delivery'[Src(p)'][Msg(p)'].status = "RUNNING" /\ Mine(p)'.read
      BY <2>2, <2>4
  <2>15. poller[p].pc \in Following \ {"link"} => Mine(p)' = Mine(p) /\ Mine(p).job = poller'[p].job
      BY <2>1, <2>2, <2>7
  <2> QED BY <2>2, <2>9, <2>10, <2>11, <2>12, <2>13, <2>14, <2>15 DEF HandOK
<1> QED BY <1>1, <1>2

LEMMA WorldMoves ==
    ASSUME IInv, Grows, poller' = poller, SuccessKept, JobsAdded,
           \A s \in Sources, m \in Messages : Harmless(s, m) /\ DeliveryOK(s, m)'
    PROVE  Flow' /\ poller' \in [Pollers -> PollerStates]
<1>1. OneAtATime' /\ poller' \in [Pollers -> PollerStates]
    BY DEF IInv, OneAtATime, Typed, TypeOK
<1>2. ASSUME NEW p \in Pollers
      PROVE  QueueOK(p)'
  <2>1. QueueOK(p) /\ poller'[p] = poller[p] /\ poller[p] \in PollerStates
      BY Holds DEF IInv
  <2>2. ASSUME poller[p].pc \in {"apply"} \union Hand, NEW i \in DOMAIN poller[p].queue
        PROVE  EntryOK(p, i)'
    <3>1. PICK e : e = poller[p].queue[i]
        OBVIOUS
    <3>2. e \in Entries /\ e.s \in Sources /\ e.m \in Messages /\ EntryOK(p, i)
        BY <2>1, <2>2, <3>1, Holds, EntryTypes DEF QueueOK
    <3>3. Harmless(e.s, e.m)
        BY <3>2
    <3>4. i > 1 \/ poller[p].pc = "apply" => delivery[e.s][e.m].status \in Due
        BY <3>1, <3>2 DEF EntryOK
    <3>5. \A l \in DOMAIN poller[p].queue :
            i # l /\ poller[p].queue[l].s = e.s => poller[p].queue[l].m # e.m
        BY <3>1, <3>2 DEF EntryOK
    <3>6. Alike(p, i, i, e, e)
        BY <2>1, <2>2, <3>1, <3>3, <3>4, <3>5 DEF Alike, Harmless
    <3> QED BY <3>6, EntryKept
  <2>3. ASSUME poller[p].pc = "record", NEW d \in poller[p].todo
        PROVE  mail'[d[2]] # NoMail
    <3>1. d[2] \in Messages /\ mail[d[2]] # NoMail
        BY <2>1, <2>3 DEF QueueOK, PollerStates
    <3> QED BY <3>1 DEF Grows
  <2> QED BY <2>1, <2>2, <2>3 DEF QueueOK
<1>3. \A p \in Pollers : HandOK(p)'
    BY HandKept
<1>4. AppliedInOrder'
  <2>1. \A s \in Sources, m \in Messages :
          Imported(s, m)' => Imported(s, m) /\ delivery'[s][m].job = delivery[s][m].job
      BY DEF Imported, Harmless
  <2> QED BY <2>1, OrderKept
<1> QED BY <1>1, <1>2, <1>3, <1>4 DEF Flow

\* A step that leaves the deliveries alone.
LEMMA WorldAround ==
    ASSUME IInv, Grows, poller' = poller, delivery' = delivery, SuccessKept, JobsAdded
    PROVE  Flow' /\ poller' \in [Pollers -> PollerStates]
<1>1. ASSUME NEW s \in Sources, NEW m \in Messages
      PROVE  Harmless(s, m) /\ DeliveryOK(s, m)'
  <2>1. Harmless(s, m)
      BY DEF Harmless
  <2>2. InHand(s, m) => InHand(s, m)'
      BY DEF InHand, Src, Msg
  <2> QED BY <2>1, <2>2, DeliveryKept
<1> QED BY <1>1, WorldMoves

\* Another of the bounds is used, while imports and sources are left alone.
SpentOn(b) ==
    /\ b \in {"retries", "crashes", "pauses", "uploads"} /\ Spend(b)
    /\ UNCHANGED <<mail, seen>>

LEMMA SpentOnTypes ==
    ASSUME IInv, NEW b, SpentOn(b)
    PROVE  /\ spent' \in [DOMAIN Bounds -> Nat]
           /\ \A c \in DOMAIN Bounds : spent'[c] \in 0 .. Bounds[c]
           /\ mail' = mail /\ mail' \in [Messages -> MailRows] /\ seen' \subseteq Messages
           /\ spent.crashes <= spent'.crashes /\ spent'.crashes \in 0 .. MaxCrashes
           /\ spent.pauses <= spent'.pauses /\ spent.uploads <= spent'.uploads
           /\ spent'.pauses \in Nat /\ spent'.uploads \in Nat
           /\ b = "crashes" => spent.crashes < spent'.crashes
           /\ b = "pauses" => spent'.pauses > 0
           /\ b # "pauses" => spent'.pauses = spent.pauses
           /\ b = "uploads" => spent'.uploads > 0
           /\ b # "uploads" => spent'.uploads = spent.uploads
<1>1. b \in DOMAIN Bounds /\ Spend(b)
    BY DEF SpentOn, Bounds
<1>2. /\ spent' \in [DOMAIN Bounds -> Nat]
      /\ \A c \in DOMAIN Bounds : spent'[c] \in 0 .. Bounds[c]
      /\ \A c \in DOMAIN Bounds \ {b} : spent'[c] = spent[c]
      /\ spent'[b] = spent[b] + 1
    BY <1>1, Spends
<1>3. mail' = mail /\ mail' \in [Messages -> MailRows] /\ seen' \subseteq Messages
    BY DEF SpentOn, IInv, Typed, TypeOK
<1>4. {"crashes", "pauses", "uploads"} \subseteq DOMAIN Bounds /\ Bounds.crashes = MaxCrashes
    BY DEF Bounds
<1>5. /\ spent.crashes \in Nat /\ spent.uploads \in Nat /\ spent.pauses \in Nat
      /\ spent'.crashes \in 0 .. MaxCrashes
      /\ spent'.pauses \in Nat /\ spent'.uploads \in Nat
    BY <1>2, <1>4, Limits
<1>6. \A c \in {"crashes", "pauses", "uploads"} :
        spent'[c] = IF c = b THEN spent[c] + 1 ELSE spent[c]
    BY <1>1, <1>2, <1>4
<1> QED BY <1>2, <1>3, <1>5, <1>6

LEMMA SourcesOnly ==
    ASSUME IInv, NEW b, SpentOn(b), job' = job, b # "uploads",
           source' = source \/ (b = "pauses" /\ source' \in [Sources -> SourceRows]
                                 /\ SuccessKept)
    PROVE  /\ Grows /\ Base' /\ SuccessKept /\ JobsAdded
           /\ source' \in [Sources -> SourceRows]
           /\ job' \in Seq(JobRows) /\ Len(job') <= MaxJobs
<1>1. source' \in [Sources -> SourceRows] /\ SuccessKept
    BY DEF IInv, Typed, TypeOK, SuccessKept
<1>2. \A s \in Sources : source[s].success \in Nat /\ source'[s].success = source[s].success
    BY <1>1 DEF IInv, Typed, TypeOK, SourceRows, Messages, SuccessKept
<1>3. Grows
    BY <1>1, <1>2, SpentOnTypes DEF Grows
<1>4. OneLiveJob' /\ CompletionsOK'
    BY Limits, SpentOnTypes, SameJobs
<1>5. \A s \in Sources : SourceOK(s)'
    BY SpentOnTypes DEF IInv, SourceOK
<1>6. JobsAdded /\ job' \in Seq(JobRows) /\ Len(job') <= MaxJobs
    BY DEF JobsAdded, IInv, Typed, TypeOK
<1> QED BY <1>1, <1>3, <1>4, <1>5, <1>6 DEF Base

LEMMA SwitchStep ==
    ASSUME IInv, NEW s \in Sources, Switch(s)
    PROVE  IInv'
<1>1. SpentOn("pauses") /\ job' = job /\ delivery' = delivery /\ poller' = poller
    BY DEF Switch, SpentOn
<1>2. source' \in [Sources -> SourceRows] /\ SuccessKept
    BY DEF Switch, IInv, Typed, TypeOK, SourceRows, SuccessKept
<1>3. /\ Grows /\ Base' /\ SuccessKept /\ JobsAdded
      /\ job' \in Seq(JobRows) /\ Len(job') <= MaxJobs
    BY <1>1, <1>2, SourcesOnly
<1>4. Flow' /\ poller' \in [Pollers -> PollerStates]
    BY <1>1, <1>3, WorldAround
<1>5. delivery' \in [Sources -> [Messages -> DeliveryRows]]
    BY <1>1 DEF IInv, Typed, TypeOK
<1>6. Typed'
    BY <1>1, <1>2, <1>3, <1>4, <1>5, SpentOnTypes DEF Typed, TypeOK, Bounds
<1> QED BY <1>3, <1>4, <1>6 DEF IInv, Flow, Base

LEMMA RetryDeliveryStep ==
    ASSUME IInv, NEW s \in Sources, NEW m \in Messages, NEW forget \in BOOLEAN,
           RetryDelivery(s, m, forget)
    PROVE  IInv'
<1> DEFINE d == delivery[s][m]
           row == [status |-> "PENDING", attempts |-> 0, waiting |-> FALSE,
                   job |-> IF forget THEN 0 ELSE d.job, current |-> forget \/ d.current]
<1>1. /\ SpentOn("retries") /\ job' = job /\ poller' = poller /\ source' = source
      /\ d.status \in {"FAILED", "NEEDS_REVIEW"}
      /\ delivery' = [delivery EXCEPT ![s][m] = row]
    BY DEF RetryDelivery, SpentOn
<1>2. delivery \in [Sources -> [Messages -> DeliveryRows]] /\ d \in DeliveryRows
    BY DEF IInv, Typed, TypeOK
<1>3. /\ row \in DeliveryRows /\ row.status = "PENDING" /\ row.attempts = 0
      /\ row.job \in {0, d.job}
    BY <1>2 DEF DeliveryRows, Statuses, Due, Attempts
<1> HIDE DEF row, d
<1>4. /\ delivery' \in [Sources -> [Messages -> DeliveryRows]]
      /\ delivery'[s][m] = row
      /\ \A t \in Sources, n \in Messages :
           t # s \/ n # m => delivery'[t][n] = delivery[t][n]
    BY <1>1, <1>2, <1>3
<1>5. /\ Grows /\ Base' /\ SuccessKept /\ JobsAdded
      /\ source' \in [Sources -> SourceRows]
      /\ job' \in Seq(JobRows) /\ Len(job') <= MaxJobs
    BY <1>1, SourcesOnly
<1>6. ASSUME NEW t \in Sources, NEW n \in Messages
      PROVE  Harmless(t, n) /\ DeliveryOK(t, n)'
  <2>1. CASE t = s /\ n = m
    <3>1. Harmless(s, m)
        BY <1>1, <1>3, <1>4 DEF Harmless, d, Due
    <3>2. DeliveryOK(s, m) /\ d.status # "ABSENT"
        BY <1>1 DEF IInv
    <3>3. mail[m] # NoMail /\ mail'[m] # NoMail
        BY <1>5, <3>2 DEF DeliveryOK, d, Grows
    <3>4. JobRef(s, m, row.job)
        BY <1>3, <3>2 DEF DeliveryOK, d, JobRef
    <3>6. Tries' \in Nat /\ Tries' > 0
        BY <1>5, Limits, TriesGrow
    <3>7. JobRef(s, m, delivery[s][m].job)'
      <4>1. PICK j : j = row.job
          OBVIOUS
      <4>2. JobRef(s, m, j)' /\ delivery'[s][m].job = j
          BY <1>4, <1>5, <3>3, <3>4, <4>1, RefKept
      <4> QED BY <4>2 DEF JobRef
    <3> QED BY <1>3, <1>4, <2>1, <3>1, <3>3, <3>6, <3>7 DEF DeliveryOK, Imported
  <2>2. CASE ~(t = s /\ n = m)
    <3>1. delivery'[t][n] = delivery[t][n]
        BY <1>4, <2>2
    <3>2. InHand(t, n) => InHand(t, n)'
        BY <1>1 DEF InHand, Src, Msg
    <3> QED BY <1>5, <3>1, <3>2, DeliveryKept DEF Harmless
  <2> QED BY <2>1, <2>2
<1>7. Flow' /\ poller' \in [Pollers -> PollerStates]
    BY <1>1, <1>5, <1>6, WorldMoves
<1>8. Typed'
    BY <1>1, <1>4, <1>5, <1>7, SpentOnTypes DEF Typed, TypeOK, Bounds
<1> QED BY <1>5, <1>7, <1>8 DEF IInv, Flow, Base

LEMMA ElapseStep ==
    ASSUME IInv, NEW s \in Sources, NEW m \in Messages, Elapse(s, m)
    PROVE  IInv'
<1> DEFINE d == delivery[s][m]
           row == [d EXCEPT !.waiting = FALSE]
<1>1. /\ Apart /\ poller' = poller /\ seen' \subseteq Messages
      /\ delivery' = [delivery EXCEPT ![s][m] = row]
    BY DEF Elapse, Apart, IInv, Typed, TypeOK
<1>2. delivery \in [Sources -> [Messages -> DeliveryRows]] /\ d \in DeliveryRows
    BY DEF IInv, Typed, TypeOK
<1>3. /\ row \in DeliveryRows /\ row.status = d.status /\ row.attempts = d.attempts
      /\ row.job = d.job
    BY <1>2 DEF DeliveryRows
<1> HIDE DEF row
<1>4. /\ delivery' \in [Sources -> [Messages -> DeliveryRows]]
      /\ delivery'[s][m] = row
      /\ \A t \in Sources, n \in Messages :
           t # s \/ n # m => delivery'[t][n] = delivery[t][n]
    BY <1>1, <1>2, <1>3
<1>5. \A t \in Sources, n \in Messages :
        /\ delivery'[t][n].status = delivery[t][n].status
        /\ delivery'[t][n].attempts = delivery[t][n].attempts
        /\ delivery'[t][n].job = delivery[t][n].job
    BY <1>3, <1>4
<1>6. Grows /\ SuccessKept /\ JobsAdded
    BY <1>1, ApartKeeps DEF SuccessKept, JobsAdded, Apart
<1>7. ASSUME NEW t \in Sources, NEW n \in Messages
      PROVE  Harmless(t, n) /\ DeliveryOK(t, n)'
  <2>1. Harmless(t, n)
      BY <1>5 DEF Harmless
  <2>2. /\ delivery'[t][n].status = delivery[t][n].status
        /\ delivery'[t][n].attempts = delivery[t][n].attempts
        /\ delivery'[t][n].job = delivery[t][n].job
      BY <1>5
  <2>3. /\ mail' = mail /\ source' = source /\ job' = job /\ InHand(t, n)' = InHand(t, n)
        /\ Tries' = Tries /\ (spent'.pauses = 0 => spent.pauses = 0)
    <3>1. spent'.crashes = spent.crashes /\ spent'.pauses = spent.pauses
      <4>1. UNCHANGED spent
          BY DEF Elapse
      <4> QED BY <4>1
    <3> QED BY <1>1, <3>1 DEF Apart, InHand, Src, Msg, Tries
  <2>4. DeliveryOK(t, n)
      BY DEF IInv
  <2>5. Ambiguous(n, Sources)' = Ambiguous(n, Sources)
      BY <2>3 DEF Ambiguous
  <2> QED BY <2>1, <2>2, <2>3, <2>4, <2>5 DEF DeliveryOK, JobRef, Imported
<1>8. Flow' /\ poller' \in [Pollers -> PollerStates]
    BY <1>1, <1>6, <1>7, WorldMoves
<1> QED BY <1>1, <1>4, <1>8, TypesKept

LEMMA ArriveStep ==
    ASSUME IInv, NEW m \in Messages, Arrive(m)
    PROVE  IInv'
<1>1. PICK box \in Mailboxes : mail' = [mail EXCEPT ![m] = box[m]]
    BY DEF Arrive
<1>2. /\ mail[m] = NoMail /\ source' = source /\ seen' = seen /\ delivery' = delivery
      /\ job' = job /\ poller' = poller /\ spent' = spent
    BY DEF Arrive
<1>3. box[m] \in MailRows
    BY MailboxesAssumption
<1>4. /\ mail' \in [Messages -> MailRows]
      /\ \A n \in Messages : mail[n] # NoMail => mail'[n] = mail[n]
    BY <1>1, <1>2, <1>3 DEF IInv, Typed, TypeOK
<1>5. \A s \in Sources : source[s].success \in Nat
    BY DEF IInv, Typed, TypeOK, SourceRows, Messages
<1>6. Grows /\ SuccessKept /\ JobsAdded
  <2>1. source' \in [Sources -> SourceRows] /\ spent'.crashes \in 0 .. MaxCrashes
      BY <1>2, Limits DEF IInv, Typed, TypeOK
  <2> QED BY <1>2, <1>4, <1>5, <2>1, Limits DEF Grows, SuccessKept, JobsAdded
<1>7. Flow' /\ poller' \in [Pollers -> PollerStates]
    BY <1>2, <1>6, WorldAround
<1>8. Base'
  <2>1. OneLiveJob' /\ CompletionsOK'
      BY <1>2, Limits, SameJobs
  <2>2. \A s \in Sources : SourceOK(s)'
      BY <1>2 DEF IInv, SourceOK
  <2> QED BY <2>1, <2>2 DEF Base
<1>9. Typed'
    BY <1>2, <1>4 DEF IInv, Typed, TypeOK
<1> QED BY <1>7, <1>8, <1>9 DEF IInv, Flow, Base

LEMMA CrashStep ==
    ASSUME IInv, NEW p \in Pollers, Crash(p)
    PROVE  IInv'
<1>1. /\ SpentOn("crashes") /\ job' = job /\ delivery' = delivery /\ source' = source
      /\ poller' = [poller EXCEPT ![p] = IdlePoller] /\ poller[p].pc # "idle"
    BY DEF Crash, SpentOn
<1>2. /\ Grows /\ Base'
      /\ source' \in [Sources -> SourceRows]
      /\ job' \in Seq(JobRows) /\ Len(job') <= MaxJobs
    BY <1>1, SourcesOnly
<1>3. /\ poller' \in [Pollers -> PollerStates] /\ poller'[p] = IdlePoller
      /\ \A q \in Pollers \ {p} : poller'[q] = poller[q]
    BY <1>1, IdleTypes, PutPoller
<1>4. /\ OneAtATime'
      /\ \A q \in Pollers \ {p} : QueueOK(q)' /\ HandOK(q)'
    BY <1>1, <1>3, Alone
<1>5. QueueOK(p)' /\ HandOK(p)'
  <2>1. poller'[p].pc = "idle"
      BY <1>3 DEF IdlePoller
  <2> QED BY <2>1 DEF QueueOK, HandOK, Hand, Following
<1>6. \A s \in Sources, m \in Messages : DeliveryOK(s, m)'
  <2>1. spent.crashes < spent'.crashes
      BY <1>1, SpentOnTypes
  <2> QED BY <1>1, <1>2, <2>1, DeliveryKept
<1>7. AppliedInOrder'
  <2>1. \A s \in Sources, m \in Messages :
          Imported(s, m)' => Imported(s, m) /\ delivery'[s][m].job = delivery[s][m].job
      BY <1>1 DEF Imported
  <2> QED BY <1>2, <2>1, OrderKept
<1>8. Flow'
    BY <1>4, <1>5, <1>6, <1>7 DEF Flow
<1>9. delivery' \in [Sources -> [Messages -> DeliveryRows]]
    BY <1>1 DEF IInv, Typed, TypeOK
<1>10. Typed'
    BY <1>1, <1>2, <1>3, <1>9, SpentOnTypes DEF Typed, TypeOK, Bounds
<1> QED BY <1>2, <1>8, <1>10 DEF IInv, Flow, Base

----------------------------------------------------------------------------
(* Steps of the imports *)

LEMMA JobTypes ==
    ASSUME IInv
    PROVE  /\ job \in Seq(JobRows) /\ Len(job) \in Nat /\ DOMAIN job = 1 .. Len(job)
           /\ \A j \in DOMAIN job : job[j] \in JobRows /\ job[j].done \in Nat
           /\ IsFiniteSet(Done) /\ Cardinality(Done) \in Nat
           /\ NextDone = 1 + Cardinality(Done)
           /\ \A j \in DOMAIN job : job[j].done < NextDone
<1>1. job \in Seq(JobRows)
    BY DEF IInv, Typed, TypeOK
<1>2. Len(job) \in Nat /\ DOMAIN job = 1 .. Len(job)
    BY <1>1
<1>3. \A j \in DOMAIN job : job[j] \in JobRows /\ job[j].done \in Nat
  <2>1. \A j \in DOMAIN job : job[j] \in JobRows
      BY <1>1
  <2>2. \A row \in JobRows : row.done \in Nat
      BY DEF JobRows
  <2> QED BY <2>1, <2>2
<1>4. IsFiniteSet(Done)
  <2>1. IsFiniteSet(1 .. Len(job))
      BY <1>2, FS_Interval
  <2>2. Done \subseteq 1 .. Len(job)
      BY <1>2 DEF Done
  <2> QED BY <2>1, <2>2, FS_Subset
<1>5. Cardinality(Done) \in Nat
    BY <1>4, FS_CardinalityType
<1>6. NextDone = 1 + Cardinality(Done)
    BY DEF NextDone, Done
<1>7. \A j \in DOMAIN job : job[j].done <= Cardinality(Done)
    BY DEF IInv, CompletionsOK
<1> QED BY <1>1, <1>2, <1>3, <1>4, <1>5, <1>6, <1>7

LEMMA PutJob ==
    ASSUME IInv, NEW j \in DOMAIN job, NEW row \in JobRows, job' = [job EXCEPT ![j] = row]
    PROVE  /\ job' \in Seq(JobRows) /\ Len(job') <= MaxJobs
           /\ DOMAIN job' = DOMAIN job /\ job'[j] = row
           /\ \A k \in DOMAIN job \ {j} : job'[k] = job[k]
<1>1. job \in Seq(JobRows) /\ Len(job) \in Nat /\ DOMAIN job = 1 .. Len(job)
    BY JobTypes
<1>2. Len(job) <= MaxJobs
    BY DEF IInv, Typed, TypeOK
<1>3. /\ DOMAIN job' = DOMAIN job /\ job'[j] = row
      /\ \A k \in DOMAIN job \ {j} : job'[k] = job[k]
    BY <1>1
<1>4. job' \in Seq(JobRows) /\ Len(job') = Len(job)
    BY <1>1
<1> QED BY <1>2, <1>3, <1>4

\* Only imports change: nothing is undone if what was completed stays.
JobsMove ==
    /\ UNCHANGED <<mail, spent>> /\ source' \in [Sources -> SourceRows]
    /\ \A s \in Sources : /\ source[s].success <= source'[s].success
                          /\ source'[s].active = source[s].active

LEMMA JobsMoveKeeps ==
    ASSUME IInv, JobsMove, DOMAIN job \subseteq DOMAIN job',
           \A j \in DOMAIN job : /\ job'[j].feed = job[j].feed
                                 /\ job[j].status = "COMPLETED" => job'[j] = job[j],
           OneLiveJob', CompletionsOK'
    PROVE  Grows /\ Base'
<1>1. Grows
    BY Limits DEF Grows, JobsMove
<1>2. \A s \in Sources : SourceOK(s)'
    BY DEF IInv, SourceOK, JobsMove
<1> QED BY <1>1, <1>2 DEF Base

\* An unfinished import goes on, or fails.
LEMMA JobProceeds ==
    ASSUME IInv, JobsMove, NEW j \in DOMAIN job, NEW status \in Unfinished \union {"FAILED"},
           job' = [job EXCEPT ![j].status = status], job[j].status \in Unfinished
    PROVE  /\ Grows /\ Base' /\ job' \in Seq(JobRows) /\ Len(job') <= MaxJobs
           /\ DOMAIN job' = DOMAIN job /\ job'[j].status = status
           /\ job'[j].feed = job[j].feed /\ job'[j].done = job[j].done
           /\ job'[j].content = job[j].content
           /\ \A k \in DOMAIN job \ {j} : job'[k] = job[k]
<1> DEFINE row == [job[j] EXCEPT !.status = status]
<1>1. job[j] \in JobRows /\ job \in Seq(JobRows)
    BY JobTypes
<1>2. /\ row \in JobRows /\ row.status = status /\ row.feed = job[j].feed
      /\ row.content = job[j].content /\ row.done = job[j].done
    BY <1>1 DEF JobRows, JobStatuses
<1>3. job' = [job EXCEPT ![j] = row]
    BY <1>1
<1> HIDE DEF row
<1>4. /\ job' \in Seq(JobRows) /\ Len(job') <= MaxJobs
      /\ DOMAIN job' = DOMAIN job /\ job'[j] = row
      /\ \A k \in DOMAIN job \ {j} : job'[k] = job[k]
    BY <1>2, <1>3, PutJob
<1>5. \A k \in DOMAIN job : /\ job'[k].feed = job[k].feed
                            /\ job'[k].content = job[k].content
                            /\ job'[k].done = job[k].done
                            /\ job[k].status = "FAILED" => k # j
    BY <1>2, <1>4 DEF Unfinished
<1>6. Done' = Done
    BY <1>4, <1>5 DEF Done
<1>7. OneLiveJob'
  <2> SUFFICES ASSUME NEW i \in DOMAIN job, NEW k \in DOMAIN job, i # k,
                      job[i].feed = job[k].feed, job[i].content = job[k].content
               PROVE  job'[i].status = "FAILED" \/ job'[k].status = "FAILED"
      BY <1>4, <1>5 DEF OneLiveJob
  <2>1. job[i].status = "FAILED" \/ job[k].status = "FAILED"
      BY DEF IInv, OneLiveJob
  <2> QED BY <1>4, <1>5, <2>1
<1>8. CompletionsOK'
  <2>1. CompletionsOK /\ spent' = spent
      BY DEF IInv, JobsMove
  <2>2. \A k \in DOMAIN job : /\ job[k].done = 0 <=> job[k].status \notin {"COMPLETED", "COMPLETED_WITH_ERRORS"}
                              /\ job[k].done <= Cardinality(Done)
                              /\ job[k].status = "COMPLETED_WITH_ERRORS" => spent.uploads > 0
      BY <2>1 DEF CompletionsOK
  <2>3. \A i, k \in DOMAIN job : i # k /\ job[i].done # 0 => job[i].done # job[k].done
      BY <2>1 DEF CompletionsOK
  <2>4. \A k \in DOMAIN job : /\ job'[k].done = 0 <=> job'[k].status \notin {"COMPLETED", "COMPLETED_WITH_ERRORS"}
                              /\ job'[k].status = "COMPLETED_WITH_ERRORS" => spent.uploads > 0
    <3> SUFFICES ASSUME NEW k \in DOMAIN job
                 PROVE  /\ job'[k].done = 0 <=> job'[k].status \notin {"COMPLETED", "COMPLETED_WITH_ERRORS"}
                        /\ job'[k].status = "COMPLETED_WITH_ERRORS" => spent.uploads > 0
        OBVIOUS
    <3>1. CASE k = j
        BY <1>2, <1>4, <2>2, <3>1 DEF Unfinished
    <3>2. CASE k # j
        BY <1>4, <2>2, <3>2
    <3> QED BY <3>1, <3>2
  <2> QED BY <1>4, <1>5, <1>6, <2>1, <2>2, <2>3, <2>4 DEF CompletionsOK
<1>9. Grows /\ Base'
  <2>1. \A k \in DOMAIN job : job[k].status = "COMPLETED" => job'[k] = job[k]
      BY <1>4 DEF Unfinished
  <2> QED BY <1>4, <1>5, <1>7, <1>8, <2>1, JobsMoveKeeps
<1> QED BY <1>2, <1>4, <1>9

\* One more import completes than did.
LEMMA OneMoreDone ==
    ASSUME IInv, NEW j, j \notin Done, Done' = Done \union {j}
    PROVE  Cardinality(Done)' = NextDone
<1>1. IsFiniteSet(Done) /\ Cardinality(Done) \in Nat /\ NextDone = 1 + Cardinality(Done)
    BY JobTypes
<1>2. Cardinality(Done \union {j}) = Cardinality(Done) + 1
    BY <1>1, FS_AddElement
<1> QED BY <1>1, <1>2

\* A staged import is matched and snapshotted.
LEMMA JobCompletes ==
    ASSUME IInv, JobsMove, NEW j \in DOMAIN job, job[j].status \in Unfinished,
           job' = [job EXCEPT ![j] = [@ EXCEPT !.status = "COMPLETED", !.done = NextDone]]
    PROVE  /\ Grows /\ Base' /\ job' \in Seq(JobRows) /\ Len(job') <= MaxJobs
           /\ DOMAIN job' = DOMAIN job /\ job'[j].status = "COMPLETED"
           /\ job'[j].feed = job[j].feed
           /\ \A k \in DOMAIN job \ {j} : job'[k] = job[k]
           /\ \A k \in DOMAIN job : job'[k].done <= job'[j].done
<1> DEFINE row == [job[j] EXCEPT !.status = "COMPLETED", !.done = NextDone]
<1>1. /\ job[j] \in JobRows /\ job \in Seq(JobRows) /\ NextDone \in Nat \ {0}
      /\ \A k \in DOMAIN job : job[k].done \in Nat /\ job[k].done < NextDone
    BY JobTypes
<1>2. /\ row \in JobRows /\ row.status = "COMPLETED" /\ row.feed = job[j].feed
      /\ row.content = job[j].content /\ row.done = NextDone
    BY <1>1 DEF JobRows, JobStatuses
<1>3. job' = [job EXCEPT ![j] = row]
    BY <1>1
<1> HIDE DEF row
<1>4. /\ job' \in Seq(JobRows) /\ Len(job') <= MaxJobs
      /\ DOMAIN job' = DOMAIN job /\ job'[j] = row
      /\ \A k \in DOMAIN job \ {j} : job'[k] = job[k]
    BY <1>2, <1>3, PutJob
<1>5. \A k \in DOMAIN job : /\ job'[k].feed = job[k].feed
                            /\ job'[k].content = job[k].content
                            /\ job[k].status = "FAILED" => k # j
    BY <1>2, <1>4 DEF Unfinished
<1>6. CompletionsOK
    BY DEF IInv
<1>7. Cardinality(Done)' = NextDone
  <2>1. j \notin Done
      BY <1>6 DEF CompletionsOK, Done, Unfinished
  <2>2. Done' = Done \union {j}
      BY <1>1, <1>2, <1>4 DEF Done
  <2> QED BY <2>1, <2>2, OneMoreDone
<1>8. OneLiveJob'
  <2> SUFFICES ASSUME NEW i \in DOMAIN job, NEW k \in DOMAIN job, i # k,
                      job[i].feed = job[k].feed, job[i].content = job[k].content
               PROVE  job'[i].status = "FAILED" \/ job'[k].status = "FAILED"
      BY <1>4, <1>5 DEF OneLiveJob
  <2>1. job[i].status = "FAILED" \/ job[k].status = "FAILED"
      BY DEF IInv, OneLiveJob
  <2> QED BY <1>4, <1>5, <2>1
<1>9. CompletionsOK'
  <2>1. \A k \in DOMAIN job : /\ job[k].done = 0 <=> job[k].status \notin {"COMPLETED", "COMPLETED_WITH_ERRORS"}
                              /\ job[k].status = "COMPLETED_WITH_ERRORS" => spent.uploads > 0
      BY <1>6 DEF CompletionsOK
  <2>2. \A k \in DOMAIN job : /\ job'[k].done = 0 <=> job'[k].status \notin {"COMPLETED", "COMPLETED_WITH_ERRORS"}
                              /\ job'[k].done <= Cardinality(Done)'
                              /\ job'[k].status = "COMPLETED_WITH_ERRORS" => spent'.uploads > 0
    <3> SUFFICES ASSUME NEW k \in DOMAIN job
                 PROVE  /\ job'[k].done = 0 <=> job'[k].status \notin {"COMPLETED", "COMPLETED_WITH_ERRORS"}
                        /\ job'[k].done <= Cardinality(Done)'
                        /\ job'[k].status = "COMPLETED_WITH_ERRORS" => spent'.uploads > 0
        OBVIOUS
    <3>1. CASE k = j
        BY <1>1, <1>2, <1>4, <1>7, <3>1
    <3>2. CASE k # j
        BY <1>1, <1>4, <1>7, <2>1, <3>2 DEF JobsMove
    <3> QED BY <3>1, <3>2
  <2>3. \A i, k \in DOMAIN job : i # k /\ job'[i].done # 0 => job'[i].done # job'[k].done
    <3> SUFFICES ASSUME NEW i \in DOMAIN job, NEW k \in DOMAIN job, i # k, job'[i].done # 0
                 PROVE  job'[i].done # job'[k].done
        OBVIOUS
    <3>1. job[i].done # 0 => job[i].done # job[k].done
        BY <1>6 DEF CompletionsOK
    <3>2. CASE i = j
        BY <1>1, <1>2, <1>4, <3>2
    <3>3. CASE k = j
        BY <1>1, <1>2, <1>4, <3>3
    <3>4. CASE i # j /\ k # j
        BY <1>4, <3>1, <3>4
    <3> QED BY <3>2, <3>3, <3>4
  <2> QED BY <1>4, <2>2, <2>3 DEF CompletionsOK
<1>10. Grows /\ Base'
  <2>1. \A k \in DOMAIN job : job[k].status = "COMPLETED" => job'[k] = job[k]
      BY <1>4 DEF Unfinished
  <2> QED BY <1>4, <1>5, <1>8, <1>9, <2>1, JobsMoveKeeps
<1>11. \A k \in DOMAIN job : job'[k].done <= job'[j].done
  <2> SUFFICES ASSUME NEW k \in DOMAIN job PROVE job'[k].done <= NextDone
      BY <1>2, <1>4
  <2>1. CASE k = j
      BY <1>1, <1>2, <1>4, <2>1
  <2>2. CASE k # j
      BY <1>1, <1>4, <2>2
  <2> QED BY <2>1, <2>2
<1> QED BY <1>2, <1>4, <1>10, <1>11

\* A new import, not begun or uploaded by hand.
LEMMA JobAppended ==
    ASSUME IInv, NEW row \in JobRows, job' = Append(job, row), Len(job) < MaxJobs,
           LiveJobs(row.feed, row.content) = {}, source' = source, mail' = mail,
           spent.crashes = spent'.crashes, spent.pauses = spent'.pauses,
           spent.uploads <= spent'.uploads, spent'.uploads \in Nat,
           \/ row.status = "PENDING" /\ row.done = 0
           \/ /\ row.status \in {"COMPLETED", "COMPLETED_WITH_ERRORS"}
              /\ row.done = NextDone /\ spent'.uploads > 0
    PROVE  /\ Grows /\ Base' /\ job' \in Seq(JobRows) /\ Len(job') <= MaxJobs
           /\ Len(job) + 1 \in DOMAIN job' /\ job'[Len(job) + 1] = row
           /\ DOMAIN job' = DOMAIN job \union {Len(job) + 1}
           /\ \A k \in DOMAIN job : job'[k] = job[k]
<1> DEFINE new == Len(job) + 1
<1>1. /\ job \in Seq(JobRows) /\ Len(job) \in Nat /\ DOMAIN job = 1 .. Len(job)
      /\ NextDone \in Nat \ {0} /\ Cardinality(Done) \in Nat /\ IsFiniteSet(Done)
      /\ NextDone = 1 + Cardinality(Done)
      /\ \A k \in DOMAIN job : job[k].done \in Nat /\ job[k].done < NextDone
    BY JobTypes
<1>2. /\ job' \in Seq(JobRows) /\ Len(job') = Len(job) + 1
      /\ job'[new] = row /\ \A k \in DOMAIN job : job'[k] = job[k]
    BY <1>1
<1>3. DOMAIN job' = DOMAIN job \union {new} /\ new \notin DOMAIN job
    BY <1>1, <1>2
<1>4. Len(job') <= MaxJobs
    BY <1>1, <1>2 DEF IInv, Typed, TypeOK
<1> HIDE DEF new
<1>5. OneLiveJob'
  <2>1. \A k \in DOMAIN job :
          job[k].feed = row.feed /\ job[k].content = row.content => job[k].status = "FAILED"
      BY DEF LiveJobs
  <2>2. OneLiveJob
      BY DEF IInv
  <2> QED BY <1>2, <1>3, <2>1, <2>2 DEF OneLiveJob
<1>6. CompletionsOK
    BY DEF IInv
<1>7. Cardinality(Done)' \in Nat /\ Cardinality(Done) <= Cardinality(Done)'
      /\ (row.done # 0 => row.done = Cardinality(Done)')
  <2>1. new \notin Done
      BY <1>3 DEF Done
  <2>2. CASE row.done = 0
    <3>1. Done' = Done
        BY <1>2, <1>3, <2>2 DEF Done
    <3> QED BY <1>1, <2>2, <3>1
  <2>3. CASE row.done # 0
    <3>1. Done' = Done \union {new}
        BY <1>2, <1>3, <2>3 DEF Done
    <3>2. Cardinality(Done)' = NextDone
        BY <2>1, <3>1, OneMoreDone
    <3> QED BY <1>1, <2>3, <3>2
  <2> QED BY <2>2, <2>3
<1>8. CompletionsOK'
  <2>1. \A k \in DOMAIN job' : /\ job'[k].done = 0 <=> job'[k].status \notin {"COMPLETED", "COMPLETED_WITH_ERRORS"}
                               /\ job'[k].done <= Cardinality(Done)'
                               /\ job'[k].status = "COMPLETED_WITH_ERRORS" => spent'.uploads > 0
    <3> SUFFICES ASSUME NEW k \in DOMAIN job'
                 PROVE  /\ job'[k].done = 0 <=> job'[k].status \notin {"COMPLETED", "COMPLETED_WITH_ERRORS"}
                        /\ job'[k].done <= Cardinality(Done)'
                        /\ job'[k].status = "COMPLETED_WITH_ERRORS" => spent'.uploads > 0
        OBVIOUS
    <3>1. CASE k = new
        BY <1>1, <1>2, <1>7, <3>1
    <3>2. CASE k \in DOMAIN job
      <4>1. /\ job[k].done = 0 <=> job[k].status \notin {"COMPLETED", "COMPLETED_WITH_ERRORS"}
            /\ job[k].done <= Cardinality(Done)
            /\ job[k].status = "COMPLETED_WITH_ERRORS" => spent.uploads > 0
          BY <1>6, <3>2 DEF CompletionsOK
      <4>2. job[k].done \in Nat /\ spent.uploads \in Nat
          BY <1>1, <3>2, Limits
      <4> QED BY <1>1, <1>2, <1>7, <3>2, <4>1, <4>2
    <3> QED BY <1>3, <3>1, <3>2
  <2>2. \A i, k \in DOMAIN job' : i # k /\ job'[i].done # 0 => job'[i].done # job'[k].done
    <3> SUFFICES ASSUME NEW i \in DOMAIN job', NEW k \in DOMAIN job', i # k, job'[i].done # 0
                 PROVE  job'[i].done # job'[k].done
        OBVIOUS
    <3>1. CASE i = new
        BY <1>1, <1>2, <1>3, <3>1
    <3>2. CASE k = new
        BY <1>1, <1>2, <1>3, <3>2
    <3>3. CASE i # new /\ k # new
      <4>1. i \in DOMAIN job /\ k \in DOMAIN job
          BY <1>3, <3>3
      <4> QED BY <1>2, <1>6, <4>1 DEF CompletionsOK
    <3> QED BY <3>1, <3>2, <3>3
  <2> QED BY <2>1, <2>2 DEF CompletionsOK
<1>9. Grows
  <2>1. source' \in [Sources -> SourceRows] /\ \A s \in Sources : source[s].success \in Nat
      BY DEF IInv, Typed, TypeOK, SourceRows, Messages
  <2>2. spent'.crashes \in 0 .. MaxCrashes /\ spent'.pauses \in Nat
      BY Limits
  <2> QED BY <1>2, <1>3, <2>1, <2>2, Limits DEF Grows
<1>10. \A s \in Sources : SourceOK(s)'
    BY DEF IInv, SourceOK
<1> QED BY <1>2, <1>3, <1>4, <1>5, <1>8, <1>9, <1>10 DEF Base, new

LEMMA UploadStep ==
    ASSUME IInv, NEW f \in Feeds, NEW c \in Contents, Upload(f, c)
    PROVE  IInv'
<1> DEFINE row == [status |-> IF c \in Invalid THEN "COMPLETED_WITH_ERRORS" ELSE "COMPLETED",
                   feed |-> f, content |-> c, current |-> TRUE, done |-> NextDone]
<1>1. /\ SpentOn("uploads") /\ source' = source /\ delivery' = delivery /\ poller' = poller
      /\ LiveJobs(f, c) = {} /\ Len(job) < MaxJobs /\ job' = Append(job, row)
    BY DEF Upload, SpentOn
<1>2. NextDone \in Nat
    BY JobTypes
<1>3. /\ row \in JobRows /\ row.status \in {"COMPLETED", "COMPLETED_WITH_ERRORS"}
      /\ row.feed = f /\ row.content = c /\ row.done = NextDone
    BY <1>2 DEF JobRows, JobStatuses
<1> HIDE DEF row
<1>4. /\ mail' = mail /\ spent'.uploads > 0 /\ spent'.uploads \in Nat
      /\ spent.uploads <= spent'.uploads /\ spent.pauses = spent'.pauses
      /\ spent.crashes = spent'.crashes
  <2>1. Spend("uploads") /\ "uploads" \in DOMAIN Bounds /\ "crashes" \in DOMAIN Bounds
      BY <1>1 DEF SpentOn, Bounds
  <2> QED BY <1>1, <2>1, Spends, SpentOnTypes
<1>5. /\ Grows /\ Base' /\ job' \in Seq(JobRows) /\ Len(job') <= MaxJobs
      /\ \A k \in DOMAIN job : job'[k] = job[k]
    BY <1>1, <1>3, <1>4, JobAppended
<1>6. SuccessKept /\ JobsAdded
    BY <1>1, <1>4, <1>5 DEF SuccessKept, JobsAdded
<1>7. Flow' /\ poller' \in [Pollers -> PollerStates]
    BY <1>1, <1>5, <1>6, WorldAround
<1>8. /\ delivery' \in [Sources -> [Messages -> DeliveryRows]]
      /\ source' \in [Sources -> SourceRows]
    BY <1>1 DEF IInv, Typed, TypeOK
<1>9. Typed'
    BY <1>1, <1>5, <1>7, <1>8, SpentOnTypes DEF Typed, TypeOK, Bounds
<1> QED BY <1>5, <1>7, <1>9 DEF IInv, Flow, Base

----------------------------------------------------------------------------
(* Steps that apply a delivery *)

LEMMA InHandFacts ==
    ASSUME IInv, NEW p \in Pollers, poller[p].pc \in Hand
    PROVE  /\ poller[p] \in PollerStates /\ poller[p].queue # <<>>
           /\ Src(p) \in Sources /\ Msg(p) \in Messages /\ Mine(p) \in Copies
           /\ 1 \in DOMAIN poller[p].queue
           /\ Src(p) = poller[p].queue[1].s /\ Msg(p) = poller[p].queue[1].m
           /\ Mine(p) = poller[p].queue[1].copy
           /\ delivery[Src(p)][Msg(p)].status = "RUNNING" /\ Mine(p).read
           /\ JobRef(Src(p), Msg(p), Mine(p).job)
           /\ delivery[Src(p)][Msg(p)].job \in {0, Mine(p).job}
           /\ mail[Msg(p)] # NoMail
           /\ poller[p].pc \in Following =>
                /\ poller[p].job \in DOMAIN job /\ poller[p].job # 0
                /\ JobRef(Src(p), Msg(p), poller[p].job)
                /\ MyJob(p) = job[poller[p].job] /\ MyJob(p) \in JobRows
                /\ MyJob(p).feed = FeedOf[Src(p)]
                /\ Msg(p) >= source[Src(p)].success
<1>1. poller[p].queue # <<>> /\ \A i \in DOMAIN poller[p].queue : EntryOK(p, i)
    BY DEF IInv, QueueOK
<1>2. /\ poller[p] \in PollerStates
      /\ Src(p) \in Sources /\ Msg(p) \in Messages /\ Mine(p) \in Copies
      /\ 1 \in DOMAIN poller[p].queue
      /\ Src(p) = poller[p].queue[1].s /\ Msg(p) = poller[p].queue[1].m
      /\ Mine(p) = poller[p].queue[1].copy
    BY <1>1, Holds
<1>3. HandOK(p) /\ EntryOK(p, 1)
    BY <1>1, <1>2 DEF IInv
<1>4. delivery[Src(p)][Msg(p)].status = "RUNNING" /\ Mine(p).read
    BY <1>3 DEF HandOK
<1>5. /\ JobRef(Src(p), Msg(p), Mine(p).job) /\ mail[Msg(p)] # NoMail
      /\ delivery[Src(p)][Msg(p)].job \in {0, Mine(p).job}
    BY <1>2, <1>3, <1>4 DEF EntryOK
<1>6. ASSUME poller[p].pc \in Following
      PROVE  /\ poller[p].job \in DOMAIN job /\ poller[p].job # 0
             /\ JobRef(Src(p), Msg(p), poller[p].job)
             /\ MyJob(p) = job[poller[p].job] /\ MyJob(p) \in JobRows
             /\ MyJob(p).feed = FeedOf[Src(p)]
             /\ Msg(p) >= source[Src(p)].success
  <2>1. /\ poller[p].job # 0 /\ JobRef(Src(p), Msg(p), poller[p].job)
        /\ Msg(p) >= source[Src(p)].success
      BY <1>3, <1>6 DEF HandOK
  <2>2. poller[p].job \in DOMAIN job /\ job[poller[p].job].feed = FeedOf[Src(p)]
      BY <2>1 DEF JobRef
  <2> QED BY <2>1, <2>2, JobTypes DEF MyJob
<1> QED BY <1>1, <1>2, <1>4, <1>5, <1>6

\* The poll's new state, while it goes on with the import it has.
LEMMA GoOn ==
    ASSUME IInv, Grows, NEW p \in Pollers, poller[p].pc \in Following \ {"link"},
           NEW pc \in {"work", "parse", "stage", "result"},
           poller' = [poller EXCEPT ![p].pc = pc],
           delivery' = delivery, source' = source,
           LET row == job'[poller[p].job] IN
           /\ pc = "parse" => row.status = "PARSING"
           /\ pc = "stage" => row.status = "STAGED"
           /\ pc = "result" => row.status = "COMPLETED"
           /\ pc \in {"work", "result"} /\ row.status = "COMPLETED" =>
                /\ \A m \in Messages :
                     Imported(Src(p), m) =>
                        job'[delivery[Src(p)][m].job].done <= row.done
                /\ spent'.uploads = 0 =>
                     \A k \in DOMAIN job' :
                         job'[k].feed = FeedOf[Src(p)] => job'[k].done <= row.done
    PROVE  Flow' /\ poller' \in [Pollers -> PollerStates]
<1> DEFINE new == [poller[p] EXCEPT !.pc = pc]
<1>1. /\ poller[p] \in PollerStates /\ poller[p].pc \in Hand
      /\ poller \in [Pollers -> PollerStates]
    BY Holds DEF Following, IInv, Typed, TypeOK
<1>2. /\ new \in PollerStates /\ new.pc = pc /\ new.queue = poller[p].queue
      /\ new.job = poller[p].job /\ poller' = [poller EXCEPT ![p] = new]
    BY <1>1 DEF PollerStates
<1>3. pc \in Hand
    BY DEF Hand
<1> HIDE DEF new
<1>4. /\ OneAtATime' /\ poller' \in [Pollers -> PollerStates]
      /\ \A s \in Sources, m \in Messages : DeliveryOK(s, m)'
      /\ \A q \in Pollers : QueueOK(q)'
      /\ \A q \in Pollers \ {p} : HandOK(q)'
      /\ poller'[p] = new /\ AppliedInOrder'
    BY <1>1, <1>2, <1>3, Advance
<1>5. /\ Src(p) \in Sources /\ Msg(p) \in Messages
      /\ delivery[Src(p)][Msg(p)].status = "RUNNING" /\ Mine(p).read
      /\ mail[Msg(p)] # NoMail
      /\ poller[p].job # 0 /\ JobRef(Src(p), Msg(p), poller[p].job)
      /\ Msg(p) >= source[Src(p)].success
    BY <1>1, InHandFacts
<1>6. PICK s \in Sources, m \in Messages, j \in {poller[p].job} : s = Src(p) /\ m = Msg(p) /\ j = poller[p].job
    BY <1>5
<1>7. /\ Src(p)' = s /\ Msg(p)' = m /\ Mine(p)' = Mine(p) /\ poller'[p].job = j
      /\ MyJob(p)' = job'[j] /\ poller'[p].pc = pc
    BY <1>2, <1>4, <1>6 DEF Src, Msg, Mine, MyJob
<1>8. Mine(p).job = j
    BY <1>6 DEF IInv, HandOK
<1>9. JobRef(s, m, j)'
    BY <1>5, <1>6, RefKept
<1>10. JobRef(Src(p), Msg(p), poller[p].job)'
    BY <1>7, <1>9 DEF JobRef, Ambiguous
<1>11. /\ pc = "parse" => MyJob(p)'.status = "PARSING"
       /\ pc = "stage" => MyJob(p)'.status = "STAGED"
       /\ pc = "result" => MyJob(p)'.status = "COMPLETED"
    BY <1>6, <1>7
<1>12. ASSUME pc \in {"work", "result"}, MyJob(p)'.status = "COMPLETED"
       PROVE  Leads(p)'
  <2>1. /\ \A n \in Messages : Imported(s, n) => job'[delivery[s][n].job].done <= job'[j].done
        /\ spent'.uploads = 0 =>
             \A k \in DOMAIN job' : job'[k].feed = FeedOf[s] => job'[k].done <= job'[j].done
      BY <1>6, <1>7, <1>12
  <2>2. \A n \in Messages : Imported(s, n)' = Imported(s, n)
      BY DEF Imported
  <2> QED BY <1>7, <2>1, <2>2 DEF Leads, JobOf, Imported
<1>13. HandOK(p)'
  <2>1. delivery'[Src(p)'][Msg(p)'].status = "RUNNING" /\ Mine(p)'.read
        /\ Msg(p)' >= source'[Src(p)'].success
      BY <1>5, <1>6, <1>7
  <2>2. poller'[p].job # 0 /\ Mine(p)'.job = poller'[p].job
      BY <1>5, <1>6, <1>7, <1>8
  <2> QED BY <1>7, <1>10, <1>11, <1>12, <2>1, <2>2 DEF HandOK
<1>14. \A q \in Pollers : HandOK(q)'
    BY <1>4, <1>13
<1> QED BY <1>4, <1>14 DEF Flow

LEMMA SkipInactiveStep ==
    ASSUME IInv, NEW p \in Pollers, SkipInactive(p)
    PROVE  IInv'
<1> DEFINE q == poller[p].queue
           new == NextDelivery(p)
<1>1. /\ poller[p].pc = "apply" /\ q # <<>> /\ delivery' = delivery
      /\ poller' = [poller EXCEPT ![p] = new]
      /\ seen' \subseteq Messages /\ Apart
    BY DEF SkipInactive, Apart, IInv, Typed, TypeOK
<1>2. /\ new \in PollerStates /\ new.pc = "apply" /\ new.queue \in Seq(Entries)
      /\ \A i \in DOMAIN new.queue : i + 1 \in DOMAIN q /\ new.queue[i] = q[i + 1]
    BY <1>1, NextTypes
<1> HIDE DEF new
<1>3. \A i \in DOMAIN new.queue : i \in Nat \ {0}
    BY <1>2
<1>4. poller'[p] = new /\ Grows
    BY <1>1, <1>2, PutPoller, ApartKeeps
<1>5. ASSUME NEW i \in DOMAIN new.queue
      PROVE  EntryOK(p, i)'
  <2>1. PICK k, e : k = i + 1 /\ e = q[k]
      OBVIOUS
  <2>2. k \in DOMAIN q /\ new.queue[i] = e
      BY <1>2, <2>1
  <2>3. EntryOK(p, k)
      BY <1>1, <2>2 DEF IInv, QueueOK
  <2>4. delivery[e.s][e.m].status \in Due
      BY <1>1, <2>1, <2>3 DEF EntryOK
  <2>5. \A l \in DOMAIN new.queue : i # l /\ new.queue[l].s = e.s => new.queue[l].m # e.m
    <3> SUFFICES ASSUME NEW l \in DOMAIN new.queue, i # l
                 PROVE  new.queue[l].s = e.s => new.queue[l].m # e.m
        OBVIOUS
    <3>1. l + 1 \in DOMAIN q /\ new.queue[l] = q[l + 1]
        BY <1>2
    <3>2. l + 1 # k
      <4> HIDE DEF q
      <4> QED BY <1>3, <2>1
    <3> QED BY <2>1, <2>3, <3>1, <3>2 DEF EntryOK
  <2> HIDE DEF q
  <2>6. Alike(p, k, i, e, e)
      BY <1>1, <1>4, <2>1, <2>2, <2>4, <2>5 DEF Alike, q
  <2> QED BY <1>4, <2>6, EntryKept
<1> QED BY <1>1, <1>2, <1>5, PollMoves DEF Hand

LEMMA BeginStep ==
    ASSUME IInv, NEW p \in Pollers, Begin(p)
    PROVE  IInv'
<1> DEFINE q == poller[p].queue
<1>1. /\ poller[p].pc = "apply" /\ q # <<>> /\ seen' \subseteq Messages /\ Apart
      /\ \A i \in DOMAIN q : EntryOK(p, i)
    BY DEF Begin, Apart, IInv, Typed, TypeOK, QueueOK
<1>2. /\ poller[p] \in PollerStates /\ q \in Seq(Entries)
      /\ 1 \in DOMAIN q /\ q[1] \in Entries
      /\ Src(p) = q[1].s /\ Msg(p) = q[1].m /\ Mine(p) = q[1].copy
      /\ Src(p) \in Sources /\ Msg(p) \in Messages /\ Mine(p) \in Copies
      /\ delivery[Src(p)][Msg(p)] \in DeliveryRows
    BY <1>1, Holds
<1>3. PICK s \in Sources, m \in Messages, d \in DeliveryRows :
          s = Src(p) /\ m = Msg(p) /\ d = delivery[s][m]
    BY <1>2
<1>4. PICK copy : copy = IF Mine(p).read THEN Mine(p) ELSE Read(d)
    OBVIOUS
<1>5. /\ EntryOK(p, 1) /\ DeliveryOK(s, m) /\ d.status \in Due /\ ~InHand(s, m)
      /\ mail[m] # NoMail
  <2>1. EntryOK(p, 1)
      BY <1>1, <1>2
  <2> QED BY <1>1, <1>2, <1>3, <2>1, InOwnHand DEF EntryOK, IInv, Hand
<1>6. /\ copy \in Copies /\ copy.read /\ copy.attempts < Tries
      /\ JobRef(s, m, copy.job) /\ d.job \in {0, copy.job}
  <2>1. CASE Mine(p).read
      BY <1>1, <1>2, <1>3, <1>4, <1>5, <2>1 DEF EntryOK
  <2>2. CASE ~Mine(p).read
    <3>1. copy = Read(d)
        BY <1>4, <2>2
    <3> QED BY <1>3, <1>5, <3>1, CopyTypes DEF DeliveryOK
  <2> QED BY <2>1, <2>2
<1>7. PICK attempts \in Attempts : attempts = copy.attempts + 1 /\ attempts <= Tries
  <2>1. copy.attempts \in Nat
      BY <1>6, CopyTypes
  <2> QED BY <1>6, <2>1, Limits DEF Attempts
<1> DEFINE row == [d EXCEPT !.status = "RUNNING", !.attempts = attempts, !.waiting = FALSE]
           mine == [copy EXCEPT !.attempts = attempts]
           queue == [q EXCEPT ![1].copy = mine]
           new == [poller[p] EXCEPT !.pc = "decide", !.held = @ \union {Src(p)},
                                    !.queue = queue]
<1>8. /\ delivery' = [delivery EXCEPT ![s][m] = row]
      /\ poller' = [poller EXCEPT ![p] = new]
  <2>1. delivery' = [delivery EXCEPT ![s][m] = row]
      BY <1>3, <1>4, <1>7 DEF Begin
  <2>2. poller' = [poller EXCEPT ![p] = [@ EXCEPT
            !.pc = "decide", !.held = poller[p].held \union {Src(p)},
            !.queue[1].copy = mine]]
      BY <1>3, <1>4, <1>7 DEF Begin
  <2> HIDE DEF mine
  <2> QED BY <2>1, <2>2
<1>9. row \in DeliveryRows /\ row.status = "RUNNING" /\ row.attempts = attempts /\ row.job = d.job
    BY DEF DeliveryRows, Statuses, Due
<1>10. mine \in Copies /\ mine.read /\ mine.job = copy.job
    BY <1>6 DEF Copies
<1> HIDE DEF row, mine
<1>11. /\ queue \in Seq(Entries) /\ DOMAIN queue = DOMAIN q
       /\ queue[1].s = s /\ queue[1].m = m /\ queue[1].copy = mine
       /\ \A i \in DOMAIN q \ {1} : queue[i] = q[i]
  <2> DEFINE first == [q[1] EXCEPT !.copy = mine]
  <2>1. first \in Entries /\ first.s = s /\ first.m = m /\ first.copy = mine
      BY <1>2, <1>3, <1>10 DEF Entries
  <2>2. queue = [q EXCEPT ![1] = first]
      BY <1>2
  <2> HIDE DEF first, queue, q
  <2> QED BY <1>2, <2>1, <2>2
<1> HIDE DEF queue
<1>12. new \in PollerStates /\ new.pc = "decide" /\ new.queue = queue
    BY <1>2, <1>11 DEF PollerStates
<1> HIDE DEF new
<1>13. /\ poller' \in [Pollers -> PollerStates] /\ poller'[p] = new
       /\ \A r \in Pollers \ {p} : poller'[r] = poller[r]
    BY <1>8, <1>12, PutPoller
<1>14. /\ delivery' \in [Sources -> [Messages -> DeliveryRows]]
       /\ delivery'[s][m] = row
       /\ \A t \in Sources, n \in Messages :
            t # s \/ n # m => delivery'[t][n] = delivery[t][n]
  <2>1. delivery \in [Sources -> [Messages -> DeliveryRows]]
      BY DEF IInv, Typed, TypeOK
  <2> QED BY <1>8, <1>9, <2>1
<1>15. Grows
    BY <1>1, ApartKeeps
<1>16. /\ OneAtATime'
       /\ \A r \in Pollers \ {p} : QueueOK(r)' /\ HandOK(r)'
    BY <1>1, <1>13, Alone
<1>17. Src(p)' = s /\ Msg(p)' = m /\ Mine(p)' = mine /\ poller'[p].queue # <<>>
       /\ poller'[p].queue = queue /\ poller'[p].pc = "decide"
  <2>1. queue # <<>>
      BY <1>2, <1>11
  <2>2. Head(queue) = queue[1]
      BY <1>11, <2>1
  <2> QED BY <1>11, <1>12, <1>13, <2>1, <2>2 DEF Src, Msg, Mine
<1>18. ASSUME NEW t \in Sources, NEW n \in Messages
       PROVE  DeliveryOK(t, n)'
  <2>1. CASE t = s /\ n = m
    <3>1. JobRef(s, m, row.job)'
      <4>1. PICK j : j = row.job
          OBVIOUS
      <4>2. JobRef(s, m, j)
          BY <1>3, <1>5, <1>9, <4>1 DEF DeliveryOK
      <4>3. JobRef(s, m, j)'
          BY <1>5, <1>15, <4>2, RefKept
      <4> QED BY <4>1, <4>3 DEF row, JobRef
    <3>2. row.attempts <= Tries'
        BY <1>7, <1>9, <1>15, TriesGrow, Limits DEF Attempts
    <3>3. InHand(s, m)'
        BY <1>17 DEF InHand, Hand
    <3>4. mail'[m] # NoMail
        BY <1>1, <1>5 DEF Apart
    <3>5. JobRef(s, m, delivery[s][m].job)'
      <4>1. PICK j : j = row.job
          OBVIOUS
      <4>2. JobRef(s, m, j)
          BY <1>3, <1>5, <1>9, <4>1 DEF DeliveryOK
      <4>3. JobRef(s, m, j)' /\ delivery'[s][m].job = j
          BY <1>5, <1>14, <1>15, <4>1, <4>2, RefKept
      <4> QED BY <4>3 DEF JobRef
    <3> QED BY <1>9, <1>14, <2>1, <3>2, <3>3, <3>4, <3>5 DEF DeliveryOK, Imported
  <2>2. CASE ~(t = s /\ n = m)
    <3>1. ~InHand(t, n)
        BY <1>1, InOwnHand DEF Hand
    <3> QED BY <1>14, <1>15, <2>2, <3>1, DeliveryKept
  <2> QED BY <2>1, <2>2
<1>19. ASSUME NEW i \in DOMAIN q
       PROVE  EntryOK(p, i)'
  <2>1. \A l \in DOMAIN q : queue[l].s = q[l].s /\ queue[l].m = q[l].m
      BY <1>2, <1>3, <1>11
  <2>2. \A l \in DOMAIN q : i # l /\ q[l].s = q[i].s => q[l].m # q[i].m
      BY <1>1 DEF EntryOK
  <2>3. CASE i = 1
    <3>1. \A l \in DOMAIN queue : 1 # l /\ queue[l].s = s => queue[l].m # m
        BY <1>2, <1>3, <1>11, <2>1, <2>2, <2>3
    <3>2. mail'[m] # NoMail
        BY <1>1, <1>5 DEF Apart
    <3>3. PICK j : j = mine.job
        OBVIOUS
    <3>4. JobRef(s, m, j)' /\ delivery'[s][m].job \in {0, j}
        BY <1>5, <1>6, <1>9, <1>10, <1>14, <1>15, <3>3, RefKept
    <3>5. PICK e : e = queue[1]
        OBVIOUS
    <3>6. e.s = s /\ e.m = m /\ e.copy = mine /\ poller'[p].queue[1] = e
        BY <1>11, <1>17, <3>5
    <3>7. JobRef(e.s, e.m, e.copy.job)' /\ delivery'[e.s][e.m].job \in {0, e.copy.job}
      <4>1. e.copy.job = j
          BY <3>3, <3>6
      <4> QED BY <3>4, <3>6, <4>1
    <3> QED BY <1>17, <2>3, <3>1, <3>2, <3>6, <3>7 DEF EntryOK
  <2>4. CASE i # 1
    <3>1. PICK e : e = q[i]
        OBVIOUS
    <3>2. e \in Entries /\ e.s \in Sources /\ e.m \in Messages /\ EntryOK(p, i)
        BY <1>1, <3>1, Holds, EntryTypes
    <3>3. e.s = s => e.m # m
        BY <1>2, <1>3, <2>2, <2>4, <3>1
    <3>4. delivery'[e.s][e.m] = delivery[e.s][e.m]
        BY <1>14, <3>2, <3>3
    <3>5. delivery[e.s][e.m].status \in Due
        BY <1>1, <3>1, <3>2 DEF EntryOK
    <3>6. \A l \in DOMAIN queue : i # l /\ queue[l].s = e.s => queue[l].m # e.m
        BY <1>11, <2>1, <2>2, <3>1
    <3>7. poller'[p].queue[i] = e
        BY <1>11, <1>17, <2>4, <3>1
    <3> HIDE DEF q
    <3>8. Alike(p, i, i, e, e)
        BY <1>1, <1>17, <3>1, <3>4, <3>5, <3>6, <3>7 DEF Alike, q
    <3> QED BY <1>15, <3>8, EntryKept
  <2> QED BY <2>3, <2>4
<1>20. QueueOK(p)' /\ HandOK(p)'
  <2>1. QueueOK(p)'
      BY <1>11, <1>17, <1>19 DEF QueueOK
  <2>2. delivery'[Src(p)'][Msg(p)'].status = "RUNNING" /\ Mine(p)'.read
      BY <1>9, <1>10, <1>14, <1>17
  <2>3. HandOK(p)'
      BY <1>17, <2>2 DEF HandOK, Following
  <2> QED BY <2>1, <2>3
<1>21. AppliedInOrder'
  <2>1. \A t \in Sources, n \in Messages :
          Imported(t, n)' => Imported(t, n) /\ delivery'[t][n].job = delivery[t][n].job
      BY <1>9, <1>14 DEF Imported
  <2> QED BY <1>15, <2>1, OrderKept
<1>22. Flow'
    BY <1>16, <1>18, <1>20, <1>21 DEF Flow
<1> QED BY <1>1, <1>13, <1>14, <1>22, TypesKept

\* The delivery in hand goes to a person, is retried or is superseded.
LEMMA RefuseStep ==
    ASSUME IInv, NEW p \in Pollers, Refuse(p)
    PROVE  IInv'
<1>1. poller[p].pc = "decide" /\ Apart /\ seen' \subseteq Messages
    BY DEF Refuse, Apart, IInv, Typed, TypeOK
<1>2. Review(p) \/ Retry(p) \/ Settle(p, "SUPERSEDED", FALSE)
    BY DEF Refuse
<1>3. Grows
    BY <1>1, ApartKeeps
<1>4. CASE Review(p) \/ Retry(p)
  <2>1. Flow' /\ poller' \in [Pollers -> PollerStates]
        /\ delivery' \in [Sources -> [Messages -> DeliveryRows]]
      BY <1>1, <1>3, <1>4, Reviewed DEF Hand, Flow
  <2> QED BY <1>1, <2>1, TypesKept
<1>5. CASE Settle(p, "SUPERSEDED", FALSE)
  <2>1. Flow' /\ poller' \in [Pollers -> PollerStates]
        /\ delivery' \in [Sources -> [Messages -> DeliveryRows]]
      BY <1>1, <1>3, <1>5, Settled DEF Hand, Flow, Statuses, Due
  <2> QED BY <1>1, <2>1, TypesKept
<1> QED BY <1>2, <1>4, <1>5

LEMMA FetchFailsStep ==
    ASSUME IInv, NEW p \in Pollers, FetchFails(p)
    PROVE  IInv'
<1>1. poller[p].pc = "decide" /\ Apart /\ seen' \subseteq Messages
    BY DEF FetchFails, Apart, IInv, Typed, TypeOK
<1>2. Review(p) \/ Retry(p)
    BY DEF FetchFails
<1>3. Flow' /\ poller' \in [Pollers -> PollerStates]
      /\ delivery' \in [Sources -> [Messages -> DeliveryRows]]
    BY <1>1, <1>2, ApartKeeps, Reviewed DEF Hand, Flow
<1> QED BY <1>1, <1>3, TypesKept

LEMMA StageFailsStep ==
    ASSUME IInv, NEW p \in Pollers, StageFails(p)
    PROVE  IInv'
<1>1. poller[p].pc = "stage" /\ Apart /\ seen' \subseteq Messages
    BY DEF StageFails, Apart, IInv, Typed, TypeOK
<1>2. Review(p)
    BY DEF StageFails
<1>3. Flow' /\ poller' \in [Pollers -> PollerStates]
      /\ delivery' \in [Sources -> [Messages -> DeliveryRows]]
    BY <1>1, <1>2, ApartKeeps, Reviewed DEF Hand, Flow
<1> QED BY <1>1, <1>3, TypesKept

\* Going on with the import of the delivery: it is complete only if nothing of
\* the feed completed later.
LEMMA CheckStep ==
    ASSUME IInv, NEW p \in Pollers, Check(p)
    PROVE  IInv'
<1> DEFINE j == poller[p].job
<1>1. poller[p].pc = "check" /\ Apart /\ seen' \subseteq Messages /\ job' = job
      /\ source' = source
    BY DEF Check, Apart, IInv, Typed, TypeOK
<1>2. Grows
    BY <1>1, ApartKeeps
<1>3. CASE Review(p)
  <2>1. Flow' /\ poller' \in [Pollers -> PollerStates]
        /\ delivery' \in [Sources -> [Messages -> DeliveryRows]]
      BY <1>1, <1>2, <1>3, Reviewed DEF Hand, Flow
  <2> QED BY <1>1, <2>1, TypesKept
<1>4. CASE /\ MyJob(p).status = "COMPLETED" => Newest(j)
           /\ poller' = [poller EXCEPT ![p].pc = "work"] /\ delivery' = delivery
  <2>1. /\ Src(p) \in Sources /\ j \in DOMAIN job
        /\ MyJob(p) = job[j] /\ MyJob(p).feed = FeedOf[Src(p)]
      BY <1>1, InHandFacts DEF Hand, Following
  <2>2. ASSUME MyJob(p).status = "COMPLETED"
        PROVE  /\ \A m \in Messages :
                    Imported(Src(p), m) => job[delivery[Src(p)][m].job].done <= job[j].done
               /\ spent.uploads = 0 => \A k \in DOMAIN job :
                    job[k].feed = FeedOf[Src(p)] => job[k].done <= job[j].done
    <3>1. \A k \in DOMAIN job :
            job[k].feed = FeedOf[Src(p)] /\ job[k].status = "COMPLETED"
                => job[k].done <= job[j].done
        BY <1>4, <2>1, <2>2 DEF Newest
    <3>2. \A m \in Messages :
            Imported(Src(p), m) => job[delivery[Src(p)][m].job].done <= job[j].done
        BY <2>1, <3>1 DEF IInv, DeliveryOK, JobRef, Imported
    <3>3. ASSUME spent.uploads = 0, NEW k \in DOMAIN job, job[k].feed = FeedOf[Src(p)]
          PROVE  job[k].done <= job[j].done
      <4>1. /\ job[k].done = 0 <=> job[k].status \notin {"COMPLETED", "COMPLETED_WITH_ERRORS"}
            /\ job[k].status # "COMPLETED_WITH_ERRORS"
          BY <3>3 DEF IInv, CompletionsOK
      <4>2. job[j].done \in Nat
          BY <2>1, JobTypes
      <4> QED BY <3>1, <3>3, <4>1, <4>2
    <3> QED BY <3>2, <3>3
  <2>3. spent'.uploads = 0 => spent.uploads = 0
      BY <1>2, Limits DEF Grows
  <2>4. Flow' /\ poller' \in [Pollers -> PollerStates]
    <3> HIDE DEF j
    <3>1. job'[poller[p].job] = MyJob(p)
        BY <1>1 DEF MyJob
    <3> QED BY <1>1, <1>2, <1>4, <2>1, <2>2, <2>3, GoOn DEF Following, Hand, j
  <2>5. delivery' \in [Sources -> [Messages -> DeliveryRows]]
      BY <1>4 DEF IInv, Typed, TypeOK
  <2> QED BY <1>1, <2>4, <2>5, TypesKept
<1> QED BY <1>1, <1>3, <1>4 DEF Check

\* A delivery may have any import of its feed once it is accepted.
LEMMA AcceptedRef ==
    ASSUME IInv, NEW p \in Pollers, Accepted(p), NEW j \in DOMAIN job,
           job[j].feed = FeedOf[Src(p)]
    PROVE  JobRef(Src(p), Msg(p), j)
<1>1. spent.pauses = 0 => Active = Sources
    BY DEF IInv, SourceOK, Active
<1>2. ~Ambiguous(Msg(p), Active)
    BY DEF Accepted
<1> QED BY <1>1, <1>2 DEF JobRef

\* The import j is found or made for the delivery, which still has another.
LEMMA ReceiveMoves ==
    ASSUME IInv, Grows, NEW p \in Pollers, Accepted(p), NEW j \in DOMAIN job', j # 0,
           NEW new \in PollerStates, poller' = [poller EXCEPT ![p] = new],
           new.pc = "link", new.job = j, new.queue = poller[p].queue,
           delivery' = delivery, source' = source, mail' = mail, spent' = spent,
           job'[j].feed = FeedOf[Src(p)], \A k \in DOMAIN job : job'[k] = job[k]
    PROVE  Flow' /\ poller' \in [Pollers -> PollerStates]
<1>1. poller[p].pc = "decide" /\ Others(Src(p), Msg(p)) = {} /\ ~Outdated(p)
      /\ ~Ambiguous(Msg(p), Active)
    BY DEF Accepted
<1>2. /\ OneAtATime' /\ poller' \in [Pollers -> PollerStates]
      /\ \A s \in Sources, m \in Messages : DeliveryOK(s, m)'
      /\ \A q \in Pollers : QueueOK(q)'
      /\ \A q \in Pollers \ {p} : HandOK(q)'
      /\ poller'[p] = new /\ AppliedInOrder'
    BY <1>1, Advance DEF Hand
<1>3. /\ Src(p) \in Sources /\ Msg(p) \in Messages
      /\ delivery[Src(p)][Msg(p)].status = "RUNNING" /\ Mine(p).read
    BY <1>1, InHandFacts DEF Hand
<1>4. PICK s \in Sources, m \in Messages : s = Src(p) /\ m = Msg(p)
    BY <1>3
<1>5. Src(p)' = s /\ Msg(p)' = m /\ Mine(p)' = Mine(p)
    BY <1>2, <1>4 DEF Src, Msg, Mine
<1>6. m >= source[s].success
  <2>1. source[s].success \in Nat /\ m \in Nat
      BY DEF IInv, Typed, TypeOK, SourceRows, Messages
  <2>2. ~(m < source[s].success)
      BY <1>1, <1>4 DEF Outdated
  <2> QED BY <2>1, <2>2
<1>7. JobRef(s, m, j)'
  <2>1. spent.pauses = 0 => ~Ambiguous(m, Sources)
    <3>1. spent.pauses = 0 => Active = Sources
        BY DEF IInv, SourceOK, Active
    <3> QED BY <1>1, <1>4, <3>1
  <2>2. Ambiguous(m, Sources)' = Ambiguous(m, Sources)
      BY DEF Ambiguous
  <2> QED BY <1>4, <2>1, <2>2 DEF JobRef
<1>8. Others(s, m)' = {}
  <2> SUFFICES ASSUME NEW k \in Messages \ {m}, delivery[s][k].job # 0,
                      job'[delivery[s][k].job].status \in Unfinished
               PROVE  FALSE
      BY DEF Others
  <2>1. delivery[s][k].job \in DOMAIN job
      BY DEF IInv, DeliveryOK, JobRef
  <2>2. Others(s, m) = {}
      BY <1>1, <1>4
  <2> QED BY <2>1, <2>2 DEF Others
<1>9. HandOK(p)'
  <2>1. delivery'[Src(p)'][Msg(p)'].status = "RUNNING" /\ Mine(p)'.read
      BY <1>3, <1>4, <1>5
  <2>2. Msg(p)' >= source'[Src(p)'].success /\ poller'[p].job # 0 /\ poller'[p].pc = "link"
      BY <1>2, <1>5, <1>6
  <2>3. JobRef(Src(p), Msg(p), poller[p].job)' /\ Others(Src(p), Msg(p))' = {}
    <3>1. JobRef(Src(p), Msg(p), poller[p].job)'
        BY <1>2, <1>5, <1>7 DEF JobRef, Ambiguous
    <3>2. Others(Src(p), Msg(p))' = {}
        BY <1>5, <1>8 DEF Others
    <3> QED BY <3>1, <3>2
  <2> QED BY <2>1, <2>2, <2>3 DEF HandOK, Hand, Following
<1>10. \A q \in Pollers : HandOK(q)'
    BY <1>2, <1>9
<1> QED BY <1>2, <1>10 DEF Flow

LEMMA ReceiveStep ==
    ASSUME IInv, NEW p \in Pollers, Receive(p)
    PROVE  IInv'
<1> DEFINE f == FeedOf[Src(p)]
<1>1. /\ Accepted(p) /\ poller[p].pc = "decide" /\ seen' \subseteq Messages
      /\ delivery' = delivery /\ source' = source /\ mail' = mail /\ spent' = spent
    BY DEF Receive, Accepted, IInv, Typed, TypeOK
<1>2. /\ poller[p] \in PollerStates /\ Src(p) \in Sources /\ Mine(p) \in Copies
    BY <1>1, InHandFacts, Holds DEF Hand
<1>3. delivery' \in [Sources -> [Messages -> DeliveryRows]]
    BY <1>1 DEF IInv, Typed, TypeOK
<1>4. PICK c \in Contents :
        \/ \E j \in LiveJobs(f, c) :
             /\ job' = job
             /\ poller' = [poller EXCEPT ![p] = [@ EXCEPT
                    !.pc = "link", !.job = j, !.duplicate = TRUE]]
        \/ /\ LiveJobs(f, c) = {} /\ Len(job) < MaxJobs
           /\ job' = Append(job, [status |-> "PENDING", feed |-> f, content |-> c,
                                  current |-> Mine(p).current, done |-> 0])
           /\ poller' = [poller EXCEPT ![p] = [@ EXCEPT
                  !.pc = "link", !.job = Len(job) + 1]]
    BY DEF Receive
<1>5. ASSUME NEW j \in LiveJobs(f, c), job' = job,
             poller' = [poller EXCEPT ![p] = [@ EXCEPT
                    !.pc = "link", !.job = j, !.duplicate = TRUE]]
      PROVE  IInv'
  <2> DEFINE new == [poller[p] EXCEPT !.pc = "link", !.job = j, !.duplicate = TRUE]
  <2>1. j \in DOMAIN job /\ job[j].feed = f
      BY DEF LiveJobs
  <2>2. j \in Jobs /\ j # 0
      BY <2>1, JobTypes DEF IInv, Typed, TypeOK, Jobs
  <2>3. new \in PollerStates /\ new.pc = "link" /\ new.job = j /\ new.queue = poller[p].queue
        /\ poller' = [poller EXCEPT ![p] = new]
      BY <1>2, <1>5, <2>2 DEF PollerStates
  <2> HIDE DEF new
  <2>4. Apart
      BY <1>1, <1>5 DEF Apart
  <2>5. Flow' /\ poller' \in [Pollers -> PollerStates]
      BY <1>1, <1>5, <2>1, <2>2, <2>3, <2>4, ApartKeeps, ReceiveMoves
  <2> QED BY <1>1, <1>3, <2>4, <2>5, TypesKept
<1>6. ASSUME LiveJobs(f, c) = {}, Len(job) < MaxJobs,
             job' = Append(job, [status |-> "PENDING", feed |-> f, content |-> c,
                                 current |-> Mine(p).current, done |-> 0]),
             poller' = [poller EXCEPT ![p] = [@ EXCEPT !.pc = "link", !.job = Len(job) + 1]]
      PROVE  IInv'
  <2> DEFINE row == [status |-> "PENDING", feed |-> f, content |-> c,
                     current |-> Mine(p).current, done |-> 0]
             j == Len(job) + 1
             new == [poller[p] EXCEPT !.pc = "link", !.job = j]
  <2>1. row \in JobRows /\ row.feed = f /\ row.content = c /\ row.status = "PENDING"
        /\ row.done = 0
      BY <1>2 DEF JobRows, JobStatuses, Unfinished, Feeds, Copies
  <2>2. job' = Append(job, row)
      BY <1>6
  <2> HIDE DEF row
  <2>3. /\ Grows /\ Base' /\ job' \in Seq(JobRows) /\ Len(job') <= MaxJobs
        /\ j \in DOMAIN job' /\ job'[j] = row
        /\ \A k \in DOMAIN job : job'[k] = job[k]
    <3>1. LiveJobs(row.feed, row.content) = {}
        BY <1>6, <2>1
    <3>2. spent.crashes = spent'.crashes /\ spent.pauses = spent'.pauses
          /\ spent.uploads <= spent'.uploads /\ spent'.uploads \in Nat
        BY <1>1, Limits
    <3> QED BY <1>1, <1>6, <2>1, <2>2, <3>1, <3>2, JobAppended
  <2>4. j \in Jobs /\ j # 0
      BY <1>6, JobTypes DEF Jobs
  <2>5. new \in PollerStates /\ new.pc = "link" /\ new.job = j /\ new.queue = poller[p].queue
        /\ poller' = [poller EXCEPT ![p] = new]
    <3> HIDE DEF j
    <3>1. poller' = [poller EXCEPT ![p] = new]
        BY <1>6 DEF j
    <3> QED BY <1>2, <2>4, <3>1 DEF PollerStates
  <2> HIDE DEF new, j
  <2>6. Flow' /\ poller' \in [Pollers -> PollerStates]
      BY <1>1, <2>1, <2>3, <2>4, <2>5, ReceiveMoves
  <2>7. Typed'
      BY <1>1, <1>3, <2>3, <2>6 DEF Typed, TypeOK, IInv
  <2> QED BY <2>3, <2>6, <2>7 DEF IInv, Flow, Base
<1> QED BY <1>4, <1>5, <1>6

LEMMA ContinueStep ==
    ASSUME IInv, NEW p \in Pollers, Continue(p)
    PROVE  IInv'
<1> DEFINE j == Mine(p).job
           new == [poller[p] EXCEPT !.pc = "check", !.job = j]
<1>1. /\ Accepted(p) /\ poller[p].pc = "decide" /\ seen' \subseteq Messages
      /\ delivery' = delivery /\ source' = source /\ mail' = mail /\ spent' = spent
      /\ job' = job /\ Apart /\ poller' = [poller EXCEPT ![p] = new] /\ ~NeedsFile(p)
    BY DEF Continue, Accepted, Apart, IInv, Typed, TypeOK
<1>2. /\ poller[p] \in PollerStates /\ Src(p) \in Sources /\ Msg(p) \in Messages
      /\ Mine(p) \in Copies /\ delivery[Src(p)][Msg(p)].status = "RUNNING" /\ Mine(p).read
      /\ JobRef(Src(p), Msg(p), j) /\ mail[Msg(p)] # NoMail
    BY <1>1, InHandFacts, Holds DEF Hand
<1>3. j \in {0} \union Jobs /\ j # 0
    BY <1>1, <1>2 DEF Copies, NeedsFile
<1>4. new \in PollerStates /\ new.pc = "check" /\ new.job = j /\ new.queue = poller[p].queue
    BY <1>2, <1>3 DEF PollerStates
<1> HIDE DEF new
<1>5. Grows
    BY <1>1, ApartKeeps
<1>6. /\ OneAtATime' /\ poller' \in [Pollers -> PollerStates]
      /\ \A s \in Sources, m \in Messages : DeliveryOK(s, m)'
      /\ \A q \in Pollers : QueueOK(q)'
      /\ \A q \in Pollers \ {p} : HandOK(q)'
      /\ poller'[p] = new /\ AppliedInOrder'
    BY <1>1, <1>4, <1>5, Advance DEF Hand
<1>7. Src(p)' = Src(p) /\ Msg(p)' = Msg(p) /\ Mine(p)' = Mine(p)
    BY <1>4, <1>6 DEF Src, Msg, Mine
<1>8. Msg(p) >= source[Src(p)].success
    BY <1>1, <1>2 DEF Accepted, Outdated, IInv, Typed, TypeOK, SourceRows, Messages
<1>9. JobRef(Src(p), Msg(p), poller[p].job)'
    BY <1>1, <1>2, <1>4, <1>6, <1>7 DEF JobRef, Ambiguous
<1>10. HandOK(p)'
  <2>1. delivery'[Src(p)'][Msg(p)'].status = "RUNNING" /\ Mine(p)'.read
      BY <1>1, <1>2, <1>7
  <2>2. /\ Msg(p)' >= source'[Src(p)'].success /\ poller'[p].job # 0
        /\ poller'[p].pc = "check" /\ Mine(p)'.job = poller'[p].job
      BY <1>1, <1>3, <1>4, <1>6, <1>7, <1>8
  <2> QED BY <1>9, <2>1, <2>2 DEF HandOK, Hand, Following
<1>11. \A q \in Pollers : HandOK(q)'
    BY <1>6, <1>10
<1>12. Flow' /\ delivery' \in [Sources -> [Messages -> DeliveryRows]]
    BY <1>1, <1>6, <1>11 DEF Flow, IInv, Typed, TypeOK
<1> QED BY <1>1, <1>6, <1>12, TypesKept

LEMMA LinkStep ==
    ASSUME IInv, NEW p \in Pollers, Link(p)
    PROVE  IInv'
<1> DEFINE q == poller[p].queue
<1>1. /\ poller[p].pc = "link" /\ poller[p].pc \in Hand /\ poller[p].pc \in Following
      /\ seen' \subseteq Messages /\ Apart /\ mail' = mail /\ source' = source /\ job' = job
    BY DEF Link, Apart, IInv, Typed, TypeOK, Hand, Following
<1>2. /\ poller[p] \in PollerStates /\ q \in Seq(Entries) /\ q # <<>>
      /\ 1 \in DOMAIN q /\ q[1] \in Entries
      /\ Src(p) = q[1].s /\ Msg(p) = q[1].m /\ Mine(p) = q[1].copy
      /\ Src(p) \in Sources /\ Msg(p) \in Messages /\ Mine(p) \in Copies
      /\ delivery[Src(p)][Msg(p)] \in DeliveryRows
      /\ \A i \in DOMAIN q : EntryOK(p, i)
  <2>1. q # <<>> /\ \A i \in DOMAIN q : EntryOK(p, i)
      BY <1>1 DEF IInv, QueueOK
  <2> QED BY <2>1, Holds
<1>3. PICK s \in Sources, m \in Messages, d \in DeliveryRows, j \in Jobs :
          s = Src(p) /\ m = Msg(p) /\ d = delivery[s][m] /\ j = poller[p].job
  <2>1. poller[p].job \in Jobs
      BY <1>1, <1>2, InHandFacts DEF PollerStates
  <2> QED BY <1>2, <2>1
<1>4. /\ d.status = "RUNNING" /\ Mine(p).read /\ mail[m] # NoMail
      /\ JobRef(s, m, j) /\ j # 0 /\ m >= source[s].success /\ Others(s, m) = {}
      /\ DeliveryOK(s, m)
  <2>1. HandOK(p)
      BY DEF IInv
  <2> QED BY <1>1, <1>3, <2>1, InHandFacts DEF HandOK, IInv
<1> DEFINE row == [d EXCEPT !.job = j]
           mine == [Mine(p) EXCEPT !.job = j]
           queue == [q EXCEPT ![1].copy = mine]
           new == [poller[p] EXCEPT !.pc = "check", !.queue = queue]
<1>5. /\ delivery' = [delivery EXCEPT ![s][m] = row]
      /\ poller' = [poller EXCEPT ![p] = new]
  <2>1. delivery' = [delivery EXCEPT ![s][m] = row]
      BY <1>3 DEF Link
  <2>2. poller' = [poller EXCEPT ![p] = [@ EXCEPT
            !.pc = "check", !.queue[1].copy.job = poller[p].job]]
      BY DEF Link
  <2>3. [Mine(p) EXCEPT !.job = poller[p].job] = mine
      BY <1>3
  <2>4. [q EXCEPT ![1].copy.job = poller[p].job] = queue
      BY <1>2, <2>3
  <2> HIDE DEF queue, mine
  <2> QED BY <2>1, <2>2, <2>4
<1>6. row \in DeliveryRows /\ row.status = "RUNNING" /\ row.attempts = d.attempts /\ row.job = j
    BY <1>4 DEF DeliveryRows
<1>7. mine \in Copies /\ mine.read /\ mine.job = j
    BY <1>2, <1>4 DEF Copies
<1> HIDE DEF row, mine
<1>8. /\ queue \in Seq(Entries) /\ DOMAIN queue = DOMAIN q
      /\ queue[1].s = s /\ queue[1].m = m /\ queue[1].copy = mine
      /\ \A i \in DOMAIN q \ {1} : queue[i] = q[i]
  <2> DEFINE first == [q[1] EXCEPT !.copy = mine]
  <2>1. first \in Entries /\ first.s = s /\ first.m = m /\ first.copy = mine
      BY <1>2, <1>3, <1>7 DEF Entries
  <2>2. queue = [q EXCEPT ![1] = first]
      BY <1>2
  <2> HIDE DEF first, queue, q
  <2> QED BY <1>2, <2>1, <2>2
<1> HIDE DEF queue
<1>9. new \in PollerStates /\ new.pc = "check" /\ new.queue = queue /\ new.job = j
    BY <1>2, <1>3, <1>8 DEF PollerStates
<1> HIDE DEF new
<1>10. /\ poller' \in [Pollers -> PollerStates] /\ poller'[p] = new
       /\ \A r \in Pollers \ {p} : poller'[r] = poller[r]
    BY <1>5, <1>9, PutPoller
<1>11. /\ delivery' \in [Sources -> [Messages -> DeliveryRows]]
       /\ delivery'[s][m] = row
       /\ \A t \in Sources, n \in Messages :
            t # s \/ n # m => delivery'[t][n] = delivery[t][n]
  <2>1. delivery \in [Sources -> [Messages -> DeliveryRows]]
      BY DEF IInv, Typed, TypeOK
  <2> QED BY <1>5, <1>6, <2>1
<1>12. Grows
    BY <1>1, ApartKeeps
<1>13. /\ OneAtATime'
       /\ \A r \in Pollers \ {p} : QueueOK(r)' /\ HandOK(r)'
    BY <1>1, <1>10, Alone
<1>14. Src(p)' = s /\ Msg(p)' = m /\ Mine(p)' = mine /\ poller'[p].queue # <<>>
       /\ poller'[p].queue = queue /\ poller'[p].pc = "check" /\ poller'[p].job = j
  <2>1. queue # <<>>
      BY <1>2, <1>8
  <2>2. Head(queue) = queue[1]
      BY <1>8, <2>1
  <2> QED BY <1>8, <1>9, <1>10, <2>1, <2>2 DEF Src, Msg, Mine
<1>15. JobRef(s, m, j)'
    BY <1>4, <1>12, RefKept
<1>16. ASSUME NEW t \in Sources, NEW n \in Messages
       PROVE  DeliveryOK(t, n)'
  <2>1. CASE t = s /\ n = m
    <3>1. JobRef(s, m, delivery[s][m].job)'
      <4>1. delivery'[s][m].job = j
          BY <1>6, <1>11
      <4> QED BY <1>15, <4>1 DEF JobRef
    <3>2. row.attempts <= Tries'
      <4>1. d.attempts \in Nat /\ d.attempts <= Tries
          BY <1>3, <1>4 DEF DeliveryOK, DeliveryRows, Attempts
      <4> QED BY <1>6, <1>12, <4>1, TriesGrow
    <3>3. InHand(s, m)'
        BY <1>14 DEF InHand, Hand
    <3>4. mail'[m] # NoMail
        BY <1>1, <1>4
    <3> QED BY <1>6, <1>11, <2>1, <3>1, <3>2, <3>3, <3>4 DEF DeliveryOK, Imported
  <2>2. CASE ~(t = s /\ n = m)
    <3>1. ~InHand(t, n)
        BY <1>1, <1>3, <2>2, InOwnHand DEF Hand
    <3> QED BY <1>11, <1>12, <2>2, <3>1, DeliveryKept
  <2> QED BY <2>1, <2>2
<1>17. ASSUME NEW i \in DOMAIN q
       PROVE  EntryOK(p, i)'
  <2>1. \A l \in DOMAIN q : queue[l].s = q[l].s /\ queue[l].m = q[l].m
      BY <1>2, <1>3, <1>8
  <2>2. \A l \in DOMAIN q : i # l /\ q[l].s = q[i].s => q[l].m # q[i].m
      BY <1>2 DEF EntryOK
  <2>3. CASE i = 1
    <3>1. \A l \in DOMAIN queue : 1 # l /\ queue[l].s = s => queue[l].m # m
        BY <1>2, <1>3, <1>8, <2>1, <2>2, <2>3
    <3>2. mail'[m] # NoMail
        BY <1>1, <1>4
    <3>3. PICK e : e = queue[1]
        OBVIOUS
    <3>4. e.s = s /\ e.m = m /\ e.copy = mine /\ poller'[p].queue[1] = e /\ e.copy.job = j
        BY <1>7, <1>8, <1>14, <3>3
    <3>5. JobRef(e.s, e.m, e.copy.job)' /\ delivery'[e.s][e.m].job \in {0, e.copy.job}
        BY <1>6, <1>11, <1>15, <3>4
    <3> QED BY <1>14, <2>3, <3>1, <3>2, <3>4, <3>5 DEF EntryOK
  <2>4. CASE i # 1
    <3>1. PICK e : e = q[i]
        OBVIOUS
    <3>2. e \in Entries /\ e.s \in Sources /\ e.m \in Messages /\ EntryOK(p, i)
        BY <1>2, <3>1, Holds, EntryTypes
    <3>3. e.s = s => e.m # m
        BY <1>2, <1>3, <2>2, <2>4, <3>1
    <3>4. delivery'[e.s][e.m] = delivery[e.s][e.m]
        BY <1>11, <3>2, <3>3
    <3>5. i > 1 => delivery[e.s][e.m].status \in Due
        BY <1>1, <3>1, <3>2 DEF EntryOK
    <3>6. i > 1
      <4>1. i \in Nat \ {0}
          BY <1>2
      <4> QED BY <2>4, <4>1
    <3>7. \A l \in DOMAIN queue : i # l /\ queue[l].s = e.s => queue[l].m # e.m
        BY <1>8, <2>1, <2>2, <3>1
    <3>8. poller'[p].queue[i] = e
        BY <1>8, <1>14, <2>4, <3>1
    <3> HIDE DEF q
    <3>9. Alike(p, i, i, e, e)
        BY <1>1, <1>14, <3>1, <3>4, <3>5, <3>6, <3>7, <3>8 DEF Alike, q
    <3> QED BY <1>12, <3>9, EntryKept
  <2> QED BY <2>3, <2>4
<1>18. QueueOK(p)' /\ HandOK(p)'
  <2>1. QueueOK(p)'
      BY <1>8, <1>14, <1>17 DEF QueueOK
  <2>2. /\ delivery'[Src(p)'][Msg(p)'].status = "RUNNING" /\ Mine(p)'.read
        /\ Msg(p)' >= source'[Src(p)'].success
      BY <1>1, <1>4, <1>6, <1>7, <1>11, <1>14
  <2>3. JobRef(Src(p), Msg(p), poller[p].job)'
      BY <1>14, <1>15 DEF JobRef, Ambiguous
  <2>4. HandOK(p)'
      BY <1>4, <1>7, <1>14, <2>2, <2>3 DEF HandOK, Hand, Following
  <2> QED BY <2>1, <2>4
<1>19. AppliedInOrder'
  <2>1. \A t \in Sources, n \in Messages :
          Imported(t, n)' => Imported(t, n) /\ delivery'[t][n].job = delivery[t][n].job
      BY <1>6, <1>11 DEF Imported
  <2> QED BY <1>12, <2>1, OrderKept
<1>20. Flow'
    BY <1>13, <1>16, <1>18, <1>19 DEF Flow
<1> QED BY <1>1, <1>10, <1>11, <1>20, TypesKept

\* A step that moves an import, with the delivery and the poll that follow it.
LEMMA MovesKept ==
    ASSUME IInv, JobsMove, Base', Flow', job' \in Seq(JobRows), Len(job') <= MaxJobs,
           seen' \subseteq Messages, delivery' \in [Sources -> [Messages -> DeliveryRows]],
           poller' \in [Pollers -> PollerStates]
    PROVE  IInv'
<1>1. Typed'
    BY DEF Typed, TypeOK, IInv, JobsMove
<1> QED BY <1>1 DEF IInv, Flow, Base

\* Nothing but imports, deliveries and the poll changes while one is followed.
LEMMA FollowMoves ==
    ASSUME IInv, UNCHANGED <<mail, source, seen, spent>>
    PROVE  /\ JobsMove /\ seen' \subseteq Messages
           /\ delivery' = delivery => delivery' \in [Sources -> [Messages -> DeliveryRows]]
<1>1. \A s \in Sources : source[s].success <= source[s].success
  <2>1. \A s \in Sources : source[s] \in SourceRows
      BY DEF IInv, Typed, TypeOK
  <2>2. \A row \in SourceRows : row.success \in Nat
      BY DEF SourceRows, Messages
  <2> QED BY <2>1, <2>2
<1> QED BY <1>1 DEF JobsMove, IInv, Typed, TypeOK

LEMMA WorkStep ==
    ASSUME IInv, NEW p \in Pollers, Work(p)
    PROVE  IInv'
<1> DEFINE j == poller[p].job
<1>1. /\ poller[p].pc = "work" /\ UNCHANGED <<mail, source, seen, spent>>
      /\ poller[p].pc \in Following \ {"link"} /\ poller[p].pc \in Hand
    BY DEF Work, Following, Hand
<1>2. /\ JobsMove /\ seen' \subseteq Messages
      /\ delivery' = delivery => delivery' \in [Sources -> [Messages -> DeliveryRows]]
    BY <1>1, FollowMoves
<1>3. j \in DOMAIN job /\ MyJob(p) = job[j] /\ MyJob(p).feed = FeedOf[Src(p)]
    BY <1>1, InHandFacts
<1>4. HandOK(p)
    BY DEF IInv
<1>5. CASE /\ MyJob(p).status = "PENDING"
           /\ job' = [job EXCEPT ![j].status = "PARSING"]
           /\ poller' = [poller EXCEPT ![p].pc = "parse"]
           /\ delivery' = delivery
  <2>1. /\ Grows /\ Base' /\ job' \in Seq(JobRows) /\ Len(job') <= MaxJobs
        /\ job'[j].status = "PARSING"
    <3>1. job[j].status \in Unfinished /\ "PARSING" \in Unfinished \union {"FAILED"}
        BY <1>3, <1>5 DEF Unfinished
    <3> HIDE DEF j
    <3> QED BY <1>2, <1>3, <1>5, <3>1, JobProceeds
  <2>2. Flow' /\ poller' \in [Pollers -> PollerStates]
    <3> HIDE DEF j
    <3>1. job'[poller[p].job].status = "PARSING"
        BY <2>1 DEF j
    <3> QED BY <1>1, <1>5, <2>1, <3>1, GoOn
  <2> QED BY <1>2, <1>5, <2>1, <2>2, MovesKept
<1>6. CASE \/ /\ MyJob(p).status = "STAGED" /\ delivery' = delivery /\ job' = job
              /\ poller' = [poller EXCEPT ![p].pc = "stage"]
           \/ /\ MyJob(p).status = "COMPLETED" /\ delivery' = delivery /\ job' = job
              /\ poller' = [poller EXCEPT ![p].pc = "result"]
           \/ job' = job /\ (Review(p) \/ Retry(p))
  <2>1. Apart
      BY <1>1, <1>6 DEF Apart
  <2>2. Grows
      BY <2>1, ApartKeeps
  <2>3. CASE /\ MyJob(p).status = "STAGED" /\ delivery' = delivery
             /\ poller' = [poller EXCEPT ![p].pc = "stage"]
    <3>1. Flow' /\ poller' \in [Pollers -> PollerStates]
        BY <1>1, <1>6, <2>2, <2>3, GoOn DEF MyJob
    <3> QED BY <1>2, <2>1, <2>3, <3>1, TypesKept
  <2>4. CASE /\ MyJob(p).status = "COMPLETED" /\ delivery' = delivery
             /\ poller' = [poller EXCEPT ![p].pc = "result"]
    <3>1. Leads(p)
        BY <1>1, <1>4, <2>4 DEF HandOK
    <3>2. Flow' /\ poller' \in [Pollers -> PollerStates]
        BY <1>1, <1>6, <2>2, <2>4, <3>1, GoOn DEF MyJob, Leads, JobOf
    <3> QED BY <1>2, <2>1, <2>4, <3>2, TypesKept
  <2>5. CASE Review(p) \/ Retry(p)
    <3>1. Flow' /\ poller' \in [Pollers -> PollerStates]
          /\ delivery' \in [Sources -> [Messages -> DeliveryRows]]
        BY <1>1, <2>2, <2>5, Reviewed DEF Flow
    <3> QED BY <1>2, <2>1, <3>1, TypesKept
  <2> QED BY <1>6, <2>3, <2>4, <2>5
<1> QED BY <1>5, <1>6 DEF Work

LEMMA ParseStep ==
    ASSUME IInv, NEW p \in Pollers, Parse(p)
    PROVE  IInv'
<1> DEFINE j == poller[p].job
<1>1. /\ poller[p].pc = "parse" /\ UNCHANGED <<mail, source, seen, spent>>
      /\ poller[p].pc \in Following \ {"link"} /\ poller[p].pc \in Hand
    BY DEF Parse, Following, Hand
<1>2. /\ JobsMove /\ seen' \subseteq Messages
      /\ delivery' = delivery => delivery' \in [Sources -> [Messages -> DeliveryRows]]
    BY <1>1, FollowMoves
<1>3. j \in DOMAIN job /\ job[j].status = "PARSING"
  <2>1. j \in DOMAIN job /\ MyJob(p) = job[j]
      BY <1>1, InHandFacts
  <2> QED BY <1>1, <2>1 DEF IInv, HandOK
<1>4. PICK result \in {"STAGED", "FAILED"} :
        /\ job' = [job EXCEPT ![j].status = result]
        /\ IF result = "STAGED"
           THEN poller' = [poller EXCEPT ![p].pc = "stage"] /\ delivery' = delivery
           ELSE Review(p)
    BY DEF Parse
<1>5. /\ Grows /\ Base' /\ job' \in Seq(JobRows) /\ Len(job') <= MaxJobs
      /\ job'[j].status = result
    BY <1>2, <1>3, <1>4, JobProceeds DEF Unfinished
<1>6. CASE result = "STAGED"
  <2>1. Flow' /\ poller' \in [Pollers -> PollerStates]
    <3> HIDE DEF j
    <3>1. job'[poller[p].job].status = "STAGED"
        BY <1>5, <1>6 DEF j
    <3> QED BY <1>1, <1>4, <1>5, <1>6, <3>1, GoOn
  <2> QED BY <1>2, <1>4, <1>5, <1>6, <2>1, MovesKept
<1>7. CASE result = "FAILED"
  <2>1. Flow' /\ poller' \in [Pollers -> PollerStates]
        /\ delivery' \in [Sources -> [Messages -> DeliveryRows]]
      BY <1>1, <1>4, <1>5, <1>7, Reviewed DEF Flow
  <2> QED BY <1>2, <1>5, <2>1, MovesKept
<1> QED BY <1>6, <1>7

LEMMA StageStep ==
    ASSUME IInv, NEW p \in Pollers, Stage(p)
    PROVE  IInv'
<1> DEFINE j == poller[p].job
<1>1. /\ poller[p].pc = "stage" /\ UNCHANGED <<mail, source, seen, spent>>
      /\ poller[p].pc \in Following \ {"link"} /\ poller[p].pc \in Hand
    BY DEF Stage, Following, Hand
<1>2. /\ JobsMove /\ seen' \subseteq Messages
      /\ delivery' = delivery => delivery' \in [Sources -> [Messages -> DeliveryRows]]
    BY <1>1, FollowMoves
<1>3. j \in DOMAIN job /\ job[j].status = "STAGED"
  <2>1. j \in DOMAIN job /\ MyJob(p) = job[j]
      BY <1>1, InHandFacts
  <2> QED BY <1>1, <2>1 DEF IInv, HandOK
<1>4. CASE job' = [job EXCEPT ![j].status = "FAILED"] /\ Review(p)
  <2>1. Grows /\ Base' /\ job' \in Seq(JobRows) /\ Len(job') <= MaxJobs
      BY <1>2, <1>3, <1>4, JobProceeds DEF Unfinished
  <2>2. Flow' /\ poller' \in [Pollers -> PollerStates]
        /\ delivery' \in [Sources -> [Messages -> DeliveryRows]]
      BY <1>1, <1>4, <2>1, Reviewed DEF Flow
  <2> QED BY <1>2, <2>1, <2>2, MovesKept
<1>5. CASE /\ job' = [job EXCEPT ![j] = [@ EXCEPT !.status = "COMPLETED", !.done = NextDone]]
           /\ poller' = [poller EXCEPT ![p].pc = "result"] /\ delivery' = delivery
  <2>1. /\ Grows /\ Base' /\ job' \in Seq(JobRows) /\ Len(job') <= MaxJobs
        /\ job'[j].status = "COMPLETED" /\ DOMAIN job' = DOMAIN job
        /\ \A k \in DOMAIN job : job'[k].done <= job'[j].done
      BY <1>2, <1>3, <1>5, JobCompletes DEF Unfinished
  <2>2. \A m \in Messages :
          Imported(Src(p), m) => job'[delivery[Src(p)][m].job].done <= job'[j].done
    <3>1. Src(p) \in Sources
        BY <1>1, InHandFacts
    <3> QED BY <2>1, <3>1 DEF IInv, DeliveryOK, JobRef, Imported
  <2>3. Flow' /\ poller' \in [Pollers -> PollerStates]
    <3> HIDE DEF j
    <3>1. poller[p].job = j
        BY DEF j
    <3> QED BY <1>1, <1>5, <2>1, <2>2, <3>1, GoOn
  <2> QED BY <1>2, <1>5, <2>1, <2>3, MovesKept
<1> QED BY <1>4, <1>5 DEF Stage

\* The message just imported is the newest of those of its source, and so is its
\* import.
LEMMA ImportedInOrder ==
    ASSUME IInv, NEW p \in Pollers, poller[p].pc = "result", job' = job,
           NEW row \in DeliveryRows,
           delivery' = [delivery EXCEPT ![Src(p)][Msg(p)] = row],
           row.job = delivery[Src(p)][Msg(p)].job
    PROVE  AppliedInOrder'
<1> DEFINE j == poller[p].job
<1>1. PICK s \in Sources, m \in Messages : s = Src(p) /\ m = Msg(p)
    BY InHandFacts DEF Hand
<1>2. /\ j \in DOMAIN job /\ MyJob(p) = job[j] /\ row.job \in {0, Mine(p).job}
      /\ m >= source[s].success /\ Mine(p).job = j
      /\ job[j].status = "COMPLETED" /\ Leads(p)
  <2>1. HandOK(p)
      BY DEF IInv
  <2> QED BY <1>1, <2>1, InHandFacts DEF HandOK, Hand, Following
<1>3. /\ delivery'[s][m] = row
      /\ \A t \in Sources, n \in Messages :
           t # s \/ n # m => delivery'[t][n] = delivery[t][n]
  <2>1. delivery' = [delivery EXCEPT ![s][m] = row]
      BY <1>1
  <2>2. delivery \in [Sources -> [Messages -> DeliveryRows]]
      BY DEF IInv, Typed, TypeOK
  <2> QED BY <2>1, <2>2
<1>4. ASSUME NEW t \in Sources, NEW n \in Messages, t # s \/ n # m
      PROVE  /\ Imported(t, n)' = Imported(t, n) /\ delivery'[t][n] = delivery[t][n]
             /\ Imported(t, n) => /\ delivery[t][n].job \in DOMAIN job
                                  /\ n <= source[t].success
                                  /\ job[delivery[t][n].job].done # 0
  <2>1. delivery'[t][n] = delivery[t][n]
      BY <1>3, <1>4
  <2>2. DeliveryOK(t, n)
      BY DEF IInv
  <2> QED BY <2>1, <2>2 DEF DeliveryOK, JobRef, Imported, IInv, CompletionsOK
<1> SUFFICES ASSUME NEW t \in Sources, NEW k \in Messages, NEW n \in Messages, k < n,
                    Imported(t, k)', Imported(t, n)',
                    delivery'[t][k].job # delivery'[t][n].job
             PROVE  job[delivery'[t][k].job].done < job[delivery'[t][n].job].done
    BY DEF AppliedInOrder, JobOf
<1>5. CASE t = s /\ n = m
  <2>1. /\ Imported(s, k) /\ delivery'[s][k] = delivery[s][k]
        /\ delivery[s][k].job \in DOMAIN job
      BY <1>4, <1>5
  <2>2. delivery'[s][m].job = j
      BY <1>2, <1>3, <1>5 DEF Imported
  <2>3. JobOf(s, k).done <= job[j].done
      BY <1>1, <1>2, <2>1 DEF Leads
  <2>4. job[delivery[s][k].job].done # job[j].done
    <3>1. delivery[s][k].job # j /\ job[delivery[s][k].job].done # 0
        BY <1>4, <1>5, <2>1, <2>2
    <3> QED BY <1>2, <2>1, <3>1 DEF IInv, CompletionsOK
  <2>5. job[delivery[s][k].job].done \in Nat /\ job[j].done \in Nat
      BY <1>2, <2>1, JobTypes
  <2> QED BY <1>5, <2>1, <2>2, <2>3, <2>4, <2>5 DEF JobOf
<1>6. CASE t = s /\ k = m
  <2>1. Imported(s, n) /\ n <= source[s].success
      BY <1>4, <1>6
  <2>2. source[s].success \in Nat
      BY DEF IInv, Typed, TypeOK, SourceRows, Messages
  <2> QED BY <1>2, <1>6, <2>1, <2>2 DEF Messages
<1>7. CASE t # s \/ (k # m /\ n # m)
  <2>1. /\ Imported(t, k) /\ Imported(t, n)
        /\ delivery'[t][k] = delivery[t][k] /\ delivery'[t][n] = delivery[t][n]
      BY <1>4, <1>7
  <2> QED BY <2>1 DEF IInv, AppliedInOrder, JobOf
<1> QED BY <1>5, <1>6, <1>7

LEMMA ResultMoves ==
    ASSUME IInv, NEW p \in Pollers, Result(p)
    PROVE  /\ poller[p].pc = "result" /\ poller[p].pc \in Hand /\ seen' \subseteq Messages
           /\ job' = job /\ JobsMove /\ Grows /\ Base'
           /\ source'[Src(p)].success = Msg(p)
           /\ \A s \in Sources : s # Src(p) => source'[s] = source[s]
<1>1. /\ poller[p].pc = "result" /\ poller[p].pc \in Hand /\ seen' \subseteq Messages
      /\ UNCHANGED <<mail, job, spent>>
    BY DEF Result, Hand, IInv, Typed, TypeOK
<1>2. Src(p) \in Sources /\ Msg(p) \in Messages /\ Msg(p) >= source[Src(p)].success
    BY <1>1, InHandFacts DEF Following, Hand
<1>3. /\ source \in [Sources -> SourceRows]
      /\ \A row \in SourceRows : row.success \in Nat
  <2>1. \A row \in SourceRows : row.success \in Nat
      BY DEF SourceRows, Messages
  <2> QED BY <2>1 DEF IInv, Typed, TypeOK
<1>4. Msg(p) \in Nat /\ source[Src(p)].success \in Nat
    BY <1>2, <1>3 DEF Messages
<1>5. LaterSuccess(Src(p), Msg(p)) = Msg(p)
    BY <1>2, <1>4 DEF LaterSuccess
<1>6. source' = [source EXCEPT ![Src(p)].success = Msg(p)]
    BY <1>5 DEF Result
<1>7. /\ source' \in [Sources -> SourceRows]
      /\ source'[Src(p)].success = Msg(p)
      /\ source'[Src(p)].active = source[Src(p)].active
      /\ \A s \in Sources : s # Src(p) => source'[s] = source[s]
    BY <1>2, <1>3, <1>6 DEF SourceRows
<1>8. \A s \in Sources : /\ source[s].success <= source'[s].success
                         /\ source'[s].active = source[s].active
    BY <1>2, <1>3, <1>4, <1>7
<1>9. JobsMove
    BY <1>1, <1>7, <1>8 DEF JobsMove
<1>10. OneLiveJob' /\ CompletionsOK'
    BY <1>1, Limits, SameJobs
<1> QED BY <1>1, <1>7, <1>9, <1>10, JobsMoveKeeps

LEMMA ResultStep ==
    ASSUME IInv, NEW p \in Pollers, Result(p)
    PROVE  IInv'
<1>1. /\ poller[p].pc = "result" /\ poller[p].pc \in Hand /\ seen' \subseteq Messages
      /\ job' = job /\ JobsMove /\ Grows /\ Base' /\ source'[Src(p)].success = Msg(p)
    BY ResultMoves
<1>2. PICK status \in {"DUPLICATE", "COMPLETED"} : Settle(p, status, FALSE)
    BY DEF Result
<1>3. PICK s \in Sources, m \in Messages, row \in DeliveryRows, new \in PollerStates :
          Leaves(p, s, m, row, new) /\ row.status = status
    BY <1>1, <1>2, SettleLeaves DEF Statuses
<1>4. s = Src(p) /\ m = Msg(p) /\ row.job = delivery[s][m].job
    BY <1>3 DEF Leaves
<1>5. MayBe(s, m, row)
  <2>1. m <= source'[s].success
      BY <1>1, <1>4 DEF Messages
  <2>2. row.job # 0 => job'[row.job].status = "COMPLETED"
    <3>1. row.job \in {0, Mine(p).job} /\ MyJob(p) = job[poller[p].job]
        BY <1>1, <1>4, InHandFacts DEF Following, Hand
    <3>2. Mine(p).job = poller[p].job /\ MyJob(p).status = "COMPLETED"
        BY <1>1 DEF IInv, HandOK, Following, Hand
    <3> QED BY <1>1, <3>1, <3>2
  <2> QED BY <1>3, <2>1, <2>2 DEF MayBe, Due
<1>6. /\ OneAtATime' /\ poller' \in [Pollers -> PollerStates]
      /\ delivery' \in [Sources -> [Messages -> DeliveryRows]]
      /\ \A t \in Sources, n \in Messages : DeliveryOK(t, n)'
      /\ \A q \in Pollers : QueueOK(q)' /\ HandOK(q)'
    BY <1>1, <1>3, <1>5, LeavesOK
<1>7. AppliedInOrder'
    BY <1>1, <1>3, <1>4, ImportedInOrder DEF Leaves
<1>8. Flow'
    BY <1>6, <1>7 DEF Flow
<1>9. job' \in Seq(JobRows) /\ Len(job') <= MaxJobs
    BY <1>1 DEF IInv, Typed, TypeOK
<1> QED BY <1>1, <1>6, <1>8, <1>9, MovesKept

----------------------------------------------------------------------------
(* The invariants *)

LEMMA InitIInv ==
    ASSUME Init
    PROVE  IInv
<1>1. Typed
  <2>1. mail \in [Messages -> MailRows]
      BY DEF Init, NoMail, MailRows
  <2>2. source \in [Sources -> SourceRows]
      BY DEF Init, SourceRows
  <2>3. delivery \in [Sources -> [Messages -> DeliveryRows]]
      BY IdleTypes DEF Init
  <2>4. job \in Seq(JobRows) /\ Len(job) <= MaxJobs
      BY DEF Init
  <2>5. poller \in [Pollers -> PollerStates]
      BY IdleTypes DEF Init
  <2>6. /\ spent \in [DOMAIN Bounds -> Nat]
        /\ \A b \in DOMAIN Bounds : spent[b] \in 0 .. Bounds[b]
    <3>1. \A b \in DOMAIN Bounds : Bounds[b] \in Nat
        BY DEF Bounds
    <3>2. spent = [b \in DOMAIN Bounds |-> 0]
        BY DEF Init
    <3> QED BY <3>1, <3>2
  <2>7. seen \subseteq Messages
      BY DEF Init
  <2> QED BY <2>1, <2>2, <2>3, <2>4, <2>5, <2>6, <2>7 DEF Typed, TypeOK
<1>2. DOMAIN job = {}
    BY DEF Init
<1>3. OneAtATime /\ OneLiveJob /\ CompletionsOK
  <2>1. \A p \in Pollers : poller[p].pc = "idle"
      BY DEF Init, IdlePoller
  <2> QED BY <1>2, <2>1 DEF OneAtATime, OneLiveJob, CompletionsOK
<1>4. \A s \in Sources, m \in Messages :
        delivery[s][m] = AbsentDelivery /\ DeliveryOK(s, m)
  <2> SUFFICES ASSUME NEW s \in Sources, NEW m \in Messages
               PROVE  delivery[s][m] = AbsentDelivery /\ DeliveryOK(s, m)
      OBVIOUS
  <2>1. delivery[s][m] = AbsentDelivery
      BY DEF Init
  <2>2. Tries \in Nat
      BY <1>1 DEF Typed, TypeOK, Bounds, Tries
  <2> QED BY <2>1, <2>2 DEF DeliveryOK, AbsentDelivery, JobRef, Imported, Due
<1>5. \A s \in Sources : SourceOK(s)
    BY DEF Init, SourceOK
<1>6. \A p \in Pollers : QueueOK(p) /\ HandOK(p)
  <2>1. \A p \in Pollers : poller[p].pc = "idle"
      BY DEF Init, IdlePoller
  <2> QED BY <2>1 DEF QueueOK, HandOK, Hand, Following
<1>7. AppliedInOrder
    BY <1>4 DEF AppliedInOrder, Imported, AbsentDelivery
<1> QED BY <1>1, <1>3, <1>4, <1>5, <1>6, <1>7 DEF IInv

LEMMA StutterStep ==
    ASSUME IInv, UNCHANGED vars
    PROVE  IInv'
<1>1. /\ Apart /\ poller' = poller /\ delivery' = delivery /\ seen' \subseteq Messages
      /\ delivery' \in [Sources -> [Messages -> DeliveryRows]]
    BY DEF vars, Apart, IInv, Typed, TypeOK
<1>2. Grows /\ SuccessKept /\ JobsAdded
    BY <1>1, ApartKeeps DEF SuccessKept, JobsAdded, Apart
<1>3. Flow' /\ poller' \in [Pollers -> PollerStates]
    BY <1>1, <1>2, WorldAround
<1> QED BY <1>1, <1>3, TypesKept

LEMMA NextIInv ==
    ASSUME IInv, [Next]_vars
    PROVE  IInv'
<1>1. ASSUME NEW p \in Pollers, PollStep(p)
      PROVE  IInv'
    BY <1>1, FetchPageStep, RecordStep, RecordFailsStep, CheckpointStep, SelectStep,
       EndPollStep, SkipInactiveStep, BeginStep, RefuseStep, ReceiveStep, ContinueStep,
       LinkStep, CheckStep, WorkStep, ParseStep, StageStep, ResultStep DEF PollStep
<1>2. ASSUME NEW p \in Pollers,
             PollFails(p) \/ FetchFails(p) \/ StageFails(p) \/ Crash(p) \/ StartPoll(p)
      PROVE  IInv'
    BY <1>2, PollFailsStep, FetchFailsStep, StageFailsStep, CrashStep, StartPollStep
<1>3. ASSUME NEW s \in Sources, NEW m \in Messages,
             \/ Elapse(s, m) \/ Switch(s) \/ Arrive(m)
             \/ \E forget \in BOOLEAN : RetryDelivery(s, m, forget)
      PROVE  IInv'
    BY <1>3, ElapseStep, SwitchStep, ArriveStep, RetryDeliveryStep
<1> QED BY <1>1, <1>2, <1>3, ArriveStep, SwitchStep, UploadStep, StutterStep DEF Next

\* Every reachable state of the intake keeps the locks, queues, copies and
\* imports consistent with each other.
THEOREM Invariance == Spec => []IInv
<1>1. Init => IInv
    BY InitIInv
<1>2. IInv /\ [Next]_vars => IInv'
    BY NextIInv
<1> QED BY <1>1, <1>2, PTL DEF Spec

\* A set of more than one element has two.
LEMMA TwoElements ==
    ASSUME NEW S, Cardinality(S) > 1
    PROVE  \E x, y \in S : x # y
<1> SUFFICES ASSUME \A x, y \in S : x = y PROVE FALSE
    OBVIOUS
<1>1. CASE S = {}
    BY <1>1, FS_EmptySet
<1>2. CASE S # {}
  <2>1. PICK x \in S : TRUE
      BY <1>2
  <2>2. S = {x}
      BY <2>1
  <2>3. Cardinality(S) = 1
      BY <2>2, FS_Singleton
  <2> QED BY <2>3
<1> QED BY <1>1, <1>2

LEMMA RoutingFollows ==
    ASSUME IInv
    PROVE  AmbiguityIsNeverRouted
<1> SUFFICES ASSUME spent.pauses = 0, NEW m \in Arrived,
                    Cardinality({VendorOf[FeedOf[s]] : s \in {t \in mail[m].matched :
                                             mail[m].files[t] # {}}}) > 1,
                    NEW s \in Sources
             PROVE  delivery[s][m].job = 0
    BY DEF AmbiguityIsNeverRouted
<1> DEFINE owners == {t \in mail[m].matched : mail[m].files[t] # {}}
<1>1. m \in Messages /\ mail[m].matched \subseteq Sources
    BY DEF Arrived, IInv, Typed, TypeOK, MailRows
<1>2. \E x, y \in {VendorOf[FeedOf[t]] : t \in owners} : x # y
    BY TwoElements
<1>3. Ambiguous(m, Sources)
    BY <1>1, <1>2 DEF Ambiguous
<1> QED BY <1>1, <1>3 DEF IInv, DeliveryOK, JobRef

\* No older message's import completes after a newer one's, whatever is retried
\* and whichever polls die (services/vendor_mail.py: apply_delivery).
THEOREM InventoryInOrder == Spec => []AppliedInOrder
<1>1. IInv => AppliedInOrder
    BY DEF IInv
<1> QED BY <1>1, Invariance, PTL

\* receive_upload never starts a second live import of the same file for a feed,
\* and the tables keep their types.
THEOREM ContentOnce == Spec => []OneImportPerContent
<1>1. IInv => OneImportPerContent
    BY DEF IInv, Typed, OneLiveJob, OneImportPerContent
<1> QED BY <1>1, Invariance, PTL

\* A message whose files belong to two vendors never gets an import, unless a
\* source was paused (services/vendor_mail.py: the ambiguity check).
THEOREM NoAmbiguousRouting == Spec => []AmbiguityIsNeverRouted
<1>1. IInv => AmbiguityIsNeverRouted
    BY RoutingFollows
<1> QED BY <1>1, Invariance, PTL

----------------------------------------------------------------------------
(* What a step may never do *)

\* No delivery gets an import, and no source's success date moves.
Quiet ==
    /\ \A s \in Sources, m \in Messages : delivery'[s][m].job \in {0, delivery[s][m].job}
    /\ SuccessKept

LEMMA QuietRow ==
    ASSUME IInv, SuccessKept, NEW s \in Sources, NEW m \in Messages, NEW row,
           delivery' = [delivery EXCEPT ![s][m] = row],
           row.job \in {0, delivery[s][m].job}
    PROVE  Quiet
<1>1. delivery \in [Sources -> [Messages -> DeliveryRows]]
    BY DEF IInv, Typed, TypeOK
<1>2. /\ delivery'[s][m] = row
      /\ \A t \in Sources, n \in Messages :
           t # s \/ n # m => delivery'[t][n] = delivery[t][n]
    BY <1>1
<1>3. ASSUME NEW t \in Sources, NEW n \in Messages
      PROVE  delivery'[t][n].job \in {0, delivery[t][n].job}
    BY <1>2
<1> QED BY <1>3 DEF Quiet

LEMMA QuietSettles ==
    ASSUME IInv, SuccessKept, NEW p \in Pollers, poller[p].pc \in Hand,
           Review(p) \/ Retry(p) \/ Settle(p, "SUPERSEDED", FALSE)
    PROVE  Quiet
<1>1. PICK status \in Statuses, waiting \in BOOLEAN :
        Settle(p, status, waiting) \/ SettleError(p, status, waiting)
    BY DEF Review, Retry, Statuses, Due
<1>2. PICK s \in Sources, m \in Messages, row \in DeliveryRows, new \in PollerStates :
          Leaves(p, s, m, row, new)
    BY <1>1, SettleLeaves
<1> QED BY <1>2, QuietRow DEF Leaves

\* Only Link gives a delivery an import, and only Result moves a success date.
LEMMA QuietSteps ==
    ASSUME IInv, [Next]_vars,
           \A p \in Pollers : ~Link(p) /\ ~Result(p)
    PROVE  Quiet
<1>1. CASE UNCHANGED <<delivery, source>>
    BY <1>1 DEF Quiet, SuccessKept
<1>2. ASSUME NEW p \in Pollers, NEW s \in Sources, NEW m \in Messages, Record(p, s, m)
      PROVE  Quiet
  <2>1. PICK status : \/ delivery' = delivery
                      \/ delivery' = [delivery EXCEPT ![s][m] =
                                         [AbsentDelivery EXCEPT !.status = status]]
      BY <1>2 DEF Record
  <2>2. SuccessKept
      BY <1>2 DEF Record, SuccessKept
  <2>3. [AbsentDelivery EXCEPT !.status = status].job = 0
      BY DEF AbsentDelivery
  <2>4. PICK row : row = [AbsentDelivery EXCEPT !.status = status]
      OBVIOUS
  <2> QED BY <2>1, <2>2, <2>3, <2>4, QuietRow DEF Quiet
<1>3. ASSUME NEW p \in Pollers, Begin(p)
      PROVE  Quiet
  <2>1. /\ poller[p].queue # <<>> /\ source' = source
        /\ \E attempts : delivery' = [delivery EXCEPT ![Src(p)][Msg(p)] =
               [delivery[Src(p)][Msg(p)] EXCEPT
                    !.status = "RUNNING", !.attempts = attempts, !.waiting = FALSE]]
      BY <1>3 DEF Begin
  <2>2. PICK attempts : delivery' = [delivery EXCEPT ![Src(p)][Msg(p)] =
               [delivery[Src(p)][Msg(p)] EXCEPT
                    !.status = "RUNNING", !.attempts = attempts, !.waiting = FALSE]]
      BY <2>1
  <2>3. Src(p) \in Sources /\ Msg(p) \in Messages
        /\ delivery[Src(p)][Msg(p)] \in DeliveryRows
      BY <2>1, Holds
  <2>4. PICK row : row = [delivery[Src(p)][Msg(p)] EXCEPT
                    !.status = "RUNNING", !.attempts = attempts, !.waiting = FALSE]
      OBVIOUS
  <2>5. row.job = delivery[Src(p)][Msg(p)].job
      BY <2>3, <2>4 DEF DeliveryRows
  <2>6. SuccessKept
      BY <2>1 DEF SuccessKept
  <2> QED BY <2>2, <2>3, <2>4, <2>5, <2>6, QuietRow
<1>4. ASSUME NEW p \in Pollers, poller[p].pc \in Hand, source' = source,
             Review(p) \/ Retry(p) \/ Settle(p, "SUPERSEDED", FALSE)
      PROVE  Quiet
    BY <1>4, QuietSettles DEF SuccessKept
<1>5. ASSUME NEW s \in Sources, NEW m \in Messages, Elapse(s, m)
      PROVE  Quiet
  <2>1. PICK row : row = [delivery[s][m] EXCEPT !.waiting = FALSE]
      OBVIOUS
  <2>2. delivery[s][m] \in DeliveryRows
      BY DEF IInv, Typed, TypeOK
  <2>3. delivery' = [delivery EXCEPT ![s][m] = row] /\ row.job = delivery[s][m].job
      BY <1>5, <2>1, <2>2 DEF Elapse, DeliveryRows
  <2>4. SuccessKept
      BY <1>5 DEF Elapse, SuccessKept
  <2> QED BY <2>3, <2>4, QuietRow
<1>6. ASSUME NEW s \in Sources, NEW m \in Messages, NEW forget \in BOOLEAN,
             RetryDelivery(s, m, forget)
      PROVE  Quiet
  <2>1. PICK row : row = [status |-> "PENDING", attempts |-> 0, waiting |-> FALSE,
                          job |-> IF forget THEN 0 ELSE delivery[s][m].job,
                          current |-> forget \/ delivery[s][m].current]
      OBVIOUS
  <2>2. delivery' = [delivery EXCEPT ![s][m] = row] /\ row.job \in {0, delivery[s][m].job}
      BY <1>6, <2>1 DEF RetryDelivery
  <2>3. SuccessKept
      BY <1>6 DEF RetryDelivery, SuccessKept
  <2> QED BY <2>2, <2>3, QuietRow
<1>7. ASSUME NEW s \in Sources, Switch(s)
      PROVE  Quiet
  <2>1. delivery' = delivery /\ source' = [source EXCEPT ![s].active = ~@]
      BY <1>7 DEF Switch
  <2>2. source \in [Sources -> SourceRows]
      BY DEF IInv, Typed, TypeOK
  <2> QED BY <2>1, <2>2 DEF Quiet, SuccessKept, SourceRows
<1>8. ASSUME NEW p \in Pollers, PollStep(p)
      PROVE  Quiet
  <2>1. CASE FetchPage(p) \/ RecordFails(p) \/ Checkpoint(p) \/ Select(p) \/ EndPoll(p)
             \/ SkipInactive(p) \/ Receive(p) \/ Continue(p)
      BY <1>1, <2>1 DEF FetchPage, RecordFails, Checkpoint, Select, EndPoll, SkipInactive,
                        Receive, Continue
  <2>2. CASE Refuse(p)
      BY <1>4, <2>2 DEF Refuse, Hand
  <2>3. CASE Check(p) \/ Work(p) \/ Parse(p) \/ Stage(p)
      BY <1>1, <1>4, <2>3 DEF Check, Work, Parse, Stage, Hand
  <2> QED BY <1>2, <1>3, <1>8, <2>1, <2>2, <2>3 DEF PollStep
<1>9. ASSUME NEW p \in Pollers,
             StartPoll(p) \/ PollFails(p) \/ FetchFails(p) \/ StageFails(p) \/ Crash(p)
      PROVE  Quiet
    BY <1>1, <1>4, <1>9 DEF StartPoll, PollFails, FetchFails, StageFails, Crash, Hand
<1>10. ASSUME \/ \E m \in Messages : Arrive(m)
              \/ \E f \in Feeds, c \in Contents : Upload(f, c)
              \/ UNCHANGED vars
       PROVE  Quiet
    BY <1>1, <1>10 DEF Arrive, Upload, vars
<1> QED BY <1>5, <1>6, <1>7, <1>8, <1>9, <1>10 DEF Next

\* One step of InterruptedImportsBlock.
Blocks ==
    \A s \in Sources : \A m \in Messages :
        /\ delivery[s][m].job = 0 /\ delivery'[s][m].job # 0
        /\ job[delivery'[s][m].job].status \in Unfinished
        => \A k \in Messages \ {m} :
             delivery[s][k].job # 0 => job[delivery[s][k].job].status \notin Unfinished

\* One step of FreshnessIsEarned.
Earned ==
    \A s \in Sources :
        spent.uploads = 0 /\ source'[s].success # source[s].success =>
        LET m == source'[s].success IN
        /\ m > source[s].success
        /\ delivery'[s][m].status \in {"COMPLETED", "DUPLICATE"}
        /\ delivery[s][m].job # 0 => \A k \in DOMAIN job :
             job[k].feed = FeedOf[s] => job[k].done <= JobOf(s, m).done

LEMMA LinkBlocks ==
    ASSUME IInv, NEW p \in Pollers, Link(p)
    PROVE  Blocks /\ Earned
<1>1. /\ poller[p].pc = "link" /\ source' = source
      /\ delivery' = [delivery EXCEPT ![Src(p)][Msg(p)].job = poller[p].job]
    BY DEF Link
<1>2. Src(p) \in Sources /\ Msg(p) \in Messages /\ Others(Src(p), Msg(p)) = {}
  <2>1. HandOK(p)
      BY DEF IInv
  <2> QED BY <1>1, <2>1, InHandFacts DEF HandOK, Hand
<1>3. PICK row : row = [delivery[Src(p)][Msg(p)] EXCEPT !.job = poller[p].job]
    OBVIOUS
<1>4. \A t \in Sources, n \in Messages :
        t # Src(p) \/ n # Msg(p) => delivery'[t][n] = delivery[t][n]
  <2>1. delivery \in [Sources -> [Messages -> DeliveryRows]]
      BY DEF IInv, Typed, TypeOK
  <2>2. delivery' = [delivery EXCEPT ![Src(p)][Msg(p)] = row]
      BY <1>1, <1>3
  <2> QED BY <1>2, <2>1, <2>2
<1>5. Blocks
  <2> SUFFICES ASSUME NEW s \in Sources, NEW m \in Messages,
                      delivery[s][m].job = 0, delivery'[s][m].job # 0
               PROVE  \A k \in Messages \ {m} :
                        delivery[s][k].job # 0
                            => job[delivery[s][k].job].status \notin Unfinished
      BY DEF Blocks
  <2>1. s = Src(p) /\ m = Msg(p)
      BY <1>4
  <2> QED BY <1>2, <2>1 DEF Others
<1> QED BY <1>1, <1>5 DEF Earned

LEMMA ResultEarns ==
    ASSUME IInv, NEW p \in Pollers, Result(p)
    PROVE  Blocks /\ Earned
<1>1. /\ poller[p].pc = "result" /\ poller[p].pc \in Hand
      /\ source'[Src(p)].success = Msg(p)
      /\ \A s \in Sources : s # Src(p) => source'[s] = source[s]
    BY ResultMoves
<1>2. PICK status \in {"DUPLICATE", "COMPLETED"} : Settle(p, status, FALSE)
    BY DEF Result
<1>3. PICK s \in Sources, m \in Messages, row \in DeliveryRows, new \in PollerStates :
          Leaves(p, s, m, row, new) /\ row.status = status
    BY <1>1, <1>2, SettleLeaves DEF Statuses
<1>4. /\ s = Src(p) /\ m = Msg(p) /\ row.job = delivery[s][m].job
      /\ delivery'[s][m] = row
      /\ \A t \in Sources, n \in Messages :
            t # s \/ n # m => delivery'[t][n] = delivery[t][n]
  <2>1. /\ s = Src(p) /\ m = Msg(p) /\ row.job = delivery[s][m].job
        /\ delivery' = [delivery EXCEPT ![s][m] = row]
      BY <1>3 DEF Leaves
  <2>2. delivery \in [Sources -> [Messages -> DeliveryRows]]
      BY DEF IInv, Typed, TypeOK
  <2> QED BY <2>1, <2>2
<1>5. Blocks
  <2>1. \A t \in Sources, n \in Messages : delivery'[t][n].job = delivery[t][n].job
      BY <1>4
  <2> QED BY <2>1 DEF Blocks
<1>6. /\ m >= source[s].success /\ Leads(p) /\ MyJob(p) = job[poller[p].job]
      /\ delivery[s][m].job \in {0, poller[p].job}
      /\ m \in Nat /\ source[s].success \in Nat
  <2>1. HandOK(p) /\ source[s].success \in Nat /\ m \in Nat
      BY DEF IInv, Typed, TypeOK, SourceRows, Messages
  <2> QED BY <1>1, <1>4, <2>1, InHandFacts DEF HandOK, Hand, Following
<1>7. ASSUME spent.uploads = 0, delivery[s][m].job # 0,
             NEW k \in DOMAIN job, job[k].feed = FeedOf[s]
      PROVE  job[k].done <= JobOf(s, m).done
    BY <1>4, <1>6, <1>7 DEF Leads, JobOf
<1>8. Earned
  <2> SUFFICES ASSUME NEW t \in Sources, spent.uploads = 0,
                      source'[t].success # source[t].success
               PROVE  /\ source'[t].success > source[t].success
                      /\ delivery'[t][source'[t].success].status \in {"COMPLETED", "DUPLICATE"}
                      /\ delivery[t][source'[t].success].job # 0 => \A k \in DOMAIN job :
                           job[k].feed = FeedOf[t]
                             => job[k].done <= JobOf(t, source'[t].success).done
      BY DEF Earned
  <2>1. t = s /\ source'[t].success = m
      BY <1>1, <1>4
  <2> QED BY <1>3, <1>4, <1>6, <1>7, <2>1
<1> QED BY <1>5, <1>8

LEMMA StepsHold ==
    ASSUME IInv, [Next]_vars
    PROVE  Blocks /\ Earned
<1>1. ASSUME Quiet PROVE Blocks /\ Earned
    BY <1>1 DEF Quiet, SuccessKept, Blocks, Earned
<1> QED BY <1>1, QuietSteps, LinkBlocks, ResultEarns

\* A delivery gets an unfinished import only while no other delivery of its
\* source has one, though the check and the link are separate transactions.
THEOREM InterruptedBlock == Spec => InterruptedImportsBlock
<1>1. IInv /\ [Next]_vars => [Blocks]_vars
    BY StepsHold
<1>2. [][Blocks]_vars => InterruptedImportsBlock
    BY PTL DEF Blocks, InterruptedImportsBlock
<1> QED BY <1>1, <1>2, Invariance, PTL DEF Spec

\* A success date moves only forward, to a message whose import is the feed's last,
\* though several transactions lie between the check and the result.
THEOREM FreshnessOnlyForward == Spec => FreshnessIsEarned
<1>1. IInv /\ [Next]_vars => [Earned]_vars
    BY StepsHold
<1>2. [][Earned]_vars => FreshnessIsEarned
    BY PTL DEF Earned, FreshnessIsEarned
<1> QED BY <1>1, <1>2, Invariance, PTL DEF Spec
=============================================================================
