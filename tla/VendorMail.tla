------------------------------ MODULE VendorMail ------------------------------
(***************************************************************************)
(* The automatic intake of vendor inventory from a mailbox                 *)
(* (services/vendor_mail.py).  A poll, under an advisory lock, walks new   *)
(* mail page by page and records one delivery for every source a message   *)
(* concerns; then it applies the deliveries that are due: it fetches the   *)
(* file, hands it to the import pipeline and follows the job to its end.   *)
(*                                                                         *)
(* Every step below is one transaction; the process may die between any    *)
(* two, and the next poll goes on.  A message is named by its place in the *)
(* order of reception.  The pipeline is ImportLifecycle's, cut down to the *)
(* states the intake tells apart; STAGED stands for matching and           *)
(* snapshotting, which it resumes in the same way.                         *)
(***************************************************************************)
EXTENDS Naturals, Sequences, FiniteSets, Functions

CONSTANTS
    Sources,        \* routing rules
    FeedOf,         \* source -> the vendor and worksheet it imports
    VendorOf,       \* feed -> its vendor
    Contents,       \* file contents
    Invalid,        \* contents with error rows
    Mailboxes,      \* the messages that may arrive, in order of reception
    MaxMails,       \* bound: messages
    MaxJobs,        \* bound: import jobs
    MaxAttempts,    \* MAX_ATTEMPTS
    MaxPages,       \* vendor_mail_max_pages
    PageSize,       \* messages of a page
    MaxDeliveries,  \* vendor_mail_max_deliveries
    Pollers,        \* scheduler, administrator, command line
    MaxFaults,      \* bound: failures of the mail service
    MaxCrashes,     \* bound: polls that die
    MaxRetries,     \* bound: retries an operator asks for
    MaxPauses,      \* bound: sources an operator pauses
    MaxUploads,     \* bound: files uploaded by hand
    MaxSpent        \* bound: all five together

Messages == 1 .. MaxMails
Jobs == 1 .. MaxJobs
Feeds == {FeedOf[s] : s \in Sources}

\* A message: the sources whose sender rule it meets, the files each of them
\* would take, and whether its attachments can be listed.
MailRows == [matched : SUBSET Sources, files : [Sources -> SUBSET Contents],
             readable : BOOLEAN]
NoMail == [matched |-> {}, files |-> [s \in Sources |-> {}], readable |-> TRUE]

ASSUME SourcesAssumption == IsFiniteSet(Sources)
ASSUME MailboxesAssumption == Mailboxes \subseteq [Messages -> MailRows \ {NoMail}]
ASSUME VendorsAssumption == Feeds \subseteq DOMAIN VendorOf
ASSUME LimitsAssumption ==
    /\ MaxAttempts \in Nat \ {0} /\ MaxPages \in Nat \ {0}
    /\ PageSize \in Nat \ {0} /\ MaxDeliveries \in Nat \ {0}
ASSUME BoundsAssumption ==
    /\ MaxMails \in Nat /\ MaxJobs \in Nat /\ MaxFaults \in Nat /\ MaxCrashes \in Nat
    /\ MaxRetries \in Nat /\ MaxPauses \in Nat /\ MaxUploads \in Nat

VARIABLES
    mail,       \* the mailbox, by order of reception
    source,     \* vendor_mail_sources
    seen,       \* vendor_mail_states.checkpoint_url: messages behind the cursor
    delivery,   \* vendor_mail_deliveries, by source and message
    job,        \* import_jobs
    poller,     \* what each poll is doing
    spent       \* what is used of the bounds

vars == <<mail, source, seen, delivery, job, poller, spent>>

----------------------------------------------------------------------------
(* Types *)

Due == {"PENDING", "RUNNING", "FAILED"}
Statuses == Due \union {"ABSENT", "COMPLETED", "DUPLICATE", "NEEDS_REVIEW", "SUPERSEDED"}
Unfinished == {"PENDING", "PARSING", "STAGED"}
JobStatuses == Unfinished \union {"COMPLETED", "COMPLETED_WITH_ERRORS", "FAILED"}

\* Only a process that died adds to the attempts that are made.
Attempts == 0 .. MaxAttempts + MaxCrashes

SourceRows == [active : BOOLEAN, success : {0} \union Messages]
\* waiting: next_attempt_at lies ahead.
\* current: with the source's current profile rather than the original one.
DeliveryRows == [status : Statuses, attempts : Attempts, waiting : BOOLEAN,
                 job : {0} \union Jobs, current : BOOLEAN]
\* done: the place in the order of completion, 0 while not completed.
JobRows == [status : JobStatuses, feed : Feeds, content : Contents,
            current : BOOLEAN, done : Nat]

\* A delivery selected, with what the session holds of its row; a rollback
\* makes the session read it again.
Copies == [read : BOOLEAN, attempts : Attempts, job : {0} \union Jobs, current : BOOLEAN]
Entries == [s : Sources, m : Messages, copy : Copies]

\* held: the sources the session holds as active; more: whether the page was
\* not the last; todo: the deliveries of the page to record, by message.
PollerStates ==
    [pc : {"idle", "poll", "record", "select", "apply", "decide", "link",
           "check", "work", "parse", "stage", "result"},
     held : SUBSET Sources, pages : Nat, more : BOOLEAN, fetched : SUBSET Messages,
     todo : SUBSET (Sources \X Messages), queue : Seq(Entries),
     job : {0} \union Jobs, duplicate : BOOLEAN]

AbsentDelivery == [status |-> "ABSENT", attempts |-> 0, waiting |-> FALSE,
                   job |-> 0, current |-> FALSE]
Unread == [read |-> FALSE, attempts |-> 0, job |-> 0, current |-> FALSE]
Read(d) == [read |-> TRUE, attempts |-> d.attempts, job |-> d.job, current |-> d.current]
IdlePoller == [pc |-> "idle", held |-> {}, pages |-> 0, more |-> FALSE, fetched |-> {},
               todo |-> {}, queue |-> <<>>, job |-> 0, duplicate |-> FALSE]
Bounds == [faults |-> MaxFaults, crashes |-> MaxCrashes, retries |-> MaxRetries,
           pauses |-> MaxPauses, uploads |-> MaxUploads]

TypeOK ==
    /\ mail \in [Messages -> MailRows]
    /\ source \in [Sources -> SourceRows]
    /\ seen \subseteq Messages
    /\ delivery \in [Sources -> [Messages -> DeliveryRows]]
    /\ job \in Seq(JobRows) /\ Len(job) <= MaxJobs
    /\ poller \in [Pollers -> PollerStates]
    /\ \A b \in DOMAIN Bounds : spent[b] \in 0 .. Bounds[b]

Init ==
    /\ mail = [m \in Messages |-> NoMail]
    /\ source = [s \in Sources |-> [active |-> TRUE, success |-> 0]]
    /\ seen = {}
    /\ delivery = [s \in Sources |-> [m \in Messages |-> AbsentDelivery]]
    /\ job = <<>>
    /\ poller = [p \in Pollers |-> IdlePoller]
    /\ spent = [b \in DOMAIN Bounds |-> 0]

Spend(b) ==
    /\ spent[b] < Bounds[b]
    /\ SumFunction(spent) < MaxSpent
    /\ spent' = [spent EXCEPT ![b] = @ + 1]

Arrived == {m \in Messages : mail[m] # NoMail}
Active == {s \in Sources : source[s].active}

----------------------------------------------------------------------------
(* Routing *)

\* Mutant: the vendors are not compared.
AmbiguousNever(m, S) == FALSE

\* Files of the message belong to sources of more than one vendor.
Ambiguous(m, S) ==
    \E s, t \in mail[m].matched \cap S :
        /\ mail[m].files[s] # {} /\ mail[m].files[t] # {}
        /\ VendorOf[FeedOf[s]] # VendorOf[FeedOf[t]]

\* The sources a message gets a delivery for: not those that find no file in it
\* while another one does.
Concerned(m, S) ==
    LET matched == mail[m].matched \cap S
    IN {s \in matched : mail[m].files[s] # {}
                          \/ \A t \in matched : mail[m].files[t] = {}}

----------------------------------------------------------------------------
(* Polling *)

LockFree == \A p \in Pollers : poller[p].pc = "idle"

StartPoll(p) ==
    /\ poller[p].pc = "idle"
    /\ LockFree
    /\ Active # {}
    /\ poller' = [poller EXCEPT ![p] = [IdlePoller EXCEPT !.pc = "poll", !.held = Active]]
    /\ UNCHANGED <<mail, source, seen, delivery, job, spent>>

\* The service chooses what a page holds; the first walk starts with the newest.
FetchPage(p) ==
    /\ poller[p].pc = "poll"
    /\ \E S \in SUBSET (Arrived \ seen) :
          /\ Cardinality(S) <= PageSize
          /\ S = {} => Arrived \subseteq seen
          /\ poller' = [poller EXCEPT ![p] = [@ EXCEPT
                  !.pc = "record", !.fetched = S, !.pages = poller[p].pages + 1,
                  !.more = ~(Arrived \subseteq seen \union S),
                  !.todo = {d \in Sources \X S : d[1] \in Concerned(d[2], poller[p].held)}]]
    /\ UNCHANGED <<mail, source, seen, delivery, job, spent>>

\* A rollback: the session reads its rows again.
Forget(state) ==
    [state EXCEPT !.held = {},
        !.queue = [i \in DOMAIN @ |-> [@[i] EXCEPT !.copy = Unread]]]

\* The poll is given up, and the deliveries recorded so far are applied.
GiveUp(p) ==
    poller' = [poller EXCEPT ![p] =
        [Forget(@) EXCEPT !.pc = "select", !.todo = {}, !.fetched = {}]]

\* The service fails, or no longer knows the cursor.
PollFails(p) ==
    /\ poller[p].pc \in {"poll", "record"}
    /\ Spend("faults")
    /\ GiveUp(p)
    /\ \/ UNCHANGED seen
       \/ poller[p].pc = "poll" /\ seen' = {}
    /\ UNCHANGED <<mail, source, delivery, job>>

\* discover_message, for one of the sources concerned.
Record(p, s, m) ==
    /\ poller[p].pc = "record" /\ <<s, m>> \in poller[p].todo
    /\ mail[m].readable
    /\ poller' = [poller EXCEPT ![p].todo = @ \ {<<s, m>>}]
    /\ IF delivery[s][m].status = "ABSENT"
       THEN delivery' = [delivery EXCEPT ![s][m] = [AbsentDelivery EXCEPT !.status =
                IF Ambiguous(m, poller[p].held) \/ Cardinality(mail[m].files[s]) # 1
                THEN "NEEDS_REVIEW" ELSE "PENDING"]]
       ELSE UNCHANGED delivery
    /\ UNCHANGED <<mail, source, seen, job, spent>>

\* A message whose attachments cannot be listed ends the poll.
RecordFails(p) ==
    /\ poller[p].pc = "record"
    /\ \E d \in poller[p].todo : ~mail[d[2]].readable
    /\ GiveUp(p)
    /\ UNCHANGED <<mail, source, seen, delivery, job, spent>>

Recorded(p) == poller[p].todo = {}

\* The cursor moves once the whole page is recorded.
Checkpoint(p) ==
    /\ poller[p].pc = "record" /\ Recorded(p)
    /\ seen' = seen \union poller[p].fetched
    /\ poller' = [poller EXCEPT ![p] = [@ EXCEPT
            !.fetched = {}, !.todo = {},
            !.pc = IF poller[p].more /\ poller[p].pages < MaxPages THEN "poll" ELSE "select"]]
    /\ UNCHANGED <<mail, source, delivery, job, spent>>

----------------------------------------------------------------------------
(* Applying deliveries *)

\* Mutant: only what waits for its turn is due, not what a dead poll left behind.
DueNowWaiting(s, m) ==
    /\ source[s].active
    /\ delivery[s][m].status \in {"PENDING", "FAILED"}
    /\ ~delivery[s][m].waiting

DueNow(s, m) ==
    /\ source[s].active
    /\ delivery[s][m].status \in Due
    /\ ~delivery[s][m].waiting

\* repo.due: the oldest first, so many at most.
Select(p) ==
    /\ poller[p].pc = "select"
    /\ LET due == {d \in Sources \X Messages : DueNow(d[1], d[2])}
           n == IF Cardinality(due) <= MaxDeliveries THEN Cardinality(due)
                ELSE MaxDeliveries
       IN \E q \in [1 .. n -> due] :
            /\ \A i, k \in 1 .. n : i < k => q[i] # q[k] /\ q[i][2] <= q[k][2]
            /\ \A d \in due : \A i \in 1 .. n : d[2] < q[i][2] => \E k \in 1 .. n : q[k] = d
            /\ poller' = [poller EXCEPT ![p] = [@ EXCEPT
                   !.pc = "apply",
                   !.queue = [i \in 1 .. n |->
                       [s |-> q[i][1], m |-> q[i][2],
                        copy |-> Read(delivery[q[i][1]][q[i][2]])]]]]
    /\ UNCHANGED <<mail, source, seen, delivery, job, spent>>

EndPoll(p) ==
    /\ poller[p].pc = "apply" /\ poller[p].queue = <<>>
    /\ poller' = [poller EXCEPT ![p] = IdlePoller]
    /\ UNCHANGED <<mail, source, seen, delivery, job, spent>>

Src(p) == Head(poller[p].queue).s
Msg(p) == Head(poller[p].queue).m
Mine(p) == Head(poller[p].queue).copy
MyJob(p) == job[poller[p].job]

NextDelivery(p) ==
    [poller[p] EXCEPT !.pc = "apply", !.queue = Tail(@), !.job = 0, !.duplicate = FALSE]

\* The source's row is looked up again, but the session answers with the one it
\* holds.
ActiveTo(p, s) == s \in poller[p].held \union Active

SkipInactive(p) ==
    /\ poller[p].pc = "apply" /\ poller[p].queue # <<>>
    /\ ~ActiveTo(p, Src(p))
    /\ poller' = [poller EXCEPT ![p] = NextDelivery(p)]
    /\ UNCHANGED <<mail, source, seen, delivery, job, spent>>

\* The attempt is counted on the row as the session holds it.
Begin(p) ==
    /\ poller[p].pc = "apply" /\ poller[p].queue # <<>>
    /\ ActiveTo(p, Src(p))
    /\ LET d == delivery[Src(p)][Msg(p)]
           copy == IF Mine(p).read THEN Mine(p) ELSE Read(d)
           attempts == copy.attempts + 1
       IN /\ delivery' = [delivery EXCEPT ![Src(p)][Msg(p)] = [d EXCEPT
                  !.status = "RUNNING", !.attempts = attempts, !.waiting = FALSE]]
          /\ poller' = [poller EXCEPT ![p] = [@ EXCEPT
                  !.pc = "decide", !.held = poller[p].held \union {Src(p)},
                  !.queue[1].copy = [copy EXCEPT !.attempts = attempts]]]
    /\ UNCHANGED <<mail, source, seen, job, spent>>

\* The delivery's result.
Settle(p, status, waiting) ==
    /\ delivery' = [delivery EXCEPT ![Src(p)][Msg(p)] = [@ EXCEPT
            !.status = status, !.waiting = waiting]]
    /\ poller' = [poller EXCEPT ![p] = NextDelivery(p)]

\* Every error rolls the session back.
SettleError(p, status, waiting) ==
    /\ delivery' = [delivery EXCEPT ![Src(p)][Msg(p)] = [@ EXCEPT
            !.status = status, !.waiting = waiting]]
    /\ poller' = [poller EXCEPT ![p] = Forget(NextDelivery(p))]

Review(p) == SettleError(p, "NEEDS_REVIEW", FALSE)

Retry(p) ==
    IF delivery[Src(p)][Msg(p)].attempts < MaxAttempts
    THEN SettleError(p, "FAILED", TRUE) ELSE Review(p)

\* Mutant: an interrupted import of another delivery is not looked for.
OthersNever(s, m) == {}

\* Other deliveries of the source whose import is not finished.
Others(s, m) ==
    {k \in Messages \ {m} : /\ delivery[s][k].job # 0
                            /\ job[delivery[s][k].job].status \in Unfinished}

HasLiveJob(p) == Mine(p).job # 0 /\ job[Mine(p).job].status \in Unfinished
NeedsFile(p) == Mine(p).job \in {0} \union {j \in DOMAIN job : job[j].status = "FAILED"}

\* Mutant: an older message is not held back.
OutdatedNever(p) == FALSE

Outdated(p) == Msg(p) < source[Src(p)].success

\* Another vendor's import holds these bytes.
TakenElsewhere(f, c) ==
    \E j \in DOMAIN job : job[j].content = c /\ VendorOf[job[j].feed] # VendorOf[f]

\* apply_delivery, up to the point where a file is needed.
Refuse(p) ==
    /\ poller[p].pc = "decide"
    /\ \/ Ambiguous(Msg(p), Active) /\ Review(p)
       \/ /\ ~Ambiguous(Msg(p), Active)
          /\ Others(Src(p), Msg(p)) # {}
          /\ Retry(p)
       \/ /\ ~Ambiguous(Msg(p), Active)
          /\ Others(Src(p), Msg(p)) = {}
          /\ Outdated(p)
          /\ IF HasLiveJob(p) THEN Review(p) ELSE Settle(p, "SUPERSEDED", FALSE)
       \/ /\ ~Ambiguous(Msg(p), Active)
          /\ Others(Src(p), Msg(p)) = {}
          /\ ~Outdated(p)
          /\ NeedsFile(p)
          /\ \/ Cardinality(mail[Msg(p)].files[Src(p)]) # 1
             \/ \E c \in mail[Msg(p)].files[Src(p)] : TakenElsewhere(FeedOf[Src(p)], c)
          /\ Review(p)
    /\ UNCHANGED <<mail, source, seen, job, spent>>

Accepted(p) ==
    /\ poller[p].pc = "decide"
    /\ ~Ambiguous(Msg(p), Active)
    /\ Others(Src(p), Msg(p)) = {}
    /\ ~Outdated(p)

\* The mail service fails while the message or its file is read, or does not
\* have it any more.
FetchFails(p) ==
    /\ poller[p].pc = "decide"
    /\ Spend("faults")
    /\ Retry(p) \/ Review(p)
    /\ UNCHANGED <<mail, source, seen, job>>

\* Mutant: only finished imports are looked for.
LiveJobsFinished(f, c) ==
    {j \in DOMAIN job : /\ job[j].feed = f /\ job[j].content = c
                        /\ job[j].status \notin Unfinished \union {"FAILED"}}

LiveJobs(f, c) ==
    {j \in DOMAIN job : /\ job[j].feed = f /\ job[j].content = c
                        /\ job[j].status # "FAILED"}

\* receive_upload: the live import of these bytes, or a new one.
Receive(p) ==
    /\ Accepted(p) /\ NeedsFile(p)
    /\ \E c \in Contents :
          /\ mail[Msg(p)].files[Src(p)] = {c}
          /\ ~TakenElsewhere(FeedOf[Src(p)], c)
          /\ LET f == FeedOf[Src(p)] IN
             \/ \E j \in LiveJobs(f, c) :
                  /\ job' = job
                  /\ poller' = [poller EXCEPT ![p] = [@ EXCEPT
                         !.pc = "link", !.job = j, !.duplicate = TRUE]]
             \/ /\ LiveJobs(f, c) = {}
                /\ Len(job) < MaxJobs
                /\ job' = Append(job, [status |-> "PENDING", feed |-> f,
                                       content |-> c,
                                       current |-> Mine(p).current, done |-> 0])
                /\ poller' = [poller EXCEPT ![p] = [@ EXCEPT
                       !.pc = "link", !.job = Len(job) + 1]]
    /\ UNCHANGED <<mail, source, seen, delivery, spent>>

\* The delivery goes on with the import it already has.
Continue(p) ==
    /\ Accepted(p) /\ ~NeedsFile(p)
    /\ poller' = [poller EXCEPT ![p] = [@ EXCEPT !.pc = "check", !.job = Mine(p).job]]
    /\ UNCHANGED <<mail, source, seen, delivery, job, spent>>

Link(p) ==
    /\ poller[p].pc = "link"
    /\ delivery' = [delivery EXCEPT ![Src(p)][Msg(p)].job = poller[p].job]
    /\ poller' = [poller EXCEPT ![p] = [@ EXCEPT
            !.pc = "check", !.queue[1].copy.job = poller[p].job]]
    /\ UNCHANGED <<mail, source, seen, job, spent>>

\* Mutant: what was imported once is current.
NewestAlways(j) == TRUE

\* The feed's last completed import.
Newest(j) ==
    \A k \in DOMAIN job :
        job[k].feed = job[j].feed /\ job[k].status = "COMPLETED"
            => job[k].done <= job[j].done

\* Reappearing content must be what was applied last.
Check(p) ==
    /\ poller[p].pc = "check"
    /\ IF MyJob(p).status = "COMPLETED" /\ ~Newest(poller[p].job)
       THEN Review(p)
       ELSE /\ poller' = [poller EXCEPT ![p].pc = "work"]
            /\ UNCHANGED delivery
    /\ UNCHANGED <<mail, source, seen, job, spent>>

\* _finish_job: what there is to do depends on where the import stands.  One
\* that was interrupted while parsing is never taken up.
Work(p) ==
    /\ poller[p].pc = "work"
    /\ \/ /\ MyJob(p).status = "PENDING"
          /\ job' = [job EXCEPT ![poller[p].job].status = "PARSING"]
          /\ poller' = [poller EXCEPT ![p].pc = "parse"]
          /\ UNCHANGED delivery
       \/ /\ MyJob(p).status = "STAGED"
          /\ poller' = [poller EXCEPT ![p].pc = "stage"]
          /\ UNCHANGED <<job, delivery>>
       \/ /\ MyJob(p).status = "COMPLETED"
          /\ poller' = [poller EXCEPT ![p].pc = "result"]
          /\ UNCHANGED <<job, delivery>>
       \/ /\ MyJob(p).status = "PARSING"
          /\ Retry(p)
          /\ UNCHANGED job
       \/ /\ MyJob(p).status \in {"FAILED", "COMPLETED_WITH_ERRORS"}
          /\ Review(p)
          /\ UNCHANGED job
    /\ UNCHANGED <<mail, source, seen, spent>>

\* The file is parsed, or turns out not to be readable.
Parse(p) ==
    /\ poller[p].pc = "parse"
    /\ \E result \in {"STAGED", "FAILED"} :
          /\ job' = [job EXCEPT ![poller[p].job].status = result]
          /\ IF result = "STAGED"
             THEN /\ poller' = [poller EXCEPT ![p].pc = "stage"]
                  /\ UNCHANGED delivery
             ELSE Review(p)
    /\ UNCHANGED <<mail, source, seen, spent>>

NextDone ==
    1 + Cardinality({j \in DOMAIN job : job[j].done # 0})

\* Error rows hold the import; otherwise it is matched and snapshotted.
Stage(p) ==
    /\ poller[p].pc = "stage"
    /\ IF MyJob(p).content \in Invalid
       THEN /\ job' = [job EXCEPT ![poller[p].job].status = "FAILED"]
            /\ Review(p)
       ELSE /\ job' = [job EXCEPT ![poller[p].job] = [@ EXCEPT
                          !.status = "COMPLETED", !.done = NextDone]]
            /\ poller' = [poller EXCEPT ![p].pc = "result"]
            /\ UNCHANGED delivery
    /\ UNCHANGED <<mail, source, seen, spent>>

\* An unexpected error leaves the import where it stands.
StageFails(p) ==
    /\ poller[p].pc = "stage"
    /\ Spend("faults")
    /\ Review(p)
    /\ UNCHANGED <<mail, source, seen, job>>

LaterSuccess(s, m) == IF source[s].success < m THEN m ELSE source[s].success

Result(p) ==
    /\ poller[p].pc = "result"
    /\ Settle(p, IF poller[p].duplicate THEN "DUPLICATE" ELSE "COMPLETED", FALSE)
    /\ source' = [source EXCEPT ![Src(p)].success = LaterSuccess(Src(p), Msg(p))]
    /\ UNCHANGED <<mail, seen, job, spent>>

----------------------------------------------------------------------------
(* The world around a poll *)

Arrive(m) ==
    /\ mail[m] = NoMail
    /\ \E box \in Mailboxes :
          /\ \A k \in 1 .. m - 1 : mail[k] = box[k]
          /\ mail' = [mail EXCEPT ![m] = box[m]]
    /\ UNCHANGED <<source, seen, delivery, job, poller, spent>>

\* A back-off passes.
Elapse(s, m) ==
    /\ delivery[s][m].waiting
    /\ delivery' = [delivery EXCEPT ![s][m].waiting = FALSE]
    /\ UNCHANGED <<mail, source, seen, job, poller, spent>>

\* The process dies, and the lock goes with its connection.
Crash(p) ==
    /\ poller[p].pc # "idle"
    /\ Spend("crashes")
    /\ poller' = [poller EXCEPT ![p] = IdlePoller]
    /\ UNCHANGED <<mail, source, seen, delivery, job>>

\* retry_delivery, with the profile it had or with the source's current one,
\* which forgets the import.
RetryDelivery(s, m, forget) ==
    LET d == delivery[s][m] IN
    /\ d.status \in {"FAILED", "NEEDS_REVIEW"}
    /\ source[s].active
    /\ Spend("retries")
    /\ forget /\ d.job # 0 => job[d.job].status \notin Unfinished
    /\ delivery' = [delivery EXCEPT ![s][m] =
            [status |-> "PENDING", attempts |-> 0, waiting |-> FALSE,
             job |-> IF forget THEN 0 ELSE d.job, current |-> forget \/ d.current]]
    /\ UNCHANGED <<mail, source, seen, job, poller>>

\* save_source, switching a source off or on.
Switch(s) ==
    /\ Spend("pauses")
    /\ source' = [source EXCEPT ![s].active = ~@]
    /\ UNCHANGED <<mail, seen, delivery, job, poller>>

\* An import by hand of a new file, which error rows do not hold.
Upload(f, c) ==
    /\ Spend("uploads")
    /\ LiveJobs(f, c) = {} /\ ~TakenElsewhere(f, c)
    /\ Len(job) < MaxJobs
    /\ job' = Append(job, [status |-> IF c \in Invalid THEN "COMPLETED_WITH_ERRORS"
                                      ELSE "COMPLETED",
                           feed |-> f, content |-> c, current |-> TRUE, done |-> NextDone])
    /\ UNCHANGED <<mail, source, seen, delivery, poller>>

----------------------------------------------------------------------------

PollStep(p) ==
    \/ FetchPage(p)
    \/ \E s \in Sources, m \in Messages : Record(p, s, m)
    \/ RecordFails(p)
    \/ Checkpoint(p)
    \/ Select(p)
    \/ EndPoll(p)
    \/ SkipInactive(p)
    \/ Begin(p)
    \/ Refuse(p)
    \/ Receive(p)
    \/ Continue(p)
    \/ Link(p)
    \/ Check(p)
    \/ Work(p)
    \/ Parse(p)
    \/ Stage(p)
    \/ Result(p)

Next ==
    \/ \E p \in Pollers : StartPoll(p) \/ PollStep(p)
    \/ \E p \in Pollers : PollFails(p) \/ FetchFails(p) \/ StageFails(p) \/ Crash(p)
    \/ \E m \in Messages : Arrive(m)
    \/ \E s \in Sources, m \in Messages : Elapse(s, m)
    \/ \E s \in Sources, m \in Messages, forget \in BOOLEAN : RetryDelivery(s, m, forget)
    \/ \E s \in Sources : Switch(s)
    \/ \E f \in Feeds, c \in Contents : Upload(f, c)

Spec == Init /\ [][Next]_vars

\* The scheduler polls again and again, a poll goes on, back-offs pass.
FairSpec ==
    /\ Spec
    /\ WF_vars(\E p \in Pollers : StartPoll(p))
    /\ \A p \in Pollers : WF_vars(PollStep(p))
    /\ \A s \in Sources, m \in Messages : WF_vars(Elapse(s, m))

----------------------------------------------------------------------------
(* Properties *)

JobOf(s, m) == job[delivery[s][m].job]

\* A retry that forgets the import of a delivery already queued leaves the row
\* without it, though the session, whose copy still has it, completes the row.
Imported(s, m) == delivery[s][m].status = "COMPLETED" /\ delivery[s][m].job # 0

\* "No older retry overwrites newer inventory": of two messages of a source that
\* were both imported, the older one was imported first.
AppliedInOrder ==
    \A s \in Sources : \A m, n \in Messages :
        /\ m < n
        /\ Imported(s, m) /\ Imported(s, n)
        /\ delivery[s][m].job # delivery[s][n].job
        => JobOf(s, m).done < JobOf(s, n).done

\* A source's success date moves only forward, and only to a message whose
\* content is what its feed shows, the last import completed.  Uploads by hand
\* are excluded, one may complete after the content was found to be current, and
\* so are deliveries whose import a retry forgot.
FreshnessIsEarned ==
    [][\A s \in Sources :
         spent.uploads = 0 /\ source'[s].success # source[s].success =>
         LET m == source'[s].success IN
         /\ m > source[s].success
         /\ delivery'[s][m].status \in {"COMPLETED", "DUPLICATE"}
         /\ delivery[s][m].job # 0 => \A k \in DOMAIN job :
              job[k].feed = FeedOf[s] => job[k].done <= JobOf(s, m).done]_vars

\* A message whose files belong to two vendors is imported for neither, as long
\* as neither is paused: only active sources are compared.
AmbiguityIsNeverRouted ==
    spent.pauses = 0 =>
        \A m \in Arrived :
            Cardinality({VendorOf[FeedOf[s]] : s \in {t \in mail[m].matched :
                                                        mail[m].files[t] # {}}}) > 1
                => \A s \in Sources : delivery[s][m].job = 0

\* Content is imported once for a feed, however many messages carry it and
\* however often a delivery is retried (and the tables keep their types).
OneImportPerContent ==
    /\ TypeOK
    /\ \A i, k \in DOMAIN job :
         /\ i # k /\ job[i].feed = job[k].feed /\ job[i].content = job[k].content
         => job[i].status = "FAILED" \/ job[k].status = "FAILED"

\* While an import of a source is interrupted, no other delivery of it starts one.
InterruptedImportsBlock ==
    [][\A s \in Sources : \A m \in Messages :
         /\ delivery[s][m].job = 0 /\ delivery'[s][m].job # 0
         /\ job[delivery'[s][m].job].status \in Unfinished
         => \A k \in Messages \ {m} :
              delivery[s][k].job # 0 => job[delivery[s][k].job].status \notin Unfinished]_vars

\* Every message that concerns a source gets its delivery, and every delivery
\* ends: applied, superseded, or in front of a person.
MailSettles ==
    \A s \in Sources, m \in Messages :
        mail[m] # NoMail /\ s \in Concerned(m, Sources)
            ~> delivery[s][m].status \notin Due \union {"ABSENT"}
=============================================================================
