---------------------------- MODULE MailedImports ----------------------------
(***************************************************************************)
(* Import jobs driven by the deliveries of the vendor mailbox: what        *)
(* apply_delivery (services/vendor_mail.py) does around the stages of      *)
(* ImportLifecycle.  A poll begins a delivery that is due, receives its    *)
(* bytes, follows the job through the stages, and records how that ended;  *)
(* each is a transaction of its own, and the process may die between any   *)
(* two.  Retries are the code's: an error is tried again while attempts    *)
(* are left, a process that died leaves its delivery RUNNING, which the    *)
(* next poll takes up again, and everything else waits for a person.       *)
(*                                                                         *)
(* A content stands for the delivery that brings it, each from a source of *)
(* its own, so that no delivery waits for the import of another; routing,  *)
(* order and the link from a delivery to its job are VendorMail's.         *)
(***************************************************************************)
EXTENDS ImportLifecycle

CONSTANTS
    MaxAttempts,   \* MAX_ATTEMPTS
    MaxRetries,    \* bound: retries a person asks for
    MaxTroubles,   \* bound: deaths, closes and retries together
    MaxFiles       \* bound: contents that come up

ASSUME RetriesAssumption ==
    /\ MaxAttempts \in Nat \ {0}
    /\ MaxRetries \in Nat /\ MaxTroubles \in Nat /\ MaxFiles \in Nat

VARIABLES
    delivery,   \* vendor_mail_deliveries, by the content each brings
    poll,       \* the delivery each intake session applies, and how it ended
    retries

mailVars == <<delivery, poll, retries>>
allVars == <<vars, mailVars>>

Due == {"PENDING", "RUNNING", "FAILED"}

\* How apply_delivery's try block ends: the job is COMPLETED; it is RUNNING
\* still (IMPORT_INTERRUPTED); mail or download fail for now; or anything that
\* is not retried, an error of the database among it.
Outcomes == {"none", "applied", "interrupted", "unreachable", "refused"}

DeliveryRows == [status : Due \union {"COMPLETED", "NEEDS_REVIEW"},
                 attempts : 0 .. MaxAttempts, error : Outcomes]
NewDelivery == [status |-> "PENDING", attempts |-> 0, error |-> "none"]
NoPoll == [content |-> None, outcome |-> "none"]

MailedInit ==
    /\ Init
    /\ delivery = [c \in Contents |-> NewDelivery]
    /\ poll = [w \in Intakes |-> NoPoll]
    /\ retries = 0

----------------------------------------------------------------------------

\* The contents an upload has brought or a poll has begun with.
Known ==
    {c \in Contents : c \in stored \/ file[c] # None \/ delivery[c].attempts > 0}

\* Under the mailbox lock, one delivery at a time.  Attempts are counted as far
\* as they are compared: a delivery whose process died is begun again whatever
\* their number.
Begin(w, c) ==
    /\ \A v \in Intakes : poll[v] = NoPoll
    /\ delivery[c].status \in Due
    /\ Cardinality(Known \union {c}) <= MaxFiles
    /\ delivery' = [delivery EXCEPT ![c].status = "RUNNING",
                        ![c].attempts = IF @ < MaxAttempts THEN @ + 1 ELSE @]
    /\ poll' = [poll EXCEPT ![w].content = c]
    /\ UNCHANGED <<vars, retries>>

Fetching(w) == At(w, "idle") /\ poll[w].content # None /\ poll[w].outcome = "none"

\* The delivery is linked to its job already: the bytes are not fetched again.
Continue(w, u) ==
    /\ At(w, "idle")
    /\ Admissible(w, u) /\ file[u.content] = u.vendor
    /\ LET live == LiveJobsFor(u.content, u.sheet)
       IN \E j \in live : Oldest(j, live) /\ Adopt(w, j, job[j])
    /\ UNCHANGED <<dbVars, crashes, closes, losses>>

\* What a job that is not to be worked on means for its delivery; an older
\* content that was COMPLETED before may no longer be the latest.
Verdict(r) ==
    CASE r.status = "RUNNING" -> {"interrupted"}
      [] r.status = "COMPLETED" -> {"applied", "refused"}
      [] OTHER -> {"refused"}

\* The job is found or created, and taken to its stages unless there are none
\* for it.
Take(w) ==
    /\ Fetching(w)
    /\ \E u \in Uploads :
         /\ u.content = poll[w].content
         /\ Receive(w, u) \/ Continue(w, u)
         /\ \/ ~At(w, "idle")' /\ UNCHANGED poll
            \/ /\ At(w, "idle")'
               /\ LET live == LiveJobsFor(u.content, u.sheet)
                  IN \E j \in live : \E o \in Verdict(job[j]) :
                        Oldest(j, live) /\ poll' = [poll EXCEPT ![w].outcome = o]
    /\ UNCHANGED <<delivery, retries>>

\* Mail, download, routing or the vendor's profile are not as they should be.
TakeFails(w) ==
    /\ Fetching(w)
    /\ \E o \in {"unreachable", "refused"} : poll' = [poll EXCEPT ![w].outcome = o]
    /\ UNCHANGED <<vars, delivery, retries>>

\* The stages; when they are left, the job COMPLETED without error rows counts
\* as applied.
Work(w) ==
    /\ Step(w)
    /\ \/ ~At(w, "idle")' /\ UNCHANGED poll
       \/ /\ At(w, "idle")'
          /\ poll' = [poll EXCEPT ![w].outcome =
                 IF At(w, "snapshot") /\ job'[MyJob(w)].status = "COMPLETED"
                 THEN "applied" ELSE "refused"]
    /\ UNCHANGED <<delivery, retries>>

Result(outcome, attempts) ==
    CASE outcome = "applied" -> "COMPLETED"
      [] outcome \in {"interrupted", "unreachable"} /\ attempts < MaxAttempts -> "FAILED"
      [] OTHER -> "NEEDS_REVIEW"

\* The delivery's row, after the rollback an error brings.
Settle(w) ==
    /\ At(w, "idle") /\ poll[w].outcome # "none"
    /\ LET o == poll[w].outcome
           status == Result(o, delivery[poll[w].content].attempts)
       IN delivery' = [delivery EXCEPT ![poll[w].content] = [@ EXCEPT
              !.status = status,
              !.error = IF status = "NEEDS_REVIEW" THEN o ELSE "none"]]
    /\ poll' = [poll EXCEPT ![w] = NoPoll]
    /\ UNCHANGED <<vars, retries>>

\* The session dies, wherever it is; the lock goes with its connection.
Die(w) ==
    /\ poll[w] # NoPoll
    /\ crashes < MaxCrashes
    /\ crashes' = crashes + 1
    /\ Leave(w)
    /\ poll' = [poll EXCEPT ![w] = NoPoll]
    /\ UNCHANGED <<dbVars, closes, losses, delivery, retries>>

\* retry_delivery, asked for by a person.
RetryDelivery(c) ==
    /\ delivery[c].status \in {"FAILED", "NEEDS_REVIEW"}
    /\ retries < MaxRetries
    /\ retries' = retries + 1
    /\ delivery' = [delivery EXCEPT ![c] = NewDelivery]
    /\ UNCHANGED <<vars, poll>>

----------------------------------------------------------------------------

\* Requests and operators go on as in ImportLifecycle; the store loses nothing.
Others ==
    /\ \/ \E w \in Requests : Step(w) \/ Crash(w)
       \/ \E w \in Requests, u \in Uploads : Receive(w, u)
       \/ \E j \in Jobs : OperatorClose(j)
    /\ UNCHANGED mailVars

Bounded ==
    /\ crashes + closes + retries <= MaxTroubles
    /\ Cardinality(Known) <= MaxFiles

MailedNext ==
    /\ \/ \E c \in Contents : RetryDelivery(c)
       \/ \E w \in Intakes, c \in Contents : Begin(w, c)
       \/ \E w \in Intakes : Take(w) \/ TakeFails(w) \/ Work(w) \/ Settle(w) \/ Die(w)
       \/ Others
    /\ Bounded'

\* The scheduler polls again and again, and a process that lives goes on; no
\* message, retry or repair is owed.
MailedSpec ==
    /\ MailedInit /\ [][MailedNext]_allVars
    /\ WF_allVars(\E w \in Intakes, c \in Contents : Begin(w, c))
    /\ \A w \in Intakes : /\ WF_allVars(Take(w) \/ TakeFails(w))
                          /\ WF_allVars(Work(w) \/ Settle(w))
    /\ \A w \in Requests : WF_allVars(Step(w) /\ UNCHANGED mailVars)

----------------------------------------------------------------------------
(* Properties *)

\* A job that stopped after parsing, and that no process is engaged with.
Interrupted(j) ==
    /\ job[j].status = "RUNNING"
    /\ job[j].stage \in {"MATCHING", "SNAPSHOTTING"}
    /\ \A w \in Workers : MyJob(w) # j

\* Its delivery is due, and no poll applies it.
Waiting(c) ==
    /\ delivery[c].status \in Due
    /\ \A w \in Intakes : poll[w].content # c

\* A job interrupted after parsing whose delivery is due is finished, within the
\* attempts there are, or its delivery is left to a person for a reason of its
\* own: it never ends as an interrupted import.
InterruptedStagesRecover ==
    \A j \in Jobs, c \in Contents :
        Interrupted(j) /\ job[j].content = c /\ Waiting(c) ~>
            \/ job[j].status \in Completed \union {"FAILED"}
            \/ delivery[c].status = "NEEDS_REVIEW" /\ delivery[c].error # "interrupted"
=============================================================================
