---------------------------- MODULE MappingReview ----------------------------
(***************************************************************************)
(* How a vendor's lines get mapped to products: the matching stage of      *)
(* imports (services/matching.py) proposes and queues, reviewers decide    *)
(* (services/exceptions.py), and an approved mapping drives later imports. *)
(*                                                                         *)
(* The matcher builds its index of approved mappings once, reads the lines *)
(* and queue items of a chunk, and writes the chunk in one transaction.  A *)
(* reviewer's request reads the queue item with its line, row and job, and *)
(* writes in one transaction.  Neither locks what it read or checks it     *)
(* again, and an UPDATE carries only the columns that differ from the copy *)
(* read.  A chunk stands for one row here: rows of one file never share a  *)
(* vendor SKU, earlier repeats are marked superseded and not matched.      *)
(***************************************************************************)
EXTENDS Naturals, Sequences, FiniteSets

CONSTANTS
    Skus,           \* vendor SKUs of one vendor
    Products,       \* active products
    None,           \* SQL NULL
    Files,          \* the row sequences a file may have
    MaxJobs,        \* bound: imports
    MaxItems,       \* bound: queue items
    Matchers,       \* processes running the matching stage
    Reviewers,      \* sessions deciding queue items
    MaxCrashes,     \* bound: matchers that die
    Disciplines     \* which of the disciplines below to look at

Jobs == 1 .. MaxJobs
Items == 1 .. MaxItems

\* A row: its SKU (None in a UPC-only file), the products its identifiers
\* name (rules 1 and 2), the products with a similar name (rule 5).
FileRows == [sku : Skus \union {None}, hits : SUBSET Products,
             similar : SUBSET Products]

ASSUME NoneAssumption == None \notin Skus \union Products
ASSUME ProductsAssumption == IsFiniteSet(Products)
ASSUME BoundsAssumption == MaxJobs \in Nat /\ MaxItems \in Nat /\ MaxCrashes \in Nat
ASSUME DisciplineAssumption == Disciplines \subseteq {"FREE", "ATOMIC", "SERIAL"}
ASSUME FilesAssumption == Files \subseteq Seq(FileRows)

VARIABLES
    file,       \* job -> the rows of its file
    job,        \* job -> its stage and counters
    verdict,    \* job -> the match verdict of each row
    line,       \* vendor_products: SKU -> mapping
    item,       \* product_mapping_exceptions
    audit,      \* audit_logs: approvals and supersessions, by item
    matcher,    \* what each matcher is doing
    reviewer,   \* what each reviewer is doing
    crashes,
    discipline  \* how far readers and writers overlap in this behaviour

dbVars == <<file, job, verdict, line, item, audit>>
vars == <<file, job, verdict, line, item, audit, matcher, reviewer, crashes,
          discipline>>

----------------------------------------------------------------------------
(* Types *)

Results == {"NONE", "MATCHED", "AMBIGUOUS", "UNMATCHED", "SUGGESTION_ONLY"}
Exceptional == {"AMBIGUOUS", "UNMATCHED", "SUGGESTION_ONLY"}
Methods == {"NONE", "IDENTIFIER", "VENDOR_SKU_MAPPING", "MANUAL_APPROVAL"}
Reasons == {"NONE", "CONFLICTING_IDENTIFIER"} \union Exceptional
Rules == {"IDENTIFIER", "VENDOR_SKU_MAPPING", "NAME_SIMILARITY"}
Candidates == SUBSET (Rules \X Products)

JobRows == [stage : {"ABSENT", "MATCHING", "MATCHED"},
            matched : Nat, exceptions : Nat]
Verdicts == [result : Results, by : Methods, product : Products \union {None}]
Lines == [status : {"ABSENT", "UNMAPPED", "PENDING", "APPROVED"},
          product : Products \union {None}]
\* A row of an import, and through it the import.
RowIds == [job : Jobs \union {0}, n : Nat]
QueueItems == [status : {"ABSENT", "PENDING", "APPROVED", "REJECTED"},
               sku : Skus \union {None}, row : RowIds,
               reason : Reasons, candidates : Candidates, deferred : BOOLEAN]

AbsentJob == [stage |-> "ABSENT", matched |-> 0, exceptions |-> 0]
NoVerdict == [result |-> "NONE", by |-> "NONE", product |-> None]
AbsentLine == [status |-> "ABSENT", product |-> None]
AbsentItem == [status |-> "ABSENT", sku |-> None, row |-> [job |-> 0, n |-> 0],
               reason |-> "NONE", candidates |-> {}, deferred |-> FALSE]

\* copy is the session's job row; index the approved mappings read at the
\* start; line and open the chunk's context as read; declined the evidence of
\* the line's last rejected item.
MatcherStates ==
    [pc : {"idle", "read", "write"}, job : Jobs \union {0}, next : Nat,
     copy : JobRows, matched : Nat, exceptions : Nat,
     index : [Skus -> Products \union {None}],
     line : Lines, open : Items \union {0}, item : QueueItems,
     declined : [reason : Reasons, candidates : Candidates]]

ReviewerStates ==
    [pc : {"idle", "decide"}, item : Items \union {0}, copy : QueueItems,
     line : Lines, verdict : Verdicts, job : JobRows]

NoIndex == [s \in Skus |-> None]
NoEvidence == [reason |-> "NONE", candidates |-> {}]
IdleMatcher == [pc |-> "idle", job |-> 0, next |-> 1, copy |-> AbsentJob,
                matched |-> 0, exceptions |-> 0, index |-> NoIndex,
                line |-> AbsentLine, open |-> 0, item |-> AbsentItem,
                declined |-> NoEvidence]
IdleReviewer == [pc |-> "idle", item |-> 0, copy |-> AbsentItem,
                 line |-> AbsentLine, verdict |-> NoVerdict, job |-> AbsentJob]

Decisions == [kind : {"APPROVED", "SUPERSEDED"}, sku : Skus,
              product : Products, item : Items]

TypeOK ==
    /\ file \in [Jobs -> Files \union {<<>>}]
    /\ job \in [Jobs -> JobRows]
    /\ verdict \in [Jobs -> Seq(Verdicts)]
    /\ line \in [Skus -> Lines]
    /\ item \in [Items -> QueueItems]
    /\ audit \subseteq Decisions
    /\ matcher \in [Matchers -> MatcherStates]
    /\ reviewer \in [Reviewers -> ReviewerStates]
    /\ crashes \in 0 .. MaxCrashes
    /\ discipline \in Disciplines

Init ==
    /\ file = [j \in Jobs |-> <<>>]
    /\ job = [j \in Jobs |-> AbsentJob]
    /\ verdict = [j \in Jobs |-> <<>>]
    /\ line = [s \in Skus |-> AbsentLine]
    /\ item = [i \in Items |-> AbsentItem]
    /\ audit = {}
    /\ matcher = [m \in Matchers |-> IdleMatcher]
    /\ reviewer = [r \in Reviewers |-> IdleReviewer]
    /\ crashes = 0
    /\ discipline \in Disciplines

----------------------------------------------------------------------------
(* Who overlaps whom *)

\* Of the processes, those between their read and their write.
Holding == {m \in Matchers : matcher[m].pc = "write"}
               \union {r \in Reviewers : reviewer[r].pc = "decide"}
Active == {m \in Matchers : matcher[m].pc # "idle"}
              \union {r \in Reviewers : reviewer[r].pc # "idle"}

\* FREE is the code as it is: nothing is locked or checked again.  ATOMIC is
\* what it relies on, nobody reads or writes between a read and the write that
\* follows from it.  SERIAL also keeps decisions out of a running stage.
MayBegin == discipline = "SERIAL" => Active = {}
MayRead == discipline = "ATOMIC" => Holding = {}
Orderly == discipline # "FREE"

----------------------------------------------------------------------------
(* What a unit of work writes *)

\* The row an UPDATE leaves: the columns where new differs from the copy old
\* that the session read, over what the row holds now.
Merge(row, old, new) ==
    [c \in DOMAIN row |-> IF new[c] = old[c] THEN row[c] ELSE new[c]]

\* ck mapped_row_is_not_unmapped and approved_mapping_requires_product.
LineAllowed(l) ==
    /\ l.product # None => l.status # "UNMAPPED"
    /\ l.status = "APPROVED" => l.product # None

----------------------------------------------------------------------------
(* The match engine, as far as the queue depends on it *)

Tagged(rule, products) == {<<rule, p>> : p \in products}

\* evaluate: the first rule with an answer decides; two answers are ambiguous
\* and nothing later is tried; a similar name is never more than a suggestion.
Outcome(row, index) ==
    LET mapped == IF row.sku = None THEN None ELSE index[row.sku]
        found(result, by, product, candidates) ==
            [result |-> result, by |-> by, product |-> product,
             candidates |-> candidates]
    IN CASE Cardinality(row.hits) = 1 ->
              found("MATCHED", "IDENTIFIER", CHOOSE p \in row.hits : TRUE,
                    Tagged("IDENTIFIER", row.hits))
         [] Cardinality(row.hits) > 1 ->
              found("AMBIGUOUS", "NONE", None, Tagged("IDENTIFIER", row.hits))
         [] row.hits = {} /\ mapped # None ->
              found("MATCHED", "VENDOR_SKU_MAPPING", mapped,
                    Tagged("VENDOR_SKU_MAPPING", {mapped}))
         [] row.hits = {} /\ mapped = None /\ row.similar # {} ->
              found("SUGGESTION_ONLY", "NONE", None,
                    Tagged("NAME_SIMILARITY", row.similar))
         [] OTHER -> found("UNMATCHED", "NONE", None, {})

\* Why a row needs a person, given the line as the matcher read it.
ReasonFor(o, sku, l) ==
    CASE o.result # "MATCHED" -> o.result
      [] o.result = "MATCHED" /\ sku # None /\ l.status = "APPROVED"
            /\ l.product # o.product -> "CONFLICTING_IDENTIFIER"
      [] o.result = "MATCHED" /\ sku # None /\ l.status # "APPROVED"
            /\ o.by = "IDENTIFIER" -> "SUGGESTION_ONLY"
      [] OTHER -> "NONE"

\* Mutant: an identifier match is as good as an approval.
ProposedApproved(o, l) ==
    LET known == IF l.status = "ABSENT" THEN [l EXCEPT !.status = "UNMAPPED"] ELSE l
    IN IF o.result = "MATCHED" /\ l.status # "APPROVED" /\ o.by = "IDENTIFIER"
       THEN [status |-> "APPROVED", product |-> o.product]
       ELSE known

\* _record_match: an identifier proposes the mapping; an approved one stays.
Proposed(o, l) ==
    LET known == IF l.status = "ABSENT" THEN [l EXCEPT !.status = "UNMAPPED"] ELSE l
    IN IF o.result = "MATCHED" /\ l.status # "APPROVED" /\ o.by = "IDENTIFIER"
       THEN [status |-> "PENDING", product |-> o.product]
       ELSE known

----------------------------------------------------------------------------
(* The matching stage *)

MyJob(m) == matcher[m].job
MyRow(m) == [job |-> MyJob(m), n |-> matcher[m].next]
Row(m) == file[MyJob(m)][matcher[m].next]
RowsLeft(m) == matcher[m].next <= Len(file[MyJob(m)])

\* A parsed import, waiting for the matcher.
Import(j, f) ==
    /\ job[j].stage = "ABSENT"
    /\ \A k \in Jobs : k < j => job[k].stage # "ABSENT"
    /\ file' = [file EXCEPT ![j] = f]
    /\ job' = [job EXCEPT ![j].stage = "MATCHING"]
    /\ verdict' = [verdict EXCEPT ![j] = [k \in 1 .. Len(f) |-> NoVerdict]]
    /\ UNCHANGED <<line, item, audit, matcher, reviewer, crashes, discipline>>

\* Mutant: the index is built from the suggestions.
Suggested(s) == IF line[s].status = "PENDING" THEN line[s].product ELSE None

\* MatchIndexRepository.build: approved mappings only.
Approved(s) == IF line[s].status = "APPROVED" THEN line[s].product ELSE None

\* The stage starts, or starts again on a job left at MATCHING: the index is
\* built, and the walk and its counters begin at the first row.
StartMatching(m, j) ==
    /\ matcher[m].pc = "idle"
    /\ job[j].stage = "MATCHING"
    /\ MayBegin
    /\ matcher' = [matcher EXCEPT ![m] = [IdleMatcher EXCEPT
            !.pc = "read", !.job = j, !.copy = job[j],
            !.index = [s \in Skus |-> Approved(s)]]]
    /\ UNCHANGED <<dbVars, reviewer, crashes, discipline>>

OpenItems(s) == {i \in Items : item[i].status = "PENDING" /\ item[i].sku = s}
Rejected(s) == {i \in Items : item[i].status = "REJECTED" /\ item[i].sku = s}
Evidence(i) == [reason |-> i.reason, candidates |-> i.candidates]
Latest(i, S) == i \in S /\ \A k \in S : k <= i

LatestRejection(s) ==
    IF Rejected(s) = {} THEN NoEvidence
    ELSE Evidence(item[CHOOSE i \in Items : Latest(i, Rejected(s))])

\* _next_rows and _load_context.
ReadChunk(m) ==
    /\ matcher[m].pc = "read"
    /\ RowsLeft(m)
    /\ MayRead
    /\ LET s == Row(m).sku IN
       IF s = None
       THEN matcher' = [matcher EXCEPT ![m].pc = "write"]
       ELSE \E i \in IF OpenItems(s) = {} THEN {0} ELSE OpenItems(s) :
              matcher' = [matcher EXCEPT ![m] = [@ EXCEPT
                  !.pc = "write", !.line = line[s], !.open = i,
                  !.item = IF i = 0 THEN AbsentItem ELSE item[i],
                  !.declined = LatestRejection(s)]]
    /\ UNCHANGED <<dbVars, reviewer, crashes, discipline>>

NewItem(m, reason, o) ==
    [AbsentItem EXCEPT !.status = "PENDING", !.sku = Row(m).sku,
                       !.row = MyRow(m),
                       !.reason = reason, !.candidates = o.candidates]

FreeItems == {i \in Items : item[i].status = "ABSENT"}

\* Mutant: an open item is left alone whatever it shows.
QueueWrittenOnce(m, reason, o) ==
    IF \/ reason = "NONE"
       \/ matcher[m].open # 0
       \/ matcher[m].declined = [reason |-> reason, candidates |-> o.candidates]
    THEN item' = item
    ELSE /\ FreeItems # {}
         /\ item' = [item EXCEPT ![CHOOSE i \in FreeItems :
                 \A k \in FreeItems : i <= k] = NewItem(m, reason, o)]

\* _open_item: nothing to ask, or asked and declined already, or open already
\* with this evidence; otherwise the line's open item is refreshed with the
\* new evidence, or a new one is inserted.
QueueWritten(m, reason, o) ==
    LET me == matcher[m]
        evidence == [reason |-> reason, candidates |-> o.candidates]
    IN CASE reason = "NONE"
              \/ (me.open = 0 /\ me.declined = evidence)
              \/ (me.open # 0 /\ Evidence(me.item) = evidence) ->
                 item' = item
         [] reason # "NONE" /\ me.open # 0 /\ Evidence(me.item) # evidence ->
                 item' = [item EXCEPT ![me.open] = Merge(@, me.item,
                     [me.item EXCEPT !.row = MyRow(m), !.reason = reason,
                                     !.candidates = o.candidates])]
         [] OTHER ->
                 /\ FreeItems # {}
                 /\ item' = [item EXCEPT ![CHOOSE i \in FreeItems :
                         \A k \in FreeItems : i <= k] = NewItem(m, reason, o)]

\* The counters of the walk, written over the job's.
Counted(m, o) ==
    [matcher[m].copy EXCEPT
        !.matched = matcher[m].matched + IF o.result = "MATCHED" THEN 1 ELSE 0,
        !.exceptions = matcher[m].exceptions
                           + IF o.result \in Exceptional THEN 1 ELSE 0]

Done(m, copy) ==
    matcher' = [matcher EXCEPT ![m] = [@ EXCEPT
        !.pc = "read", !.next = matcher[m].next + 1, !.copy = copy,
        !.matched = copy.matched, !.exceptions = copy.exceptions,
        !.line = AbsentLine, !.open = 0, !.item = AbsentItem,
        !.declined = NoEvidence]]

Forget(m) == matcher' = [matcher EXCEPT ![m] = IdleMatcher]

\* The chunk would break an index or a check, and is rolled back: the line was
\* inserted meanwhile, or is not what it was; an item was opened meanwhile.
Refused(m, o) ==
    LET s == Row(m).sku
        me == matcher[m]
        reason == ReasonFor(o, s, me.line)
    IN /\ s # None
       /\ \/ me.line.status = "ABSENT" /\ line[s].status # "ABSENT"
          \/ /\ me.line.status # "ABSENT"
             /\ ~LineAllowed(Merge(line[s], me.line, Proposed(o, me.line)))
          \/ /\ reason # "NONE"
             /\ me.open = 0
             /\ me.declined # [reason |-> reason, candidates |-> o.candidates]
             /\ OpenItems(s) # {}

\* One chunk's transaction: vendor line, queue item, verdict and counters.
\* An integrity error ends the stage and leaves the job at MATCHING.
WriteChunk(m) ==
    /\ matcher[m].pc = "write"
    /\ LET o == Outcome(Row(m), matcher[m].index)
           s == Row(m).sku
           seen == [result |-> o.result, by |-> o.by, product |-> o.product]
       IN \/ /\ Refused(m, o)
             /\ Forget(m)
             /\ UNCHANGED <<job, verdict, line, item>>
          \/ /\ ~Refused(m, o)
             /\ line' = IF s = None THEN line
                        ELSE [line EXCEPT ![s] = Merge(@, matcher[m].line,
                                  Proposed(o, matcher[m].line))]
             /\ QueueWritten(m, ReasonFor(o, s, matcher[m].line), o)
             /\ verdict' = [verdict EXCEPT ![MyJob(m)][matcher[m].next] = seen]
             /\ job' = [job EXCEPT ![MyJob(m)] =
                           Merge(@, matcher[m].copy, Counted(m, o))]
             /\ Done(m, Counted(m, o))
    /\ UNCHANGED <<file, audit, reviewer, crashes, discipline>>

\* _Matcher._finish.
FinishMatching(m) ==
    /\ matcher[m].pc = "read"
    /\ ~RowsLeft(m)
    /\ job' = [job EXCEPT ![MyJob(m)] = Merge(@, matcher[m].copy,
                  [matcher[m].copy EXCEPT !.stage = "MATCHED"])]
    /\ Forget(m)
    /\ UNCHANGED <<file, verdict, line, item, audit, reviewer, crashes, discipline>>

\* The process dies between two transactions, or inside one.
Crash(m) ==
    /\ crashes < MaxCrashes
    /\ matcher[m].pc # "idle"
    /\ crashes' = crashes + 1
    /\ Forget(m)
    /\ UNCHANGED <<dbVars, reviewer, discipline>>

----------------------------------------------------------------------------
(* The reviewer *)

Seen(r) == reviewer[r].copy

\* Mutant: the status is not looked at.
OpenDecided(r, i) ==
    /\ reviewer[r].pc = "idle"
    /\ item[i].status # "ABSENT"
    /\ MayBegin /\ MayRead
    /\ reviewer' = [reviewer EXCEPT ![r] =
            [pc |-> "decide", item |-> i, copy |-> item[i],
             line |-> IF item[i].sku = None THEN AbsentLine ELSE line[item[i].sku],
             verdict |-> verdict[item[i].row.job][item[i].row.n],
             job |-> job[item[i].row.job]]]
    /\ UNCHANGED <<dbVars, matcher, crashes, discipline>>

\* _pending: the item with its line, row and job; only an open item is decided.
Open(r, i) ==
    /\ reviewer[r].pc = "idle"
    /\ item[i].status = "PENDING"
    /\ MayBegin /\ MayRead
    /\ reviewer' = [reviewer EXCEPT ![r] =
            [pc |-> "decide", item |-> i, copy |-> item[i],
             line |-> IF item[i].sku = None THEN AbsentLine ELSE line[item[i].sku],
             verdict |-> verdict[item[i].row.job][item[i].row.n],
             job |-> job[item[i].row.job]]]
    /\ UNCHANGED <<dbVars, matcher, crashes, discipline>>

Close(r) == reviewer' = [reviewer EXCEPT ![r] = IdleReviewer]

WriteItem(r, new) ==
    item' = [item EXCEPT ![reviewer[r].item] = Merge(@, Seen(r), new)]

Superseding(r, p) ==
    reviewer[r].line.status = "APPROVED" /\ reviewer[r].line.product # p

\* _approve_line.  A superseded mapping passes through SUPERSEDED in the same
\* transaction, so its status is written even though it ends where it began.
Mapped(r, p, l) ==
    Merge(l,
          IF Superseding(r, p)
          THEN [reviewer[r].line EXCEPT !.status = "SUPERSEDED"]
          ELSE reviewer[r].line,
          [status |-> "APPROVED", product |-> p])

ApproveLine(r, p) ==
    LET s == Seen(r).sku
        i == reviewer[r].item
        seen == reviewer[r].line
    IN IF s = None THEN UNCHANGED <<line, audit>>
       ELSE /\ LineAllowed(Mapped(r, p, line[s]))
            /\ line' = [line EXCEPT ![s] = Mapped(r, p, @)]
            /\ audit' = audit
                 \union {[kind |-> "APPROVED", sku |-> s, product |-> p, item |-> i]}
                 \union (IF Superseding(r, p)
                         THEN {[kind |-> "SUPERSEDED", sku |-> s,
                                product |-> seen.product, item |-> i]}
                         ELSE {})

\* Mutant: the counters move whatever the row's verdict was.
ResolveRowAlways(r, p) ==
    LET j == Seen(r).row.job
        seen == reviewer[r].job
        resolved == [result |-> "MATCHED", by |-> "MANUAL_APPROVAL", product |-> p]
    IN /\ verdict' = [verdict EXCEPT ![j][Seen(r).row.n] =
                         Merge(@, reviewer[r].verdict, resolved)]
       /\ job' = [job EXCEPT ![j] = Merge(@, seen,
                     [seen EXCEPT !.matched = seen.matched + 1,
                                  !.exceptions = IF seen.exceptions = 0 THEN 0
                                                 ELSE seen.exceptions - 1])]

\* _resolve_row: the originating row is matched by hand, and its job's counters
\* move one row if it was an exception.
ResolveRow(r, p) ==
    LET j == Seen(r).row.job
        seen == reviewer[r].job
        resolved == [result |-> "MATCHED", by |-> "MANUAL_APPROVAL", product |-> p]
    IN /\ verdict' = [verdict EXCEPT ![j][Seen(r).row.n] =
                         Merge(@, reviewer[r].verdict, resolved)]
       /\ job' = IF reviewer[r].verdict.result \in Exceptional
                 THEN [job EXCEPT ![j] = Merge(@, seen,
                          [seen EXCEPT !.matched = seen.matched + 1,
                                       !.exceptions = IF seen.exceptions = 0 THEN 0
                                                      ELSE seen.exceptions - 1])]
                 ELSE job

\* Replacing an approved mapping has to be asked for.  A suggestion withdrawn
\* meanwhile would leave an approval without a product, which is refused.
Approve(r, p, supersede) ==
    /\ reviewer[r].pc = "decide"
    /\ \/ /\ \/ Superseding(r, p) /\ ~supersede
             \/ /\ Seen(r).sku # None
                /\ ~LineAllowed(Mapped(r, p, line[Seen(r).sku]))
          /\ UNCHANGED <<job, verdict, line, item, audit>>
       \/ /\ Superseding(r, p) => supersede
          /\ ApproveLine(r, p)
          /\ WriteItem(r, [Seen(r) EXCEPT !.status = "APPROVED", !.deferred = FALSE])
          /\ ResolveRow(r, p)
    /\ Close(r)
    /\ UNCHANGED <<file, matcher, crashes, discipline>>

\* A pending suggestion on the line goes with the item.
Reject(r) ==
    /\ reviewer[r].pc = "decide"
    /\ line' = IF reviewer[r].line.status = "PENDING"
               THEN [line EXCEPT ![Seen(r).sku] = Merge(@, reviewer[r].line,
                        [status |-> "UNMAPPED", product |-> None])]
               ELSE line
    /\ WriteItem(r, [Seen(r) EXCEPT !.status = "REJECTED", !.deferred = FALSE])
    /\ Close(r)
    /\ UNCHANGED <<file, job, verdict, audit, matcher, crashes, discipline>>

Defer(r) ==
    /\ reviewer[r].pc = "decide"
    /\ WriteItem(r, [Seen(r) EXCEPT !.deferred = TRUE])
    /\ Close(r)
    /\ UNCHANGED <<file, job, verdict, line, audit, matcher, crashes, discipline>>

----------------------------------------------------------------------------

MatcherStep(m) ==
    \/ \E j \in Jobs : StartMatching(m, j)
    \/ ReadChunk(m)
    \/ WriteChunk(m)
    \/ FinishMatching(m)

ReviewerStep(r) ==
    \/ \E i \in Items : Open(r, i)
    \/ \E p \in Products, supersede \in BOOLEAN : Approve(r, p, supersede)
    \/ Reject(r)
    \/ Defer(r)

Next ==
    \/ \E j \in Jobs, f \in Files : Import(j, f)
    \/ \E m \in Matchers : MatcherStep(m)
    \/ \E r \in Reviewers : ReviewerStep(r)
    \/ \E m \in Matchers : Crash(m)

\* The code as it is, under each of the disciplines.
Spec == Init /\ [][Next]_vars

----------------------------------------------------------------------------
(* Properties *)

Person(kind, s, p) ==
    \E d \in audit : d.kind = kind /\ d.sku = s /\ d.product = p

\* AC-7.8: an approved mapping, and so every match made by vendor SKU, goes
\* back to a person who approved that product for that SKU.  This is what the
\* documentation claims of the code as it is.
EveryMappingIsAttributed ==
    /\ \A s \in Skus : line[s].status = "APPROVED" =>
          Person("APPROVED", s, line[s].product)
    /\ \A j \in Jobs : \A k \in DOMAIN verdict[j] :
          verdict[j][k].by = "VENDOR_SKU_MAPPING" =>
              Person("APPROVED", file[j][k].sku, verdict[j][k].product)

\* AC-7.8, of chunks and decisions that do not overlap.
MappingsComeFromPeople == Orderly => EveryMappingIsAttributed

\* AC-8.6: an approved mapping changes only through a supersession recorded in
\* the same transaction, and then into another approved mapping; and a decision
\* is taken once, on the evidence that was shown: neither the status nor the
\* evidence of a decided item changes afterwards.
DecisionsAreFinal ==
    [][Orderly =>
         /\ \A s \in Skus : line[s].status = "APPROVED" /\ line'[s] # line[s] =>
              /\ line'[s].status = "APPROVED"
              /\ \E d \in audit' \ audit :
                   d.kind = "SUPERSEDED" /\ d.sku = s /\ d.product = line[s].product
         /\ \A i \in Items : item[i].status \in {"APPROVED", "REJECTED"} =>
              /\ item'[i].status = item[i].status
              /\ Evidence(item'[i]) = Evidence(item[i])
              /\ item'[i].row = item[i].row]_vars

\* AC-7.7, AC-8.1: when a row ends as an exception, its line has an open item
\* showing exactly that evidence, or a person has already declined it.
EveryVerdictIsQueued ==
    [][Orderly => \A j \in Jobs : \A k \in DOMAIN verdict'[j] :
         LET v == verdict'[j][k]
         IN /\ k \in DOMAIN verdict[j]
            /\ v # verdict[j][k]
            /\ v.result \in Exceptional
            => \E i \in Items :
                  /\ item'[i].status \in {"PENDING", "REJECTED"}
                  /\ item'[i].sku = file[j][k].sku
                  /\ item'[i].reason = v.result
                  /\ item'[i].candidates = Outcome(file[j][k], NoIndex).candidates]_vars

\* AC-9.4: the counters of a matched job agree with its rows, decisions included
\* (and the tables keep their types).
CountersReconcile ==
    /\ TypeOK
    /\ discipline = "SERIAL" => \A j \in Jobs : job[j].stage = "MATCHED" =>
         LET rowsWith(S) == {k \in DOMAIN verdict[j] : verdict[j][k].result \in S}
         IN /\ job[j].matched = Cardinality(rowsWith({"MATCHED"}))
            /\ job[j].exceptions = Cardinality(rowsWith(Exceptional))

\* AC-8.4: an approved line asks nothing again, unless its identifiers disagree
\* with the mapping or with each other.
ApprovedLinesStayQuiet ==
    discipline = "SERIAL" => \A i \in Items :
        /\ item[i].status = "PENDING"
        /\ item[i].sku # None
        /\ line[item[i].sku].status = "APPROVED"
        => item[i].reason \in {"CONFLICTING_IDENTIFIER", "AMBIGUOUS"}

=============================================================================
