---------------------------- MODULE AmazonListings ----------------------------
(***************************************************************************)
(* How Amazon listings get mapped to products.  Two scheduled jobs read    *)
(* the same listings report, the inventory job and the listings job        *)
(* (services/amazon_inventory.py, services/amazon_listings.py), each with  *)
(* its own RUNNING slot, so that both may map at once; NineYard teaches    *)
(* the catalogue identifiers meanwhile, and reviewers decide queue items   *)
(* (services/exceptions.py).                                               *)
(*                                                                         *)
(* A run maps its whole report in one transaction under READ COMMITTED:    *)
(* mapper.rows and mapper.items hold what it has written and not yet       *)
(* committed.  A written row is locked until the transaction ends; a row   *)
(* only read is not, and an UPDATE carries only the columns that differ    *)
(* from the copy read.                                                     *)
(***************************************************************************)
EXTENDS Naturals, FiniteSets

CONSTANTS
    Skus,           \* seller SKUs
    Products,
    None,           \* SQL NULL
    Shape,          \* sku -> what the two sources say of it, see Shapes
    MaxRuns,        \* bound: job -> its runs
    MaxLooks,       \* bound: listings looked at, in all runs
    MaxItems,       \* bound: queue items of a listing
    MaxChanges,     \* bound: changes at Amazon and NineYard
    MaxFaults,      \* bound: failed statements and dead processes
    Reviewers,      \* sessions deciding queue items
    Disciplines     \* which of the disciplines below to look at

Jobs == {"FBA_INVENTORY", "LISTINGS_REPORT"}
Runs == UNION {{m} \X (1 .. MaxRuns[m]) : m \in Jobs}
Items == Skus \X (1 .. MaxItems)

\* The FBA summaries of a SKU, of which each has an ASIN or not, and its row
\* of the listings report: merchant fulfilled or not, with an ASIN or not, its
\* product-id a UPC or EAN (GTIN_KINDS) or not.
Shapes == [withAsin : 0 .. 2, withoutAsin : 0 .. 1, fbm : BOOLEAN, asin : BOOLEAN, gtin : BOOLEAN]

ASSUME NoneAssumption == None \notin Products
ASSUME FiniteAssumption == IsFiniteSet(Skus) /\ IsFiniteSet(Products)
ASSUME ShapeAssumption == Shape \in [Skus -> Shapes]
ASSUME BoundsAssumption ==
    MaxRuns \in [Jobs -> Nat] /\ MaxLooks \in Nat /\ MaxItems \in Nat /\ MaxChanges \in Nat /\ MaxFaults \in Nat
ASSUME DisciplineAssumption == Disciplines \subseteq {"FREE", "ATOMIC"}

VARIABLES
    report,     \* Amazon's listings: sku -> ACTIVE, INACTIVE or ABSENT
    named,      \* product_identifiers: sku -> the products NineYard names for it
    barcoded,   \* sku -> the products its listing's UPC or EAN leads to
    listing,    \* marketplace_listings
    item,       \* product_mapping_exceptions of listings
    run,        \* amazon_sync_runs of the two jobs
    snapshots,  \* amazon_inventory_snapshots: [run, sku, from]
    mapper,     \* what each job's process is doing
    reviewer,   \* what each reviewer is doing
    changes, looks, faults,
    discipline  \* FREE, or ATOMIC: nobody overlaps a mapping or a decision

worldVars == <<report, named, barcoded, changes>>
dbVars == <<listing, item, run, snapshots>>
vars == <<worldVars, dbVars, mapper, reviewer, looks, faults, discipline>>

----------------------------------------------------------------------------
(* Types *)

Settled == {"APPROVED", "REJECTED", "SUPERSEDED"}
Listings ==
    [status : {"ABSENT", "UNMAPPED", "PENDING"} \union Settled, product : Products \union {None},
     method : {"NONE", "UPC", "AMAZON_SKU_MAPPING", "MANUAL_APPROVAL"},
     approver : {"NONE", "SYSTEM", "PERSON"}, live : BOOLEAN]
Reasons == {"NONE", "AMBIGUOUS_MATCH", "CONFLICTING_IDENTIFIER", "SUGGESTION_ONLY", "NO_MATCH"}
QueueItems ==
    [status : {"ABSENT", "PENDING", "APPROVED", "REJECTED"}, reason : Reasons,
     candidates : SUBSET Products, resolved : Products \union {None},
     resolver : {"NONE", "SYSTEM", "PERSON"}]
\* What resolve_listing can say.
Verdicts ==
    [outcome : {"UNMAPPED", "PENDING", "APPROVED"}, product : Products \union {None},
     method : {"NONE", "UPC", "AMAZON_SKU_MAPPING"}, reason : Reasons, candidates : SUBSET Products]

NoListing == [status |-> "ABSENT", product |-> None, method |-> "NONE", approver |-> "NONE", live |-> FALSE]
NoItem == [status |-> "ABSENT", reason |-> "NONE", candidates |-> {}, resolved |-> None, resolver |-> "NONE"]
NoVerdict == [outcome |-> "UNMAPPED", product |-> None, method |-> "NONE", reason |-> "NONE", candidates |-> {}]
NoRows == [s \in Skus |-> NoListing]
NoItems == [i \in Items |-> NoItem]

\* read is the report as fetched; copy the session's listing; open the item the
\* mapper found pending (0: none), asked that item as it read it.
IdleMapper == [pc |-> "idle", no |-> 0, read |-> [s \in Skus |-> "ABSENT"], todo |-> {}, sku |-> None,
               copy |-> NoListing, verdict |-> NoVerdict, open |-> 0, asked |-> NoItem,
               rows |-> NoRows, items |-> NoItems]
MapperStates ==
    [pc : {"idle", "fetch", "look", "map", "queue"}, no : Nat, read : [Skus -> {"ABSENT", "ACTIVE", "INACTIVE"}],
     todo : SUBSET Skus, sku : Skus \union {None}, copy : Listings, verdict : Verdicts,
     open : 0 .. MaxItems, asked : QueueItems,
     rows : [Skus -> Listings], items : [Items -> QueueItems]]

IdleReviewer == [pc |-> "idle", of |-> None, copy |-> NoListing, asked |-> NoItem]
ReviewerStates ==
    [pc : {"idle", "decide"}, of : Items \union {None}, copy : Listings, asked : QueueItems]

TypeOK ==
    /\ report \in [Skus -> {"ABSENT", "ACTIVE", "INACTIVE"}]
    /\ named \in [Skus -> SUBSET Products] /\ barcoded \in [Skus -> SUBSET Products]
    /\ listing \in [Skus -> Listings]
    /\ item \in [Items -> QueueItems]
    /\ run \in [Runs -> {"ABSENT", "RUNNING", "COMPLETED", "COMPLETED_WITH_ERRORS", "FAILED"}]
    /\ snapshots \subseteq [run : Runs, sku : Skus, from : {"fba_inventory", "listings_report"}]
    /\ mapper \in [Jobs -> MapperStates] /\ reviewer \in [Reviewers -> ReviewerStates]
    /\ changes \in 0 .. MaxChanges /\ looks \in 0 .. MaxLooks /\ faults \in 0 .. MaxFaults

Init ==
    /\ report \in [Skus -> {"ABSENT", "ACTIVE"}]
    /\ named = [s \in Skus |-> {}]
    /\ barcoded \in [Skus -> {P \in SUBSET Products : Cardinality(P) <= 1}]
    /\ \A s \in Skus : barcoded[s] # {} => report[s] # "ABSENT" /\ Shape[s].gtin
    /\ listing = [s \in Skus |-> NoListing]
    /\ item = [i \in Items |-> NoItem]
    /\ run = [r \in Runs |-> "ABSENT"]
    /\ snapshots = {}
    /\ mapper = [m \in Jobs |-> IdleMapper]
    /\ reviewer = [r \in Reviewers |-> IdleReviewer]
    /\ changes = 0 /\ looks = 0 /\ faults = 0
    /\ discipline \in Disciplines

----------------------------------------------------------------------------
(* The world outside *)

Changes(s) == report[s] # "ABSENT" /\ changes < MaxChanges /\ changes' = changes + 1

\* Amazon takes a listing off sale or back.
Relist(s) ==
    /\ Changes(s)
    /\ report' = [report EXCEPT ![s] = IF @ = "ACTIVE" THEN "INACTIVE" ELSE "ACTIVE"]
    /\ UNCHANGED <<named, barcoded, dbVars, mapper, reviewer, looks, faults, discipline>>

\* NineYard names the product of a SKU, once (uq_product_identifiers_global_value).
Name(s, p) ==
    /\ Changes(s)
    /\ named[s] = {} /\ named' = [named EXCEPT ![s] = {p}]
    /\ UNCHANGED <<report, barcoded, dbVars, mapper, reviewer, looks, faults, discipline>>

\* NineYard gives one more product the barcode of a listing.
Barcode(s, p) ==
    /\ Changes(s)
    /\ Shape[s].gtin /\ p \notin barcoded[s] /\ barcoded' = [barcoded EXCEPT ![s] = @ \union {p}]
    /\ UNCHANGED <<report, named, dbVars, mapper, reviewer, looks, faults, discipline>>

----------------------------------------------------------------------------
(* The chain of rules *)

Resolution(outcome, product, method, reason, candidates) ==
    [outcome |-> outcome, product |-> product, method |-> method, reason |-> reason, candidates |-> candidates]
Unmapped(reason, candidates) == Resolution("UNMAPPED", None, "NONE", reason, candidates)
The(P) == CHOOSE p \in P : TRUE

\* Mutant: the SKU's own name is followed whatever the barcode says.
resolve_by_sku_first(by_sku, by_gtin) ==
    IF by_sku # {} THEN Resolution("APPROVED", The(by_sku), "AMAZON_SKU_MAPPING", "NONE", by_sku)
    ELSE IF by_gtin # {} THEN Resolution("APPROVED", The(by_gtin), "UPC", "NONE", by_gtin)
    ELSE Unmapped("NO_MATCH", {})

\* resolve_listing: an ambiguous SKU stops the chain; a barcode that leads to
\* one other product is a conflict; a barcode alone only suggests.
resolve_listing(by_sku, by_gtin) ==
    CASE Cardinality(by_sku) > 1 -> Unmapped("AMBIGUOUS_MATCH", by_sku)
      [] Cardinality(by_sku) = 1 /\ Cardinality(by_gtin) = 1 /\ by_gtin # by_sku ->
            Unmapped("CONFLICTING_IDENTIFIER", by_sku \union by_gtin)
      [] Cardinality(by_sku) = 1 /\ (Cardinality(by_gtin) # 1 \/ by_gtin = by_sku) ->
            Resolution("APPROVED", The(by_sku), "AMAZON_SKU_MAPPING", "NONE", by_sku)
      [] by_sku = {} /\ Cardinality(by_gtin) = 1 ->
            Resolution("PENDING", The(by_gtin), "UPC", "SUGGESTION_ONLY", by_gtin)
      [] by_sku = {} /\ Cardinality(by_gtin) > 1 -> Unmapped("AMBIGUOUS_MATCH", by_gtin)
      [] OTHER -> Unmapped("NO_MATCH", {})

\* merge_snapshot_rows over the active SKUs: the first summary with an ASIN
\* makes the row, else a merchant-fulfilled listing with an ASIN does.
Placed(s) ==
    CASE Shape[s].withAsin > 0                                 -> {"fba_inventory"}
      [] Shape[s].withAsin = 0 /\ Shape[s].fbm /\ Shape[s].asin -> {"listings_report"}
      [] OTHER                                                 -> {}
\* Repeated summaries, summaries without an ASIN, FBM-only listings without one.
Misplaced(s) ==
    \/ Shape[s].withAsin > 1 \/ Shape[s].withoutAsin > 0
    \/ Shape[s].withAsin = 0 /\ Shape[s].fbm /\ ~Shape[s].asin

----------------------------------------------------------------------------
(* Transactions *)

\* What an UPDATE leaves of a row: the columns where new differs from the copy.
Merge(row, copy, new) ==
    IF copy.status = "ABSENT" THEN new
    ELSE [c \in DOMAIN row |-> IF new[c] = copy[c] THEN row[c] ELSE new[c]]

\* approved_requires_product, approved_requires_approver, mapped_row_is_not_unmapped.
Allowed(l) ==
    /\ l.status = "APPROVED" => l.product # None /\ l.approver # "NONE"
    /\ l.product # None => l.status # "UNMAPPED"

\* Statements of a session see what it has written itself.
Written(row) == row.status # "ABSENT"
Over(own, row) == IF Written(own) THEN own ELSE row
Listing(m, s) == Over(mapper[m].rows[s], listing[s])
ItemOf(m, i) == Over(mapper[m].items[i], item[i])
Locked(m) == {<<s, 0>> : s \in {x \in Skus : Written(mapper[m].rows[x])}}
                \union {i \in Items : Written(mapper[m].items[i])}
FreeFor(m, key) == \A k \in Jobs \ {m} : key \notin Locked(k)
Numbered(s, n) == <<s, n>>
NextItem(m, s) == CHOOSE n \in 1 .. MaxItems + 1 :
    /\ n = MaxItems + 1 \/ ItemOf(m, Numbered(s, n)).status = "ABSENT"
    /\ \A k \in 1 .. n - 1 : ItemOf(m, Numbered(s, k)).status # "ABSENT"

Mapping(m) == mapper[m].pc \in {"look", "map", "queue"}
Overlapped == (\E m \in Jobs : Mapping(m)) \/ \E r \in Reviewers : reviewer[r].pc # "idle"
MayBegin == discipline = "ATOMIC" => ~Overlapped

\* prepare_run and open_run: a RUNNING row whose process has died is FAILED first.
Start(m) ==
    /\ mapper[m].pc = "idle"
    /\ \E n \in 1 .. MaxRuns[m] :
         /\ \A k \in 1 .. MaxRuns[m] : run[<<m, k>>] = "ABSENT" <=> k >= n
         /\ run' = [r \in Runs |-> IF r = <<m, n>> THEN "RUNNING"
                                   ELSE IF r[1] = m /\ run[r] = "RUNNING" THEN "FAILED" ELSE run[r]]
         /\ mapper' = [mapper EXCEPT ![m].pc = "fetch", ![m].no = n]
    /\ UNCHANGED <<worldVars, listing, item, snapshots, reviewer, looks, faults, discipline>>

\* Both reads from Amazon are over before the transaction begins.
Fetch(m) ==
    /\ mapper[m].pc = "fetch"
    /\ MayBegin
    /\ looks' = looks + Cardinality({s \in Skus : report[s] # "ABSENT"}) /\ looks' <= MaxLooks
    /\ mapper' = [mapper EXCEPT ![m].pc = "look", ![m].read = report,
                                ![m].todo = {s \in Skus : report[s] # "ABSENT"}]
    /\ UNCHANGED <<worldVars, dbVars, reviewer, faults, discipline>>

\* _upsert_listing: the SELECT.
Look(m, s) ==
    /\ mapper[m].pc = "look" /\ s \in mapper[m].todo
    /\ mapper' = [mapper EXCEPT ![m].pc = "map", ![m].sku = s, ![m].copy = Listing(m, s),
                                ![m].todo = @ \ {s}]
    /\ UNCHANGED <<worldVars, dbVars, reviewer, looks, faults, discipline>>

\* The copy after asin, listing_status and raw are set.
Touched(m) ==
    LET live == mapper[m].read[mapper[m].sku] = "ACTIVE" IN
    IF mapper[m].copy.status = "ABSENT" THEN [NoListing EXCEPT !.status = "UNMAPPED", !.live = live]
    ELSE [mapper[m].copy EXCEPT !.live = live]

\* The statement that carries a changed copy to the database, if it changed.
Write(m, new, after) ==
    LET me == mapper[m]
        row == Merge(Listing(m, me.sku), me.copy, new)
    IN  IF new = me.copy
        THEN mapper' = [mapper EXCEPT ![m] = after]
        ELSE /\ FreeFor(m, <<me.sku, 0>>) /\ Allowed(row)
             /\ mapper' = [mapper EXCEPT ![m] =
                    [after EXCEPT !.copy = new, !.rows = [after.rows EXCEPT ![me.sku] = row]]]

\* Mutant: an approved listing is looked at again.
OpenForAny(l) == l.live

\* What map_listings goes on with: nothing decided, and on sale.
Open(l) == l.status \notin Settled /\ l.live

\* _approve, _suggest, _leave_unmapped: the listing's mapping columns.
Remapped(l, r) ==
    [l EXCEPT !.product = r.product, !.status = r.outcome, !.method = r.method,
              !.approver = IF r.outcome = "APPROVED" THEN "SYSTEM" ELSE "NONE"]

Pending(m, s) == {n \in 1 .. MaxItems : ItemOf(m, Numbered(s, n)).status = "PENDING"}

\* The listing as this step leaves it: upserted, and remapped if still open.
Mapped(m) ==
    LET s == mapper[m].sku IN
    IF Open(Touched(m)) THEN Remapped(Touched(m), resolve_listing(named[s], barcoded[s])) ELSE Touched(m)

\* The rest of the upsert, the chain, the UPDATE of the mapping and the SELECT
\* of the pending item; nobody can come between these and make a difference.
Map(m) ==
    LET me == mapper[m]
        asks == Pending(m, me.sku)
        open == IF asks = {} THEN 0 ELSE CHOOSE n \in asks : TRUE
    IN  /\ me.pc = "map"
        /\ me.copy.status = "ABSENT" => Listing(m, me.sku).status = "ABSENT"
        /\ Write(m, Mapped(m),
                 IF ~Open(Touched(m)) THEN [me EXCEPT !.pc = "look"]
                 ELSE [me EXCEPT !.pc = "queue", !.open = open,
                          !.verdict = resolve_listing(named[me.sku], barcoded[me.sku]),
                          !.asked = IF open = 0 THEN NoItem ELSE ItemOf(m, <<me.sku, open>>)])
        /\ UNCHANGED <<worldVars, dbVars, reviewer, looks, faults, discipline>>

\* Mutant: an open item is left open when the catalogue answers it.
AnsweredByNobody(i, r) == IF r.outcome = "APPROVED" THEN i ELSE [i EXCEPT !.reason = r.reason, !.candidates = r.candidates]

\* Mutant: a question whose evidence has changed is withdrawn, and not put anew.
AnsweredByWithdrawal(i, r) ==
    CASE r.outcome = "APPROVED" ->
            [i EXCEPT !.status = "APPROVED", !.resolved = r.product, !.resolver = "SYSTEM"]
      [] r.outcome # "APPROVED" /\ <<i.reason, i.candidates>> # <<r.reason, r.candidates>> ->
            [i EXCEPT !.status = "REJECTED", !.resolver = "SYSTEM"]
      [] OTHER -> i

\* _approve resolves the open item; _ensure_exception refreshes it.
Answered(i, r) ==
    IF r.outcome = "APPROVED"
    THEN [i EXCEPT !.status = "APPROVED", !.resolved = r.product, !.resolver = "SYSTEM"]
    ELSE [i EXCEPT !.reason = r.reason, !.candidates = r.candidates]

Opened(r) == [NoItem EXCEPT !.status = "PENDING", !.reason = r.reason, !.candidates = r.candidates]

\* The queue item this step writes, if any: the open one, or a new one.
Subject(m) ==
    LET me == mapper[m] IN
    IF me.open # 0 THEN {<<me.sku, me.open>>}
    ELSE IF me.verdict.outcome = "APPROVED" THEN {} ELSE {<<me.sku, NextItem(m, me.sku)>>}
Inserts(m) == mapper[m].open = 0 /\ mapper[m].verdict.outcome # "APPROVED"

\* uq_product_mapping_exceptions_pending_listing: one open item of a listing.
Queue(m) ==
    LET me == mapper[m]
        written(i) == IF me.open = 0 THEN Opened(me.verdict)
                      ELSE Merge(ItemOf(m, i), me.asked, Answered(me.asked, me.verdict))
    IN  /\ me.pc = "queue"
        /\ \A i \in Subject(m) : i \in Items /\ FreeFor(m, i)
        /\ Inserts(m) => Pending(m, me.sku) = {}
        /\ mapper' = [mapper EXCEPT ![m] =
               [me EXCEPT !.pc = "look", !.sku = None, !.copy = NoListing, !.verdict = NoVerdict, !.open = 0,
                          !.asked = NoItem,
                          !.items = [i \in Items |-> IF i \in Subject(m) THEN written(i) ELSE me.items[i]]]]
        /\ UNCHANGED <<worldVars, dbVars, reviewer, looks, faults, discipline>>

\* insert_snapshots, map_listings and close_run land together.
Commit(m) ==
    LET me == mapper[m]
        active == {s \in Skus : me.read[s] = "ACTIVE"}
        inventory == m = "FBA_INVENTORY"
    IN  /\ me.pc = "look" /\ me.todo = {}
        /\ listing' = [s \in Skus |-> Listing(m, s)]
        /\ item' = [i \in Items |-> ItemOf(m, i)]
        /\ snapshots' = snapshots \union
              IF inventory THEN {x \in [run : {<<m, me.no>>}, sku : active, from : {"fba_inventory", "listings_report"}] :
                                   x.from \in Placed(x.sku)}
              ELSE {}
        /\ run' = [run EXCEPT ![<<m, me.no>>] =
              IF inventory /\ \E s \in active : Misplaced(s) THEN "COMPLETED_WITH_ERRORS" ELSE "COMPLETED"]
        /\ mapper' = [mapper EXCEPT ![m] = IdleMapper]
        /\ UNCHANGED <<worldVars, reviewer, looks, faults, discipline>>

\* A constraint refuses the next statement: the listing or its item was
\* inserted meanwhile, or the merged row breaks a check.
Refused(m) ==
    LET me == mapper[m] IN
    \/ me.pc = "map" /\ me.copy.status = "ABSENT" /\ Listing(m, me.sku).status # "ABSENT"
    \/ me.pc = "map" /\ ~Allowed(Merge(Listing(m, me.sku), me.copy, Mapped(m)))
    \/ me.pc = "queue" /\ Inserts(m) /\ Pending(m, me.sku) # {}

\* The rows the next statement needs, which another transaction may hold.
Wants(m) ==
    LET me == mapper[m] IN
    CASE me.pc = "map" /\ Mapped(m) # me.copy -> {<<me.sku, 0>>}
      [] me.pc = "queue" -> Subject(m)
      [] OTHER -> {}
Deadlocked(m) ==
    \E k \in Jobs \ {m} : Wants(m) \intersect Locked(k) # {} /\ Wants(k) \intersect Locked(m) # {}

\* The transaction is rolled back and fail_run closes the run.
Fail(m) ==
    /\ mapper[m].pc # "idle"
    /\ \/ (Refused(m) \/ Deadlocked(m)) /\ faults' = faults
       \/ faults < MaxFaults /\ faults' = faults + 1
    /\ run' = [run EXCEPT ![<<m, mapper[m].no>>] = "FAILED"]
    /\ mapper' = [mapper EXCEPT ![m] = IdleMapper]
    /\ UNCHANGED <<worldVars, listing, item, snapshots, reviewer, looks, discipline>>

\* The process dies: the run stays RUNNING until the next one of its job.
Crash(m) ==
    /\ mapper[m].pc # "idle"
    /\ faults < MaxFaults /\ faults' = faults + 1
    /\ mapper' = [mapper EXCEPT ![m] = IdleMapper]
    /\ UNCHANGED <<worldVars, dbVars, reviewer, looks, discipline>>

----------------------------------------------------------------------------
(* Reviewers *)

\* _pending, and the listing the item leads to.
Consider(r, i) ==
    /\ reviewer[r].pc = "idle" /\ item[i].status = "PENDING"
    /\ MayBegin
    /\ reviewer' = [reviewer EXCEPT ![r] = [pc |-> "decide", of |-> i, copy |-> listing[i[1]], asked |-> item[i]]]
    /\ UNCHANGED <<worldVars, dbVars, mapper, looks, faults, discipline>>

Unlocked(key) == \A m \in Jobs : key \notin Locked(m)
Decided(asked, status, p) == [asked EXCEPT !.status = status, !.resolved = p, !.resolver = "PERSON"]
Released(r) == reviewer' = [reviewer EXCEPT ![r] = IdleReviewer]

\* approve, _approve_listing: another product over an approved one needs the
\* supersede flag of the request, which is the person's to give.
Approve(r, p) ==
    LET i == reviewer[r].of
        s == i[1]
        copy == reviewer[r].copy
        new == [copy EXCEPT !.product = p, !.status = "APPROVED", !.method = "MANUAL_APPROVAL", !.approver = "PERSON"]
    IN  /\ reviewer[r].pc = "decide"
        /\ Unlocked(i) /\ Unlocked(<<s, 0>>)
        /\ Allowed(Merge(listing[s], copy, new))
        /\ listing' = [listing EXCEPT ![s] = Merge(@, copy, new)]
        /\ item' = [item EXCEPT ![i] = Merge(@, reviewer[r].asked, Decided(reviewer[r].asked, "APPROVED", p))]
        /\ Released(r)
        /\ UNCHANGED <<worldVars, run, snapshots, mapper, looks, faults, discipline>>

\* reject: a listing's suggestion stays on the listing, only the item is closed.
Reject(r) ==
    LET i == reviewer[r].of IN
    /\ reviewer[r].pc = "decide"
    /\ Unlocked(i)
    /\ item' = [item EXCEPT ![i] = Merge(@, reviewer[r].asked, Decided(reviewer[r].asked, "REJECTED", None))]
    /\ Released(r)
    /\ UNCHANGED <<worldVars, listing, run, snapshots, mapper, looks, faults, discipline>>

\* The request ends without a decision: deferred, refused, or broken off.
Leave(r) ==
    /\ reviewer[r].pc = "decide"
    /\ Released(r)
    /\ UNCHANGED <<worldVars, dbVars, mapper, looks, faults, discipline>>

Next ==
    \/ \E s \in Skus : Relist(s) \/ \E p \in Products : Name(s, p) \/ Barcode(s, p)
    \/ \E m \in Jobs : \/ Start(m) \/ Fetch(m) \/ Map(m) \/ Queue(m) \/ Commit(m)
                        \/ Fail(m) \/ Crash(m)
                        \/ \E s \in Skus : Look(m, s)
    \/ \E r \in Reviewers : \/ \E i \in Items : Consider(r, i)
                             \/ \E p \in Products : Approve(r, p)
                             \/ Reject(r) \/ Leave(r)

Spec == Init /\ [][Next]_vars

----------------------------------------------------------------------------
(* Properties *)

Orderly == discipline = "ATOMIC"
Deciding == \E r \in Reviewers : reviewer[r].pc = "decide" /\ reviewer'[r].pc = "idle"
MappingOf(l) == <<l.status, l.product, l.method, l.approver>>

\* "An approved mapping is permanent ... not by this code, not by a later run"
\* (amazon_listings.py:17), AC-8.6: only a person's decision changes it.
ApprovedMappingsStay ==
    [][\A s \in Skus : Orderly /\ listing[s].status = "APPROVED" /\ ~Deciding
                         => MappingOf(listing'[s]) = MappingOf(listing[s])]_vars

\* A listing the system approved has the product NineYard names for its SKU, and
\* no barcode hit ever approves (amazon_listings.py:25-37).
SystemFollowsNames ==
    \A s \in Skus : Orderly /\ listing[s].approver = "SYSTEM" => named[s] = {listing[s].product}

\* The queue asks only what is open: an open item's listing has no approved
\* mapping, and no listing has two (matching.py:124, "likewise one open item").
\* (And the tables keep their types.)
OpenItemsAsk ==
    /\ TypeOK
    /\ \A i \in Items : item[i].status = "PENDING" =>
        /\ Orderly => listing[i[1]].status \in {"UNMAPPED", "PENDING"}
        /\ \A k \in Items : item[k].status = "PENDING" /\ k[1] = i[1] => k = i

\* A person declined what the listing still stands for: the product it suggests,
\* or a question without a suggestion.
Declined(i, l) ==
    /\ i.status = "REJECTED" /\ i.resolver = "PERSON"
    /\ IF l.status = "PENDING"
       THEN i.reason = "SUGGESTION_ONLY" /\ i.candidates = {l.product}
       ELSE i.reason # "SUGGESTION_ONLY"

\* A run that completes leaves every listing on sale mapped, in the queue, or
\* with what a person declined (map_listings; whether that is asked again is
\* AC-8.5, DeclinedStaysDeclined).
RunsLeaveNothingOut ==
    [][\A r \in Runs : \A s \in Skus :
         /\ Orderly /\ mapper[r[1]].read[s] = "ACTIVE"
         /\ run[r] = "RUNNING" /\ run'[r] \in {"COMPLETED", "COMPLETED_WITH_ERRORS"}
         => \/ listing'[s].status = "APPROVED"
            \/ \E n \in 1 .. MaxItems : \/ item'[<<s, n>>].status = "PENDING"
                                        \/ Declined(item'[<<s, n>>], listing'[s])]_vars

\* The same of the code as it is, whoever overlaps whom: AC-8.6.
ApprovedMappingsArePermanent ==
    [][\A s \in Skus : listing[s].status = "APPROVED" /\ ~Deciding
                         => MappingOf(listing'[s]) = MappingOf(listing[s])]_vars

\* "re-running the chain would re-queue a rejected suggestion unchanged
\* (AC-8.5)" (amazon_listings.py:357): what a person declined is not asked again.
DeclinedStaysDeclined ==
    \A s \in Skus : \A n \in 1 .. MaxItems - 1 :
        item[<<s, n>>].status = "REJECTED" /\ item[<<s, n + 1>>].status = "PENDING"
        => <<item[<<s, n>>].reason, item[<<s, n>>].candidates>>
               # <<item[<<s, n + 1>>].reason, item[<<s, n + 1>>].candidates>>
=============================================================================
