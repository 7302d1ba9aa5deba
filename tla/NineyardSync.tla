----------------------------- MODULE NineyardSync -----------------------------
(***************************************************************************)
(* The catalogue and its two writers.  A sync (services/nineyard_sync.py,  *)
(* run by the scheduler or by hand) reads NineYard page by page, then      *)
(* applies what it has read in one transaction; an operator imports a      *)
(* Products export (services/nineyard_catalogue_import.py).  NineYard      *)
(* changes while it is read, and both writers take the tenant's advisory   *)
(* lock before they read the catalogue they are about to change.           *)
(*                                                                         *)
(* Catalogue numbers are taken up to their case.  An item's id is a number *)
(* too: a product the API gave no name carries it.                         *)
(***************************************************************************)
EXTENDS Integers, FiniteSets

CONSTANTS
    Items,          \* NineYard's item ids
    Position,       \* item -> its place in NineYard's list
    Legacy,         \* products from before the external ids
    LegacyNumbers,  \* and the numbers they may carry
    Names,          \* catalogue numbers that are not item ids
    Barcodes,
    Skus,           \* seller SKUs
    Payloads,       \* item -> what NineYard may say of it, see PayloadTypes
    Mappings,       \* sku -> what it may say of it: its items, or {None} if the id is stale
    Exports,        \* export files: sets of rows
    None,
    PerPage,        \* items of a page
    Syncs,          \* processes that sync: the scheduler and the command line
    Operators,      \* people with an export
    MaxRuns,        \* bound: sync runs
    MaxChanges      \* bound: changes at NineYard and Amazon

Numbers == Names \union Items
Products == Items \union Legacy     \* a product an item brought about is named by it
PayloadTypes == [state : {"LIVE", "DELETED", "BROKEN"}, name : Numbers, upc : Barcodes \union {None}]
Rows == [item : Items, number : Numbers, upcs : SUBSET Barcodes]
Runs == 1 .. MaxRuns

ASSUME OrderAssumption ==
    IsFiniteSet(Items) /\ Position \in [Items -> Nat] /\ \A i, j \in Items : Position[i] = Position[j] => i = j
ASSUME DataAssumption ==
    /\ LegacyNumbers \subseteq Numbers
    /\ Payloads \in [Items -> SUBSET PayloadTypes] /\ Exports \subseteq SUBSET Rows
    /\ Mappings \in [Skus -> SUBSET ((SUBSET Items) \union {{None}})]
    /\ None \notin Numbers \union Barcodes \union Products /\ Items \intersect Legacy = {}
ASSUME BoundsAssumption == PerPage \in Nat \ {0} /\ MaxRuns \in Nat /\ MaxChanges \in Nat

VARIABLES
    remote,     \* NineYard: item -> its payload, or None
    mapped,     \* NineYard: sku -> the items it holds; {None} if the id is stale
    listed,     \* seller SKUs with an active Amazon listing
    product,    \* products
    sku,        \* product_identifiers AMAZON_SKU: sku -> product or None
    records,    \* source_records: [item, payload, run]
    run,        \* nineyard_sync_runs
    sync,       \* what each sync process is doing
    operator,   \* what each operator's import is doing
    changes

worldVars == <<remote, mapped, listed, changes>>
catalogue == <<product, sku, records>>
vars == <<worldVars, catalogue, run, sync, operator>>

\* numbers and upcs are the active identifiers; seen tells whether a sync has
\* met the product; attributes holds what the API says besides, and the mark of
\* an export.  A payload's name stands for all of its words.
NoProduct == [ext |-> None, number |-> None, title |-> None, active |-> FALSE, seen |-> FALSE,
              attributes |-> [api |-> None, export |-> FALSE], numbers |-> {}, upcs |-> {}]
NoRun == [status |-> "ABSENT", seen |-> 0, created |-> 0, updated |-> 0, unchanged |-> 0, removed |-> 0, failed |-> 0]
NoCatalogue == [p \in Products |-> NoProduct]
IdleSync == [pc |-> "idle", no |-> 0, skus |-> {}, page |-> 1, items |-> {}, pages |-> {}, maps |-> {},
             copy |-> NoCatalogue, new |-> NoCatalogue, records |-> {}, run |-> NoRun, quiet |-> TRUE]
IdleOperator == [pc |-> "idle", export |-> {}, copy |-> NoCatalogue]

ProductRows == [ext : Items \union {None}, number : Numbers \union {None}, title : Numbers \union {None, "EXPORT"},
                active : BOOLEAN, seen : BOOLEAN, attributes : [api : Numbers \union {None}, export : BOOLEAN],
                numbers : SUBSET Numbers, upcs : SUBSET Barcodes]
Catalogues == [Products -> ProductRows]
RecordRows == [item : Items, payload : PayloadTypes, run : Runs]
RunRows == [status : {"ABSENT", "RUNNING", "COMPLETED", "COMPLETED_WITH_ERRORS", "FAILED"}, seen : Nat,
            created : Nat, updated : Nat, unchanged : Nat, removed : Nat, failed : Nat]
SyncRows == [pc : {"idle", "items", "skus", "lock", "apply"}, no : Runs \union {0}, skus : SUBSET Skus, page : Nat,
             items : SUBSET [page : Nat, item : Items, payload : PayloadTypes],
             pages : SUBSET SUBSET [item : Items, payload : PayloadTypes],
             maps : SUBSET (Skus \X SUBSET (Items \union {None})),
             copy : Catalogues, new : Catalogues, records : SUBSET RecordRows, run : RunRows, quiet : BOOLEAN]
OperatorRows == [pc : {"idle", "lock", "apply"}, export : SUBSET Rows, copy : Catalogues]

TypeOK ==
    /\ remote \in [Items -> PayloadTypes \union {None}] /\ mapped \in [Skus -> SUBSET (Items \union {None})]
    /\ listed \subseteq Skus
    /\ product \in Catalogues /\ sku \in [Skus -> Products \union {None}] /\ records \subseteq RecordRows
    /\ run \in [Runs -> RunRows]
    /\ sync \in [Syncs -> SyncRows] /\ operator \in [Operators -> OperatorRows]
    /\ changes \in 0 .. MaxChanges

\* Legacy products carry a number and no external id.
Init ==
    /\ remote \in {R \in [Items -> PayloadTypes \union {None}] :
                     \A i \in Items : R[i] # None => R[i] \in Payloads[i] /\ R[i].state = "LIVE"}
    /\ mapped \in {M \in [Skus -> UNION {Mappings[s] : s \in Skus}] : \A s \in Skus : M[s] \in Mappings[s]}
    /\ listed = Skus
    /\ \E number \in [Legacy -> LegacyNumbers] :
         /\ \A p, q \in Legacy : number[p] = number[q] => p = q
         /\ product = [p \in Products |->
              IF p \in Legacy THEN [NoProduct EXCEPT !.number = number[p], !.numbers = {number[p]}, !.active = TRUE]
              ELSE NoProduct]
    /\ sku = [s \in Skus |-> None] /\ records = {} /\ run = [r \in Runs |-> NoRun]
    /\ sync = [p \in Syncs |-> IdleSync] /\ operator = [o \in Operators |-> IdleOperator]
    /\ changes = 0

----------------------------------------------------------------------------
(* The world outside *)

Change ==
    /\ changes < MaxChanges /\ changes' = changes + 1
    /\ \/ \E i \in Items : \E x \in Payloads[i] \union {None} : remote' = [remote EXCEPT ![i] = x] /\ UNCHANGED <<mapped, listed>>
       \/ \E s \in Skus : \E M \in Mappings[s] : mapped' = [mapped EXCEPT ![s] = M] /\ UNCHANGED <<remote, listed>>
       \/ \E s \in Skus : listed' = listed \ {s} /\ UNCHANGED <<remote, mapped>>
    /\ sync' = [p \in Syncs |-> [sync[p] EXCEPT !.quiet = FALSE]]
    /\ UNCHANGED <<catalogue, run, operator>>

----------------------------------------------------------------------------
(* Reading NineYard *)

There == {i \in Items : remote[i] # None}
Place(i) == Cardinality({j \in There : Position[j] <= Position[i]})
Page(n) ==
    {[item |-> i, payload |-> remote[i]] :
        i \in {j \in There : Place(j) > (n - 1) * PerPage /\ Place(j) <= n * PerPage}}

\* Mutant: the last page is left out.
LastPageEarly(n) == Page(n) = {} \/ (n + 1) * PerPage >= Cardinality(There)

\* totalPages, or an empty page.
LastPage(n) == Page(n) = {} \/ n * PerPage >= Cardinality(There)

\* Mutant: one stale id loses its whole batch.
MappingRecordsOfBatch(S) ==
    IF \E s \in S : mapped[s] = {None} THEN {} ELSE {<<s, mapped[s]>> : s \in S}

\* _mapping_records: a batch with a stale id is refused and split until the
\* stale ids are alone.
MappingRecords(S) == {<<s, mapped[s]>> : s \in {s \in S : mapped[s] # {None}}}

\* amazon_listing_skus, and the RUNNING row, committed by itself.
Start(p) ==
    /\ sync[p].pc = "idle" /\ listed # {}
    /\ \E r \in Runs :
         /\ \A k \in Runs : run[k].status = "ABSENT" <=> k >= r
         /\ run' = [run EXCEPT ![r].status = "RUNNING"]
         /\ sync' = [sync EXCEPT ![p] = [IdleSync EXCEPT !.pc = "items", !.no = r, !.skus = listed]]
    /\ UNCHANGED <<worldVars, catalogue, operator>>

\* iter_items: the next page.  A page seen before is refused.
ReadItems(p) ==
    LET me == sync[p] IN
    /\ me.pc = "items"
    /\ Page(me.page) \notin me.pages \/ Page(me.page) = {}
    /\ sync' = [sync EXCEPT ![p].items = @ \union {[page |-> me.page, item |-> y.item, payload |-> y.payload] : y \in Page(me.page)},
                            ![p].pages = @ \union {Page(me.page)},
                            ![p].page = @ + 1, ![p].pc = IF LastPage(me.page) THEN "skus" ELSE "items"]
    /\ UNCHANGED <<worldVars, catalogue, run, operator>>

\* iter_sku_mappings.
ReadSkus(p) ==
    /\ sync[p].pc = "skus"
    /\ sync' = [sync EXCEPT ![p].maps = MappingRecords(sync[p].skus), ![p].pc = "lock", ![p].pages = {}, ![p].page = 1]
    /\ UNCHANGED <<worldVars, catalogue, run, operator>>

----------------------------------------------------------------------------
(* The lock *)

Holds(a) == a.pc = "apply"

\* Mutant: the lock is not taken.
NoLockFree == TRUE

\* lock_catalogue: held until the transaction ends.
LockFree == (\A p \in Syncs : ~Holds(sync[p])) /\ \A o \in Operators : ~Holds(operator[o])

LockSync(p) ==
    /\ sync[p].pc = "lock" /\ LockFree
    /\ sync' = [sync EXCEPT ![p].pc = "apply", ![p].copy = product, ![p].new = product,
                            ![p].records = records, ![p].run = run[sync[p].no]]
    /\ UNCHANGED <<worldVars, catalogue, run, operator>>

----------------------------------------------------------------------------
(* Applying what was read *)

Exists(P, p) == P[p].number # None
Owner(P, e) == {p \in Products : P[p].ext = e}

\* _product_values on an existing product.
Synced(row, x) ==
    [row EXCEPT !.title = x.name, !.attributes.api = x.name, !.active = x.state = "LIVE", !.seen = TRUE]
Created(e, x) == Synced([NoProduct EXCEPT !.ext = e, !.number = x.name], x)

\* _ensure_identifier: a number another product answers to stays with it.
NumberEnsured(P, p) ==
    IF \E q \in Products \ {p} : P[p].number \in P[q].numbers THEN P
    ELSE [P EXCEPT ![p].numbers = @ \union {P[p].number}]
UpcEnsured(P, p, x) == IF x.upc = None THEN P ELSE [P EXCEPT ![p].upcs = @ \union {x.upc}]
Ensured(P, p, x) == UpcEnsured(NumberEnsured(P, p), p, x)

\* The product an item is applied to, and the run's counts with it.
Its(P, e) == IF Owner(P, e) = {} THEN e ELSE CHOOSE q \in Owner(P, e) : TRUE
RowOf(P, e, x) == IF Owner(P, e) = {} THEN Created(e, x) ELSE Synced(P[Its(P, e)], x)
ItemApplied(P, y) ==
    LET p == Its(P, y.item)
    IN  Ensured([P EXCEPT ![p] = RowOf(P, y.item, y.payload)], p, y.payload)
Counted(P, e, x, counts) ==
    LET counted == [counts EXCEPT !.seen = @ + 1, !.removed = IF x.state = "DELETED" THEN @ + 1 ELSE @]
        old     == P[Its(P, e)]
    IN  IF Owner(P, e) = {} THEN [counted EXCEPT !.created = @ + 1]
        ELSE IF [RowOf(P, e, x) EXCEPT !.seen = old.seen] # old THEN [counted EXCEPT !.updated = @ + 1]
        ELSE [counted EXCEPT !.unchanged = @ + 1]

\* The items come in the order in which they were read.
NextItem(me, y) ==
    /\ y \in me.items
    /\ \A z \in me.items : \/ z.page > y.page
                           \/ z.page = y.page /\ Position[z.item] >= Position[y.item]

\* _apply_snapshot, one item: a payload that cannot be read is counted and
\* passed over, a payload known from before is not recorded again.
ApplyItem(p) ==
    LET me == sync[p] IN
    /\ me.pc = "apply"
    /\ \E y \in me.items :
         /\ NextItem(me, y)
         /\ sync' = [sync EXCEPT ![p] =
               IF y.payload.state = "BROKEN"
               THEN [me EXCEPT !.items = @ \ {y}, !.run.seen = @ + 1, !.run.failed = @ + 1]
               ELSE [me EXCEPT
                      !.items = @ \ {y},
                      !.new = ItemApplied(@, y),
                      !.run = Counted(me.new, y.item, y.payload, @),
                      !.records = IF \E k \in @ : k.item = y.item /\ k.payload = y.payload THEN @
                                  ELSE @ \union {[item |-> y.item, payload |-> y.payload, run |-> me.no]}]]
    /\ UNCHANGED <<worldVars, catalogue, run, operator>>

\* A SKU of one item is named once, for the product of that item.
SkuNamed(P, named, maps) ==
    [s \in Skus |->
        LET of == {p \in Products : \E y \in maps : y[1] = s /\ Cardinality(y[2]) = 1 /\ P[p].ext \in y[2]}
        IN  IF named[s] # None \/ of = {} THEN named[s] ELSE CHOOSE p \in of : TRUE]

\* A transaction writes the columns it has changed, and its own identifiers.
Merged(copy, new) ==
    [p \in Products |->
        [c \in DOMAIN NoProduct |->
            IF c \in {"numbers", "upcs"} THEN (product[p][c] \union new[p][c]) \ (copy[p][c] \ new[p][c])
            ELSE IF new[p][c] = copy[p][c] THEN product[p][c] ELSE new[p][c]]]

\* uq_products_organization_id_catalog_item_number, ..._nineyard_item_id and
\* uq_product_identifiers_global_value.
Unique(P) ==
    \A p, q \in Products : p # q =>
        /\ P[p].number = P[q].number => P[p].number = None
        /\ P[p].ext = P[q].ext => P[p].ext = None
        /\ P[p].numbers \intersect P[q].numbers = {}

Commit(p) ==
    LET me == sync[p] IN
    /\ me.pc = "apply" /\ me.items = {}
    /\ product' = Merged(me.copy, me.new) /\ Unique(product')
    /\ records' = records \union me.records
    /\ sku' = SkuNamed(me.new, sku, me.maps)
    /\ run' = [run EXCEPT ![me.no] =
          [me.run EXCEPT !.status = IF me.run.failed > 0 THEN "COMPLETED_WITH_ERRORS" ELSE "COMPLETED"]]
    /\ sync' = [sync EXCEPT ![p] = IdleSync]
    /\ UNCHANGED <<worldVars, operator>>

\* Mutant: what the failed transaction wrote stays.
WrittenRecords(p) == sync[p].records

\* session.rollback before the run is marked.
RolledBack(p) == records

\* A failed request, a repeated page, a clash or a lost connection, at any time.
Fail(p) ==
    /\ sync[p].pc # "idle"
    /\ run' = [run EXCEPT ![sync[p].no] = [NoRun EXCEPT !.status = "FAILED"]]
    /\ records' = IF sync[p].pc = "apply" THEN RolledBack(p) ELSE records
    /\ sync' = [sync EXCEPT ![p] = IdleSync]
    /\ UNCHANGED <<worldVars, product, sku, operator>>

\* The process dies; nothing closes its RUNNING row later.
Crash(p) ==
    /\ sync[p].pc # "idle"
    /\ sync' = [sync EXCEPT ![p] = IdleSync]
    /\ UNCHANGED <<worldVars, catalogue, run, operator>>

----------------------------------------------------------------------------
(* The import of an export *)

\* read_catalogue_export: ids and numbers are unique in a file.
Structural(E) == \E x, y \in E : x # y /\ (x.item = y.item \/ x.number = y.number)

Named(P, n) == {p \in Products : P[p].number = n}
Target(P, x) ==
    LET own == Owner(P, x.item)
    IN  IF own # {} THEN own ELSE {p \in Named(P, x.number) : P[p].ext = None}

\* plan_catalogue_import: a number that is another product's, or a product that
\* carries the bare item id and nobody knows whose it is.
Conflict(P, x) ==
    \/ Owner(P, x.item) = {} /\ \E p \in Named(P, x.number) : P[p].ext # None
    \/ Target(P, x) = {} /\ \E p \in Named(P, x.item) : P[p].ext = None
    \/ Named(P, x.number) \ Target(P, x) # {}
    \/ \E p \in Products \ Target(P, x) : x.number \in P[p].numbers
Blocked(P, E) ==
    \/ E = {} \/ Structural(E)
    \/ \E x \in E : Conflict(P, x)
    \/ \E x, y \in E : x # y /\ Target(P, x) \intersect Target(P, y) # {}

\* Mutant: the old number goes on leading to the product.
RowImportedTwice(row, x) ==
    [row EXCEPT !.ext = x.item, !.number = x.number, !.title = "EXPORT", !.attributes.export = TRUE,
                !.numbers = @ \union {x.number}, !.upcs = @ \union x.upcs]

\* Old numbers are retired, barcodes only added; a new product stays inactive.
RowImported(row, x) ==
    [row EXCEPT !.ext = x.item, !.number = x.number, !.title = "EXPORT", !.attributes.export = TRUE,
                !.numbers = {x.number}, !.upcs = @ \union x.upcs]
Imported(P, E) ==
    [p \in Products |->
        LET of == {x \in E : IF Target(P, x) = {} THEN p = x.item ELSE p \in Target(P, x)}
        IN  IF of = {} THEN P[p] ELSE RowImported(P[p], CHOOSE x \in of : TRUE)]

\* The dry run an operator reviews before applying the file.
Review(o, E) ==
    /\ operator[o].pc = "idle" /\ ~Blocked(product, E)
    /\ operator' = [operator EXCEPT ![o] = [IdleOperator EXCEPT !.pc = "lock", !.export = E]]
    /\ UNCHANGED <<worldVars, catalogue, run, sync>>

\* Mutant: what the review found is not looked at again.
LockImportAsReviewed(o) ==
    /\ operator[o].pc = "lock" /\ LockFree
    /\ operator' = [operator EXCEPT ![o].pc = "apply", ![o].copy = product]
    /\ UNCHANGED <<worldVars, catalogue, run, sync>>

\* apply_catalogue_import plans again under the lock, so that a
\* review that is out of date is refused.
LockImport(o) ==
    /\ operator[o].pc = "lock" /\ LockFree
    /\ IF Blocked(product, operator[o].export)
       THEN operator' = [operator EXCEPT ![o] = IdleOperator]
       ELSE operator' = [operator EXCEPT ![o].pc = "apply", ![o].copy = product]
    /\ UNCHANGED <<worldVars, catalogue, run, sync>>

CommitImport(o) ==
    /\ operator[o].pc = "apply"
    /\ product' = Merged(operator[o].copy, Imported(operator[o].copy, operator[o].export))
    /\ Unique(product')
    /\ operator' = [operator EXCEPT ![o] = IdleOperator]
    /\ UNCHANGED <<worldVars, sku, records, run, sync>>

\* The operator gives up, or the command fails or dies.
Abandon(o) ==
    /\ operator[o].pc # "idle"
    /\ operator' = [operator EXCEPT ![o] = IdleOperator]
    /\ UNCHANGED <<worldVars, catalogue, run, sync>>

Next ==
    \/ Change
    \/ \E p \in Syncs : Start(p) \/ ReadItems(p) \/ ReadSkus(p) \/ LockSync(p) \/ ApplyItem(p) \/ Commit(p) \/ Fail(p) \/ Crash(p)
    \/ \E o \in Operators : LockImport(o) \/ CommitImport(o) \/ Abandon(o) \/ \E E \in Exports : Review(o, E)

Spec == Init /\ [][Next]_vars

----------------------------------------------------------------------------
(* Properties *)

\* A product answers to the number it carries and to no other, so that a number
\* an export has taken away leads nowhere (ADR 0017, nineyard_sync.py:274).
NumbersAreOwn ==
    \A p \in Products : Exists(product, p) =>
        /\ product[p].numbers \subseteq {product[p].number}
        /\ product[p].attributes.export => product[p].numbers = {product[p].number}

\* "Future API runs identify products by external ID and preserve business
\* numbers, master barcodes and export provenance" (ADR 0017): what a product
\* is known by is changed by an import alone, an external id and the product of
\* a SKU by nobody.
IdentitiesSurviveSyncs ==
    [][/\ \A p \in Products : Exists(product, p) =>
            /\ product[p].ext # None => product'[p].ext = product[p].ext
            /\ product[p].upcs \subseteq product'[p].upcs
            /\ product[p].attributes.export => product'[p].attributes.export
            /\ product'[p].number # product[p].number => \E o \in Operators : operator[o].pc = "apply" /\ operator'[o].pc = "idle"
       /\ \A s \in Skus : sku[s] # None => sku'[s] = sku[s]]_vars

\* AC-2.4, AC-3.6: a run leaves everything or nothing, and a completed run has
\* counted every record once (and the tables keep their types).
RunsAreWhole ==
    /\ TypeOK
    /\ \A r \in Runs :
        /\ run[r].status \in {"ABSENT", "RUNNING", "FAILED"} => \A y \in records : y.run # r
        /\ run[r].seen = run[r].created + run[r].updated + run[r].unchanged + run[r].failed
        /\ Cardinality({y \in records : y.run = r}) <= run[r].created + run[r].updated + run[r].unchanged

\* AC-2.3 and the isolation of stale ids (catalog.py:189): a run during which
\* nothing changes at NineYard or Amazon brings every item and every SKU of
\* one item into the catalogue.
QuietRunsCatchUp ==
    [][\A p \in Syncs :
         sync[p].pc = "apply" /\ sync[p].quiet /\ sync'[p].pc = "idle" /\ run'[sync[p].no].status \in {"COMPLETED", "COMPLETED_WITH_ERRORS"} =>
           /\ \A i \in Items : remote[i] # None /\ remote[i].state # "BROKEN" =>
                /\ \E q \in Products : product'[q].ext = i /\ product'[q].active = (remote[i].state = "LIVE")
                /\ \E y \in records' : y.item = i /\ y.payload = remote[i]
           /\ \A s \in listed : \A i \in mapped[s] \intersect Items :
                mapped[s] = {i} /\ Owner(product', i) # {} => sku'[s] \in Owner(product', i) \/ sku[s] # None]_vars

\* What NineYard may say of an item that can be read.
Readable == UNION {{[item |-> i, payload |-> x] : x \in {x \in Payloads[i] : x.state # "BROKEN"}} : i \in Items}

\* services/nineyard_identity.py:9: syncs and imports change the catalogue as if
\* each had it to itself, however their reads, transactions and deaths overlap.
Serial == INSTANCE SerialCatalogue WITH
    Descriptions <- Readable,
    Files <- Exports,
    FileApplied <- Imported,
    Refused <- Blocked,
    Sound <- Unique,
    catalogue <- product,
    drafts <- {[writer |-> p, is |-> sync[p].new] : p \in {p \in Syncs : Holds(sync[p])}},
    files <- {[writer |-> o, is |-> operator[o].export] : o \in {o \in Operators : Holds(operator[o])}}

SerialSpec == Serial!Spec
=============================================================================
