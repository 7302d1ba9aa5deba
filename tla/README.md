# Verification of the inventory backend

TLA+ models of the backend in `src/backend/app`, checked by TLC on small
instances and, where it says so, proved with TLAPS for every instance. Paths
below are relative to `src/backend/app` unless they begin with `src/`.

## 1. The system

The backend of one tenant collects inventory files from vendors, maps their
lines to catalogue products, keeps an availability history and a watchlist, and
compares that with sales data pulled from Amazon and with a NineYard catalogue.
It is a FastAPI process with PostgreSQL; jobs of an in-process scheduler and
command-line tools call the same services. All coordination goes through the
database: transactions at READ COMMITTED, unique and partial unique indexes,
check constraints, two advisory locks (mail intake, catalogue) and one locking
read: receiving known bytes locks their file row (`services/imports.py:121`), so
that two receipts of one file follow each other. Otherwise only what a
transaction has written is locked; there are no version columns and no queue.
Sessions are created with `expire_on_commit=False` (`db/session.py`), so an
object read once keeps its values through commits of its own and of other
sessions; only a rollback makes the session read again. An UPDATE carries the
columns that differ from that copy. Most of the hard behaviour below follows
from these three sentences.

| Component | State | Operations | Talks to |
|---|---|---|---|
| import receipt `services/imports.py` | `import_files`, retained objects | `receive_upload` | parsing, storage |
| import parsing `services/import_processing.py` | `import_jobs`, `import_job_rows` | start, chunk, reconcile, finish, fail | matching |
| matching `services/matching.py`, `matching/` | verdicts on rows, `vendor_products`, queue items | index, chunk, finish | review, snapshots |
| exception review `services/exceptions.py` | queue items, mappings, audit rows | approve, reject, defer | matching (by data only) |
| snapshots `services/snapshots.py` | snapshots, availability events | chunk, finish | watchlist (same transaction) |
| watchlist `services/watchlist.py` | entries and their history | add, remove, apply an event | snapshots |
| vendor mail `services/vendor_mail.py` | sources, cursor, deliveries | poll, discover, apply, retry, pause | import receipt and pipeline |
| Amazon runs and orders `services/amazon_runs.py`, `amazon_orders.py` | run rows, order lines | recover, open, fetch, upsert, close | client |
| Amazon listings and inventory `services/amazon_listings.py`, `amazon_inventory.py` | listings, queue items, snapshots | fetch, map, close | client, review queue, catalogue |
| NineYard sync `services/nineyard_sync.py` | sync runs, source records, products, numbers, barcodes | read pages, apply, close | client, catalogue |
| catalogue import `services/nineyard_catalogue_import.py` | products, numbers, barcodes | dry run, apply | the same catalogue |
| schema migrations `src/backend/alembic/versions` | the schema, and rows it cannot hold | upgrade, downgrade by one or all of eleven revisions | every table |
| velocity `services/sales_velocity.py` | velocity rows | compute | orders |
| profiles, vendors, products, users | configuration tables | CRUD | all |
| clients, extraction, readers, normalisation | none | calls and pure functions | |

`PROJECT.json` lists every component with its status and the hazards with their
lines. What each one has to guarantee:

* **Imports**: one live import per file and worksheet; no row lost, done twice or
  skipped whatever is interrupted; stage, counters and verdict that tell the
  truth; a finished import that stays finished.
* **Mappings**: only people map lines; what is asked is asked once and answered
  once; a decision stays.
* **Availability**: one event for every change, naming what changed; watch
  entries that agree with the stock.
* **Mail**: each message dealt with once, in order, by the right vendor, in a
  bounded number of attempts.
* **Amazon**: newest data wins, one run of a job at a time, failed runs change
  nothing, and what a person has mapped stays mapped.
* **Catalogue**: a product keeps its identity and the number it answers to
  whichever of its two writers comes last; a run leaves everything or nothing.
* **Schema**: each revision is one schema, whatever way led to it; a rollback
  loses nothing the old schema could hold.

The hard behaviours: two processes on one job (an upload request and the mail
intake both find it PENDING), work resumed after a crash between two commits,
stale session copies, writes computed from reads of another transaction, and
poll loops that must go on behind any single failure.

## 2. Modules

| Module | Of | Checked by | Proved |
|---|---|---|---|
| `StagedPipeline` | what an import promises (abstract) | refined | refined |
| `LaggingMirror` | what the orders job promises (abstract) | refined | refined |
| `SerialCatalogue` | what the catalogue's writers promise (abstract) | refined | refined |
| `ImportLifecycle` | receipt, parsing and the walks of the two later stages | `MCImportLifecycle` | `ImportLifecycle_proofs` |
| `MailedImports` | the intake's deliveries that drive and resume imports | `MCMailedImports` | |
| `ImportInvariant` | the inductive invariant of `ImportLifecycle` | on demand | same |
| `MappingReview` | matching chunks and reviewers' decisions | `MCMappingReview` | `MappingReview_proofs` |
| `Availability` | snapshots, events, watchlist | `MCAvailability` | `Availability_proofs` |
| `VendorMail` | the mail intake around the pipeline | `MCVendorMail` | `VendorMail_proofs` |
| `AmazonOrders` | the orders job and the run rows of the Amazon jobs | `MCAmazonOrders` | `AmazonOrders_proofs`, `AmazonMirror_proofs` |
| `AmazonListings` | the two jobs that map listings, and the reviewers | `MCAmazonListings` | `AmazonListings_proofs` |
| `NineyardSync` | the sync and the export, the catalogue's two writers | `MCNineyardSync` | `NineyardSync_proofs` |
| `SchemaTables` | the statements of all revisions | `MCSchemaMigrations` | |
| `SchemaMigrations` | the commands that execute them over rows in use | same | |

Each module has one action per transaction of the code: what a session reads
before a commit and what it writes with the commit are separate actions only
where the code has other work, or another transaction, in between. A worker's
record holds its program counter and the copies its session holds. Names
follow the code, and `PROJECT.json` maps every definition to its lines. An
operator marked *Mutant* is a plausible mistake: each property has one that
makes TLC find it violated.

**ImportLifecycle.** `worker[w]` is an upload request or an intake session;
`view` is its session copy of the job row and `Flushed` what an UPDATE computed
from that copy leaves in the table. `ReceiveKnown`/`StoreNew`/`RecordNew` are
`receive_upload` (known bytes, new bytes stored, new bytes recorded), `Start`
to `Fail` are `process_import_job`, the `Match`/`Snapshot` pairs the walks of
the later stages, `Complete` the end. Rows are described by how many chunks of
the file are done, since every walk goes through them in order. Matching and
snapshotting are resumable, parsing is not. Environment: processes die
(`Crash`), an operator closes a RUNNING job (`OperatorClose`, the runbook), a
retained object disappears (`LoseObject`).

**MailedImports.** What `apply_delivery` does around those stages: `Begin` takes a
delivery that is due (`repositories/vendor_mail.py:50`), `Take` receives its bytes
(or, when it is linked to a job already, goes on with that: `Continue`) and enters
the stages, `Work` is a step in them, `Settle` writes how it ended, with the
retry or the wait for a person that `services/vendor_mail.py:549-569` decide;
`TakeFails` is mail, a download or a rule that fails before there is a job. A
session that dies (`Die`) leaves its delivery RUNNING; a person may ask for a
retry (`RetryDelivery`). Requests and operators go on as in `ImportLifecycle`.
Each content is brought by one delivery, of a source of its own: order among
deliveries of a source and the link to a job are `VendorMail`'s, so `Continue` is
possible whenever there is a live job. Each of its steps is, for jobs and files,
one of `ImportLifecycle` or none, as long as no object is lost; so what is proved
of `ImportLifecycle` (section 5) holds of it.

**MappingReview.** The part `ImportLifecycle` leaves out of matching: a matcher
builds its index of approved mappings once (`StartMatching`), reads line, open
item and last rejection of a chunk (`ReadChunk`), writes them with verdict and
counters (`WriteChunk`, refused by the unique indexes and checks in `Refused`);
a reviewer opens an item (`Open`) and approves, rejects or defers. `Merge` is
the UPDATE of changed columns. `Outcome` keeps of the match engine which kind of
verdict a row gets: identifiers first, then the vendor's mapping, then a
suggestion.

**Availability.** `Build`, `Insert`, `Commit` are the statements of one chunk's
transaction: the previous snapshots are read in the first, the watch entries in
the second. `AskWatch`/`AddWatch` are the read and the INSERT of `add_watch`.
Several lines of a product, of one vendor or of several, share a watch entry.

**VendorMail.** A poll holds an advisory lock (`LockFree`), walks pages
(`FetchPage`, `Record`, `Checkpoint`), selects what is due (`Select`) and applies
it (`Begin` to `Result`); any error rolls the session back (`Forget`), which is
when it reads its rows again. The pipeline is cut down to the states the intake
tells apart; `Parse`, `Stage` stand for `ImportLifecycle`'s walks, whose failure
in the middle leaves a job PARSING or STAGED. The mail service, the clock,
operators' retries and pauses, and uploads by hand are the environment.

**AmazonOrders.** `Start` and `RecoverStaleRuns` are the read and the write of
`recover_stale_runs`, `OpenRun` claims the RUNNING row, `FetchReport` to
`CloseRun` are `run_orders_sync`; `ReadExisting` and `UpsertBatch` are the two
statements of a batch, inside one transaction whose rows stay locked (`Locked`,
`Waits`, `Deadlock`). `WriteFails` and `FetchFails` end in `FailRun`, which
itself may fail. A line is a version number; Amazon's report lists the lines
last changed in a window of days counted from the job's start, so a line that
changes during the job drops out of its later windows (`changed`). `Overdue`
is the passing of `amazon_run_timeout_minutes`.

**AmazonListings.** The inventory job and the listings job each have a RUNNING
slot of their own and map the same listings. A run is one transaction: `Fetch`
reads the report, `Look` resolves one listing from the products NineYard names
for its SKU and the barcodes of its reports, `Map` and `Queue` write the
listing and its item into the transaction's own rows (`mapper.rows`,
`mapper.items`, locked until `Commit`), `Fail` rolls back, `Crash` leaves the
run RUNNING. A reviewer reads an item (`Consider`) and decides on that copy
(`Approve`, `Reject`) or not (`Leave`). NineYard and Amazon change what is
looked at (`Name`, `Barcode`, `Relist`).

**NineyardSync.** A sync reads NineYard page by page while it changes
(`ReadItems`, `ReadSkus`, `Change`), takes the catalogue lock (`LockSync`) and
applies one item per step to a copy (`ApplyItem`); `Commit` writes the columns
that differ from what it read (`Merged`). An import plans without the lock
(`Review`), plans again under it (`LockImport`) and writes in one transaction
(`CommitImport`). `Fail`, `Crash` and `Abandon` may come at any point.
`sync.quiet` remembers that nothing changed remotely since the run began.

**StagedPipeline, LaggingMirror, SerialCatalogue** are the abstract
specifications: a few variables, no processes that crash and no tables. Each is
instantiated at the end of the module that implements it, with the mapping of
its variables; the runs take it as a `PROPERTY` and the proofs show it for every
instance. `LaggingMirror`: copies of changing records move towards their source
and not past it, what one store creates carries a label nothing else has, and a
pull that finishes has missed only what changed meanwhile. Its `Store` and
`Finish` are `CloseRun` of a window and of the last one, its `GiveUp` every
other end of a job; batches, row locks, run rows and timeouts are stutters.
`SerialCatalogue`: one sync with its draft, or one import with its file, at a
time, each on the catalogue the one before left; a draft changes item by item
and replaces the catalogue whole. Its draft is the `new` of the sync under the
lock. Reading pages, the dry run, run rows, records and SKUs are stutters, a
transaction that ends without a commit is `Discard`.

**SchemaTables, SchemaMigrations.** `SchemaTables` holds the statements of every
revision's `upgrade()` and `downgrade()` as records, in order. A statement is
executed as PostgreSQL would (`Execute`), refusing what the schema or the rows
do not allow; a command runs the statements of all revisions on its way in one
transaction (`alembic/env.py`) and commits or leaves everything. Between two
commands the application writes any of `SampleRows` that the schema of the day
accepts (`Write`): one row of each kind that some revision has to deal with.

How they compose: the modules of imports, review, availability and mail overlap on the job row. `ImportLifecycle`
has the job's whole life and abstracts from content, `MappingReview` and
`Availability` look into one stage each with the job reduced to its progress,
`VendorMail` runs jobs from the outside, and `MailedImports` extends `ImportLifecycle`
with the deliveries that decide how often an interrupted job is taken up again. `AmazonListings` has the run rows of
`AmazonOrders` with the recovery reduced to its effect, the queue of
`MappingReview` with listings for lines, and the identifiers of `NineyardSync`
as its changing world.

### Disciplines

`MappingReview`, `Availability`, `AmazonOrders` and `AmazonListings` check how much
of what the code promises depends on nobody overlapping. A variable
`discipline`, chosen at the start and never changed, keeps certain readers and
writers apart; the code has no such thing. Every property says under which
discipline it is stated:

| | `MappingReview` | `Availability` | `AmazonOrders` | `AmazonListings` |
|---|---|---|---|---|
| `FREE` | the code as it is | the code as it is | the code as it is | the code as it is |
| `ATOMIC` | no chunk or decision between another's read and write | | | no mapping or decision during another |
| `IMPORTS` | | no watchlist request during an import | | |
| `VENDOR` | | also one import of a vendor at a time | | |
| `SERIAL` | also no decision while a stage runs | one import at a time | | |
| `TIMELY` | | | no live run reaches the timeout | |

A property without a condition holds of every discipline its run looks at. The
disagreements of section 4 take the same property without its condition: the
difference is what the code is missing, not what the model leaves out.

## 3. Runs

All bounds are constants of the module; `None` is SQL NULL. Deadlock is not
checked: a system in which all imports are done, or the bounds are used up,
stops.

| Run | Instance | Shows |
|---|---|---|
| `import_api` | two upload requests, two vendors, a two-chunk workbook with a worksheet and a file with an invalid row, a crash, a lost object, an operator closing a live job | `OneImportPerSelection`, `RecordedIsRetained`, `CompletedIsFinal` |
| `import_intake` | `MailedImports`: a request and an intake session on the same bytes, a clean file of two chunks or one with an invalid row, any two of a death, another death, an operator closing a live job and a retry; two attempts, under fairness | `JobsTellTheTruth` (stage, counters, verdict, types), that the tables implement `StagedPipeline`, `WorkersReturn`, `InterruptedStagesRecover` |
| `review` | two imports, two matchers, a reviewer, a crash; files proposing, suggesting and ambiguous; all disciplines | `MappingsComeFromPeople`, `CountersReconcile`, `ApprovedLinesStayQuiet`, `DecisionsAreFinal`, `EveryVerdictIsQueued` |
| `availability_stock` | lines of one product at two vendors, one of them also without the product, two processes, a buyer, two entries, a crash; `IMPORTS`, `VENDOR`, `SERIAL` | `EventsTellTheirSnapshots`, `FinishedImportsAreObserved`, `EventsMatchTransitions`, `NoMissedStock`, `HistoryIsAChain` |
| `mail_intake` | three messages to the sources of two vendors, two pollers, any two faults | `AppliedInOrder`, `OneImportPerContent`, `AmbiguityIsNeverRouted`, `InterruptedImportsBlock`, `FreshnessIsEarned` |
| `mail_settle` | two messages with no file, one or two, valid or not, a crash and a failure, under fairness | `MailSettles` |
| `amazon_orders` | two lines, the scheduler and a command line, two windows, three runs, a fault or a crash; `FREE`, `TIMELY` | that the lines implement `LaggingMirror`, `JobsLeaveNothingOut`, `RunRecordsAreTrue` |
| `amazon_close` | one line, a fault and a crash, under fairness | `RunsClose` |
| `schema` | all revisions, by one or all the way, up and down; twelve kinds of rows in any combination | `SchemaIsTheRevisions`, `OnlyUnlinkedSkusBlock`, `OnlyUnholdableRowsGo`, `RollbacksKeepTheTrail` |
| `listings` | two SKUs, one run of the inventory job and two of the listings job, one change at NineYard or Amazon, a fault or a crash, a reviewer; `FREE`, `ATOMIC` | `SystemFollowsNames`, `OpenItemsAsk`, `ApprovedMappingsStay`, `RunsLeaveNothingOut` |
| `nineyard` | two items on two pages, a product older than the ids, two SKUs of which one has a stale id, the scheduler and a command line, an operator with an export, two runs, one change | `NumbersAreOwn`, `RunsAreWhole`, `IdentitiesSurviveSyncs`, `QuietRunsCatchUp`, that the catalogue implements `SerialCatalogue` |
| `import_completed_final` | a request and an intake session, one file | the first disagreement of section 4 |

Each type invariant is a conjunct of an invariant of its run: of
`JobsTellTheTruth`, `CountersReconcile`, `FinishedImportsAreObserved`, `OneImportPerContent`,
`RunRecordsAreTrue`, `OpenItemsAsk` and `RunsAreWhole`; in `SchemaMigrations`
`SchemaIsTheRevisions` says more than a type.

Four more configurations are kept beside the runs and reproduce disagreements of
section 4: `MappingReview_repoint.cfg`, `Availability_vendor_race.cfg`,
`SchemaMigrations_rollback.cfg` and `AmazonListings_declined.cfg`. TLC ends each
of them with a counterexample.

Why the bounds are enough to be interesting: every race here is between two
parties over one row, so two requests, two matchers or two workers and one
object they share are the smallest instances with all interleavings; a third
import or message gives an "earlier", a "current" and a "later". Two chunks are
the fewest between which something can happen to a walk, and two pages the
fewest between which a catalogue can shift. `VendorMail`'s five
kinds of faults are bounded singly and together (`MaxSpent`), so that every pair
of faults meets. `import_intake` has two attempts where the code has five:
what must be true within two is harder. One file comes up in a behaviour, either
of the two, with two jobs for it; deliveries of different files meet in
`VendorMail`. Its deaths, close and retry are bounded singly and together
(`MaxTroubles`), and among its states are deliveries that resume a job left
half-way through MATCHING, and through SNAPSHOTTING. `listings` has two SKUs because a transaction that has written
one of them and waits for the other is the smallest deadlock, and a second run
of one job because only a later run can undo or repeat what a reviewer decided.
`schema` has no bound but the kinds of rows: its revisions are the code's. The
thirteenth kind, a user, meets no other and is left to on-demand runs. Passing
runs fire every action. `FREE` of `Availability` has
buyers in the middle of imports, which only matters to properties that are
stated for `SERIAL`; it is left to the disagreements of section 4.

### Fairness

* `ImportLifecycle!FairSpec`: a running process goes on (`WF` of its step).
  Nobody is obliged to upload, crash or intervene.
* `MailedImports!MailedSpec` adds the poll: the scheduler begins deliveries that
  are due (`WF` of `Begin`; `jobs/vendor_mail.py`, an interval trigger), and a
  session that lives goes on (`WF` of `Take` or `TakeFails`, and of `Work` or
  `Settle`). No message, retry or repair is owed, and attempts are counted: a
  delivery is tried again after an error only while attempts are left, and
  anything but an `IntakeError` that allows it waits for a person.
  `InterruptedStagesRecover` is nevertheless true because a delivery whose process
  died is RUNNING, which is due whatever its attempts
  (`repositories/vendor_mail.py:59`), and because a job at MATCHING or SNAPSHOTTING
  is gone on with at once, so that no attempt is spent on finding it interrupted.
  The property says no more: the job is finished, or its delivery waits
  for a person for another reason (a failed download, an inactive profile, an
  error of the database). It is about jobs whose delivery is due: one an upload
  request left behind without a delivery is nobody's, and one whose process died
  inside PARSING is not recovered at all (section 4).
* `VendorMail!FairSpec`: the scheduler starts polls again and again
  (`jobs/vendor_mail.py`, an interval trigger with one instance), a poll takes
  its steps, back-offs pass. Failures and crashes are bounded, deliveries are not
  assumed to succeed.
* `AmazonListings`, `NineyardSync` and `SchemaMigrations` assume none. What they say
  of progress is said of a run that commits (`RunsLeaveNothingOut`,
  `QuietRunsCatchUp`).
* `AmazonOrders!FairSpec`: the job is started again and again (an interval
  trigger), `fetch_report` ends after its `timeout_s` at the latest, the database
  ends one of two upserts that wait for each other, and time passes
  (`WF` of `Overdue`).

## 4. Where the code and its documents disagree

Shown by a run:

* **A completed import is reopened** (`import_completed_final`). Two processes
  read the job PENDING, each passes the guard of `process_import_job`
  (`services/import_processing.py:94`) on its own copy, and nothing claims the
  row. One of them completes the import; then the other one's `_start` (`:424`)
  writes RUNNING and PARSING over COMPLETED, which is where TLC's trace ends. What
  follows is the INSERT of rows that are there already: it is refused, and
  `fail()` (`:458`) closes the job FAILED, which frees the file for a second import.

Shown by the configurations kept beside the runs:

* **A mapping nobody approved** (`MappingReview_repoint.cfg`). A chunk that read
  the line before an approval writes its own product afterwards, the approval's
  status stays: the line is APPROVED to the matcher's product
  (`services/matching.py:418`).
* **A watch entry misses stock** (`Availability_vendor_race.cfg`). One vendor's
  line goes out of stock while another's comes in; each transaction sees the
  other's old state and the entry ends OUT_OF_STOCK (`services/watchlist.py:272`).
* **A rollback that fails** (`SchemaMigrations_rollback.cfg`). The downgrade of
  `3de5c4e5def0` says that rows the old check cannot hold "are deleted first,
  deliberately and loudly" (line 33, and `src/docs/database-schema.md:756`), but
  restores the old check before it deletes them (line 197): an Amazon SKU that
  NineYard named before its listing was seen makes the command fail, and the
  database stays where it was.
* **A declined suggestion is asked again** (`AmazonListings_declined.cfg`).
  `reject()` closes the item and leaves the listing as it is
  (`services/exceptions.py:218`), so the next run queues the same question,
  which `services/amazon_listings.py:357` says must not happen (AC-8.5).

Met while modelling, reproducible with the same modules, without a configuration
of their own:

* Imports: a process that dies while parsing leaves a RUNNING job that nothing
  takes up, only the runbook closes it; a process whose job was closed by an
  operator goes on and may complete it or leave it FAILED with a stage; after
  such a close two imports of one file can be live until one of them ends; so can
  they without any close, when a request and the intake both took the job up
  PENDING, one of them failed it, a new import of the file was begun, and the
  other one's start writes RUNNING over FAILED before the new one starts; and
  when an upload request has taken a file with error rows beyond MATCHING, the
  intake no longer holds it (`services/vendor_mail.py:413`).
* Review: two reviewers who opened the same item both decide, and the second
  replaces an approved mapping without a supersession
  (`services/exceptions.py:280`); an approval between two chunks is lost from the
  job's counters (`services/matching.py:206`); after a rejection the same evidence
  leaves the line PENDING with no item (`:419`); a row without a vendor SKU is
  queued again after its rejection, and twice when its job is walked again
  (`:440`, `:478`). `DecisionsAreFinal` is therefore stated for `ATOMIC` and
  `SERIAL`, `CountersReconcile` for `SERIAL`.
* Availability: overlapping imports of one vendor raise the same transition
  twice or miss one (`services/snapshots.py:202`); an import that commits between
  a new watch's look at the snapshots and its INSERT is never heard of
  (`services/watchlist.py:128`); a line already available when it gets its
  mapping raises no event (`services/snapshots.py:236`); AVAILABLE, UNKNOWN,
  OUT_OF_STOCK raises none either, and the entry stays IN_STOCK (`:111`); a line
  mapped to another product still supplies the old one
  (`repositories/inventory.py:325`); an interrupted older import that is resumed
  becomes the line's latest snapshot (`:78`); two imports that see the same
  status both record the change (`services/watchlist.py:299`).
* Mail: a hand upload that ended COMPLETED_WITH_ERRORS is not seen by the check
  for newer content (`services/vendor_mail.py:527`), and one that completes after
  that check is not either, which is why `FreshnessIsEarned` leaves uploads out;
  a source paused after the queue was selected is still applied (`:447`); a retry
  with the current profile asked for while its delivery is queued imports with
  the old one (`:459`), and because the row then names no import while the
  session's copy still does, and an UPDATE writes only what changed, the delivery
  may end COMPLETED without naming the import it applied; a message whose attachments cannot be listed stops every
  later poll at its page (`:619`), so `MailSettles` is checked with readable
  messages.
* Amazon orders: a run that outlives its timeout is closed as FAILED, its
  successor starts beside it, both count the same new lines as created and the
  first one's own close writes COMPLETED over FAILED
  (`services/amazon_runs.py:102`, `services/amazon_orders.py:519`), though
  `services/amazon_orders.py:355` calls a second writer impossible; likewise a
  recovery that read the run before it closed writes FAILED over COMPLETED.
  `RunRecordsAreTrue` is therefore stated for `TIMELY`. A line that changes
  between the start of a job and the report of its window is in no report of
  that job; the next job finds it, unless it changes again
  (`jobs/amazon.py:61`).
* Amazon listings: `ApprovedMappingsArePermanent` fails under `FREE`: a run that
  read a listing before a reviewer approved it writes its own columns over the
  decision, against AC-8.6 (`src/docs/acceptance-criteria.md:115`,
  `services/amazon_listings.py:17`).
* NineYard: an item that vanishes is not deactivated (AC-3.5), and no audit row
  names a changed field (AC-3.3); a run whose process died stays RUNNING for
  ever; one clash of names fails the whole sync, and every later one until
  somebody renames; nothing keeps two syncs from running, and the lock is taken
  after the pages are read, so the one that read first may apply last; a SKU
  keeps the first product it is given.

## 5. Proofs

`ImportLifecycle_proofs` proves, for any number of workers, jobs, files and
chunks, and any number of crashes, closes and losses: type correctness,
`CompletedIsWhole`, `StageTellsTheTruth`, `CountersMatchRows` (together
`JobsTellTheTruth`, which the run checks), and that
`ImportLifecycle` implements `StagedPipeline`. The assumptions are those of the
module: `None` is no vendor, content or worksheet; the bounds are naturals; a
file has a natural number of chunks.

None of the properties is inductive by itself. A worker acts on a copy it read
long ago, so that a completed job is whole depends on what every worker may take
for granted at the point where it stands: `WorkerOK` says that, `JobOK` what the
tables hold for a job whoever wrote it. The argument in one paragraph: progress
(`rows`, `matched`, `snapped`) only grows, so "at least so many chunks are done"
survives every step of others, and a worker's position in a walk is backed by
the table. What does not survive is "exactly so many": two processes may parse
the same job. The unique row index lets only one of them insert the first chunk
and the others fail on it, so beyond the first chunk there is one parser
(`OneParser`), and its counters, computed from its copy, are the table's. Stale
copies are harmless for the other columns because an UPDATE writes a column only
if the worker changed it, and each of those columns is changed to a value that
`IInv` justifies at that point.

The proof has one lemma per action (`StartIInv` ... `ReceiveKnownIInv`), each on
frame lemmas (`SaveRow`, `GotoWorker`, `OthersOK`, `OneParserKept`,
`RowRewritten`) that say what rewriting one job row or one worker leaves of the
rest; `StepIInv` joins them, the theorems follow by PTL. The refinement
(`StepSimulates`) maps a chunk written to the abstract step and everything else
to stuttering; that the abstract guards hold is again `IInv`.

`RecordedIsRetained` is proved without a condition: what is recorded, or about to
be by a process between its two transactions, has its object (`Retained`).
`OneImportPerSelection` and `CompletedIsFinal` are false when a request and an
intake drive the same job (section 4), so their theorems name the hypothesis
that excludes it, `OneDriver`, which is about the deployment and not about a
run: either there is no mail intake, or there is one and uploads are not
processed by the request that brings them (`import_process_on_upload` off; any
number of requests may record files). The invariant `DriverInv` is that then no
two processes are engaged with one job, and that the job a process is engaged
with has neither completed nor, as long as no operator has closed any, failed.
A process that crashes leaves its job without a driver, and the intake may take
it up again: the theorems are about any number of crashes and losses.
`CompletedIsFinal` also holds while operators close jobs under live processes;
`OneImportPerSelection` is stated up to the first such close, since what it says of
two jobs (`SelectionsApart`) is false afterwards.

`Availability_proofs` proves the five properties of its run for any vendors,
lines, products, entries, files, chunk sizes, processes, buyers and crashes, in
three layers. The assumptions are the module's: bounds are naturals, a chunk has
a row, and a file that may be imported has distinct lines of one vendor. `Sound`
holds however imports overlap: a snapshot is the observation of one row of its
job's file and there is one per line and job, what lies behind a walk's position
is there, a chunk in hand covers its rows, captures of a line are at different
times, and of two chunks that would insert the same row the second waits for the
first (`CommitFits`). `Vendorwise` adds, for one import of a vendor at a time, that
the previous snapshots a chunk has read are still the latest of their lines when
it commits (`ChunkIsCurrent`), so that an event is raised exactly where `Told`
compares two neighbours of the history. `Serialwise` adds, for imports one after
the other, that entries agree with the stock: if a line at the entry's vendor shows
the product available, and was that product whenever it was available, the entry is
IN_STOCK (`EntryFits`), and so are a request
about to insert one (`RequestFits`) and what a chunk is about to make of one
(`MovesFit`). The step that needs thought is a chunk with lines that come and go:
the entry's status is worked out from the events and from the other lines'
latest snapshots, and a line the chunk says nothing of, or that was available
before and still is, has raised no event; it was in stock before and therefore is
now. `LatestOf` picks a snapshot with `CHOOSE`; the lemmas on it rest on the
distinct capture times of `Sound`.

`AmazonOrders_proofs` proves `NeverRegresses` for any lines, processes, windows,
batch sizes and faults, jobs overlapping as they please. The comparison in the
upsert alone does not give it, because the row that is compared is not the row
that is overwritten at the commit. The invariant `Guarded` adds what the locks
are for: no two transactions have written the same line, and what one has
written is at least as new as the row stored, with the same first run. Upserts
establish it for a batch (`UpsertGuarded`), a commit keeps it for the others
because it only replaces rows they have not written (`CloseGuarded`), and
everything else keeps or discards uncommitted rows (`OtherSteps`). Its
assumptions are those of the module: finitely many lines, and bounds, windows
and batches that are numbers.
The same module proves `RunRecordsAreTrue`, which is stated for `TIMELY`. What a
run counts is an exact partition of its report (`CountedOnce`): lines to come,
lines of the batch in hand, and lines written, split into those the transaction
was the first to see and the others. That "new" is decided by a read and counted
after a write is harmless because one live run at a time claims the slot and,
while none is declared dead, nobody else inserts in between; so at the close the
created count is the number of stored lines that name the run as their first.
`JobsLeaveNothingOut` is proved without `TIMELY`, for jobs that overlap and
overtake each other. `WindowFacts` says what the division into windows promises:
the first begins with the trailing days, each next one where the one before ends,
the last one ends now. `Behind` says that nothing stored, reported or written is
ahead of Amazon. `Covered` follows the lines Amazon has left alone since the
job's `now`: those of the windows before are stored as Amazon has them, those of
the window at work are in the report and still to do, or among the uncommitted
rows. A line that another job stores meanwhile cannot be newer (`Behind`) and
cannot go back (`Guarded`), so what one window has covered stays covered.

`AmazonMirror_proofs` proves that the module implements `LaggingMirror`
(`TableIsAMirror`), with no condition on how jobs overlap, die or outlive their
timeout. `NeverRegresses` and `JobsLeaveNothingOut` say parts of it; the whole
also says that what is stored never passes Amazon, that nothing but the commit
of a window moves it, and that the lines a commit creates belong to one run and
to no run before. The last is why the invariant of the other proofs is not
enough: `MirrorInv` adds `Named`, that a busy job writes in the name of a run
no other busy job has and no stored line bears, and that what it has locked
bears either the name of the stored line or its own. A run row whose job was
declared dead may be closed twice, but it is never claimed twice (`OpenRun`
takes an unused one), which is what keeps `Named`. `NextMirrors` goes through the
actions: `Change` is `SourceMoves`, a job's start `Begin`, `CloseRun` `Store` or
`Finish` (with `NothingIsLeftOut`'s `Covered` for the guard of `Finish`), every
other end `GiveUp`, the rest stutters.

`MappingReview_proofs` proves every property its run checks. The argument has
three layers, one for each discipline. `Sound` (theorem `ReferencesHold`) holds
of all behaviours: every row, item and open session refers to what exists.
`OrderlyInv` adds for `ATOMIC` and `SERIAL` that a chunk or a decision in hand is
current (`ChunkIsCurrent`, `DecisionIsCurrent`) and that every approved line, and
every row matched by vendor SKU, has a decision on record (`OnRecord`, also for
the entries of every index a matcher built before); `MappingsComeFromPeople`
is a part of it, and the action properties `DecisionsAreFinal` and
`EveryVerdictIsQueued` follow step by step. `SerialInv` adds for `SERIAL` that
indexes are current, a line has one open item at most, and that the counters of
a job count the rows of the prefix that is walked: a chunk adds one row to the
prefix (`Cardinality` of the rows up to `n`), a decision moves rows from one
count to the other. `CountersReconcile` and `ApprovedLinesStayQuiet` follow. The
exception in the latter is the code's: a row of an approved line whose
identifiers name two products, or another product than the mapping, opens an
item all the same (AC-8.4 with conflicts).

`VendorMail_proofs` proves the five safety properties of the run `mail_intake`
for any sources, mailbox, page size, and number of polls, crashes, retries,
pauses and uploads. They are proved together, because each supports another. The
advisory lock gives one poller at work (`OneAtATime`); everything else about the
poller says what its session may rely on although it reads, applies and links in
different transactions: the import in hand is of the source's feed and still
the one the row names, or the row names none (`EntryOK`, `HandOK`), no other
delivery of the source has an unfinished import while one is being linked, and
the import that is about to be reported is the last one its feed completed
(`Leads`). Of the tables, `OneLiveJob` and `CompletionsOK` number the imports in
the order they complete, which is what `AppliedInOrder` compares.

`AmazonListings_proofs` proves the four properties of the run `listings` for any
listings, products, runs, reviewers and faults. `Sound` holds of every
behaviour: rows a transaction has written are locked until it ends
(`ItemsLocked`), an item it opens is the next one of a listing with nothing open
(`Fresh`), hence no listing ever has two open items. For orderly behaviours
`InOrder` says that what a session read is what is there when it writes
(`MapperCurrent`, `ReviewerCurrent`), what it has written and not committed
follows NineYard's names and keeps approved mappings (`Follows`, `Keeps`), asks
only about listings that are not approved (`Asks`, with the one exception of a
listing whose own open item the transaction is about to close, `Answering`), and
leaves no listing of the report behind (`Accounted`). `RunsLeaveNothingOut` says
less than that: what a person declined need not be asked again, which is AC-8.5;
that the code asks it again all the same is `AmazonListings_declined.cfg`.

`NineyardSync_proofs` proves `NumbersAreOwn`, `RunsAreWhole` (and with it type
correctness), `IdentitiesSurviveSyncs` and `QuietRunsCatchUp` for any items, products, exports,
processes, page size and number of runs. The assumptions are the module's:
the items are finitely many and have different places in NineYard's list, what may be read and
imported is of its type, and the bounds are numbers. That a product keeps its
identity is a fact about a commit, and a commit writes what differs from a copy
made when the lock was taken. The invariant `IInv` says why that copy can be
relied on: the lock admits one writer (`Alone`), therefore the copy a writer
holds is still the catalogue (`WriterOK`), and what it is about to write follows
from the copy by steps that keep a product's id, number, barcodes and mark.
With that, the UPDATE of changed columns is the new row (`MergedIsNew`).
`ItemKeeps` shows it of an item, `ImportKeeps` of an export, whose plan is made
again under the lock and therefore about the catalogue it changes. The rest of
`IInv` is bookkeeping: the catalogue gives a number or an id to one product
(`CatalogueOK`), the counts of a run add up (`RunsOK`), and a run that has not
committed has left nothing (`Recorded`). `SyncStep` and `OperatorStep` are the
frame: what the step of one process leaves of the others.
`QuietRunsCatchUp` needs what a process has read while nothing changed
(`ReadOK`): the SKUs that are listed, of the pages before its own every item, and
of an item no longer in hand either that it cannot be read or that the catalogue
in the making and the records have it (`Applied`). That the pages cover the list
is a fact about counting: the places of the items are the numbers from 1 on
without a gap (`PlacesAreFilled`), so an empty page, or one that reaches the
total, has nothing behind it (`LastPageIsLast`). That applying one item does not
undo another is `ItemIsApplied`: the only product it touches is the item's own
or a blank one. The run `nineyard` checks these properties on its instance; `IInv`
and `ReadOK` were checked there too.

`CatalogueIsSerial` proves that `NineyardSync` implements `SerialCatalogue`. It is
`IInv` that makes it true: because the lock admits one writer (`Alone`) there is
one draft or one file at most (`SyncAtWork`, `OperatorAtWork`), and because the
writer's copy is the catalogue, the UPDATE of changed columns writes the draft,
or the export as applied to the catalogue of the moment (`CommitWrites`,
`CommitImportWrites`). An import is planned again under the lock, which is the
guard of `BeginImport`; without that (the mutant of `SerialSpec`) a file is
applied that the catalogue can no longer take. `Described` is the strengthening:
what a process has in hand is something NineYard may have said, and the export
one of the files, since the abstract writers know of nothing else. `SerialMoves`
states what each abstract step needs in terms of the processes' states; the
action lemmas (`SyncIsSerial`, `ImportIsSerial`) provide it.

Only model-checked: `OneImportPerSelection` and `CompletedIsFinal` where a request
and an intake may drive one job (false, section 4); everything of
`SchemaMigrations`, which interprets a fixed list of statements by a recursive
function over it: its instance is the code, and a theorem would not say more
than the run; and what must eventually happen (`WorkersReturn`,
`InterruptedStagesRecover`, `MailSettles`, `RunsClose`), because fairness is out of
the prover's reach. `NeverRegresses` and the parts of `JobsTellTheTruth` are
proved and repeated by no run of their own.

## 6. What is not modelled

* Costs, quantities, ceilings, titles: no property is about them yet.
* Rules of a mail source, vendors and profiles do not change between the
  discovery of a message and its application, apart from pausing a source.
* Uploads by hand in `VendorMail` are whole imports.
* Database deadlocks outside `AmazonOrders` and `AmazonListings`: they abort a
  transaction, which is a crash between two commits as far as those models are
  concerned.
* The parsing of Amazon's reports, and rows of them that do not parse: they are
  dropped, and a run that only differs by them ends COMPLETED_WITH_ERRORS.
* `AmazonListings`: a report names a SKU once, the system user that approves
  exists, `Map` joins the statements that write one listing, and deferring an
  item is left to `MappingReview`. Quantities of the inventory report are
  written and read by nothing the properties are about.
* `NineyardSync`: catalogue numbers are taken up to their case, titles in an
  export are not empty, and the export's own source records and its stored copy
  are left out. Retries inside one request of the client are not steps.
* `SchemaMigrations`: plain columns, format checks and indexes that only serve
  speed; no later statement depends on them.
* Alternating evidence over three imports and two decisions
  (`services/matching.py:315`), and two mail sources of one worksheet, which are
  not ordered against each other (`services/vendor_mail.py:477`).
* Operations that are one transaction each, decided by a unique index, and have
  no state of their own in between: profiles, vendors and the roster.
* Pure functions that the repository tests by tables: extraction and profile
  rules, sales velocity, the scores of the match engine. The clients' requests
  and retries are calls; the models take what they return or raise.
* Components that are pure I/O, reads or presentation: frontend, read API,
  authentication, configuration, logging, deployment.

## 7. Plan

1. Done: all modules of section 2, model-checked; proofs of every property their
   runs check and of the three refinements, liveness and `SchemaMigrations` apart.
2. `MatchEngine`: the rule chain, candidates and normalisation as operators,
   against a reference definition; `MappingReview!Outcome` as its abstraction.
3. `ImportProfiles`, `Vendors`: version numbers and unique names under concurrent
   edits. Pure rules: extraction, velocity windows.
