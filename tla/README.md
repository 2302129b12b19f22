# Formal models of the import backend

TLA+ modules, TLC configurations and TLAPS proofs for the FastAPI / SQLAlchemy / PostgreSQL
backend in `src/backend/app`. Paths below are relative to that directory unless they start with
`src/`. The program is a set of request handlers; each request has a database session of its own
(`api/dependencies/database.py`), handlers run concurrently in one event loop and in several worker
processes, and everything they share is in PostgreSQL (READ COMMITTED) and in a storage directory.
What can go wrong is therefore between two statements of a request: another request's commit, a
deletion, a crash, an error after a commit.

## 1. Inventory

| component | state | operations | hard behaviour |
|---|---|---|---|
| **Import jobs** `services/import_job.py`, `models/import_job.py` | `import_jobs`: status, three counters, two timestamps, message | `create`, `transition` (PATCH status), reads | PATCH checks a row read without a lock; the ORM writes only changed columns |
| **Import execution** `services/csv_import_execution.py` | the job, `imported_records`, `import_validation_issues` | `execute` | three transactions; `FOR UPDATE` claim; failure report that must not mask the error; deletion and cancellation in the middle |
| **CSV reading** `services/csv_processing.py`, `csv_file_access.py`, the loop of `_persist_records` | local variables of two loops | `summarize`, `_persist_records` | batches, limits, blank lines, two copies of one algorithm |
| **Row validation** `services/import_row_validation.py`, `csv_mapping_validation.py` | none | `validate`, six converters, the mapping | an overflow that is no ValueError; what the validator accepts and the table refuses |
| **Upload and storage** `api/routes/datasources.py`, `services/uploaded_file.py`, `storage/local.py` | `uploaded_files`, files under the storage root | `upload_file` (save, create, compensate), file transitions without a caller | disk and database commit separately |
| **Mapping preparation** `services/mapping_preparation.py` | `import_jobs` | `prepare` | idempotency key looked up, then inserted |
| **Organizations, researches, datasources** `services/organization.py`, `research.py`, `datasource.py` | a tree of three tables | create, update, delete | parent or slug looked up, then inserted; cascades into all of the above |
| **Companies** `services/company.py` | `companies` | create, update, delete | uniqueness of (exchange, ticker) checked on stale halves |
| **Reading records and issues** `services/imported_record.py`, `import_validation_issue.py` | none | pages | job, page and total are three statements |
| **Migrations** `src/backend/alembic` | the schema and `alembic_version` | seven upgrades and downgrades | data on the way: owners of companies, keys that tenants can violate; writes and failures meanwhile |
| **Users, memberships** | their tables | none in this version | |
| **Sessions, pool, lifespan, settings** | engine | per-request session | rollback on any exception, pool limits |

Interactions: `prepare` ties a job to an uploaded file; `execute` reads the blob and changes the
job; PATCH changes the same job at any time; deleting a datasource (or its research) cascades to
files, jobs, records and issues, and leaves the blobs. All of them meet in the row of the job.

What makes each correct: *jobs*: the documented life cycle, counters and timestamps; *execution*:
one import per job, all rows or none, status and records agree, every request answered; *reading*:
each data row once, exact limits, both loops agree; *upload*: one row per content, 201 means stored,
no bytes left behind without a reason; *creation*: one job per key, a job keeps its file;
*companies*: one row per listing; *validation*: the first bad row is named with all its faults, and the
table takes what was accepted; *pages*: no reader sees a part of an import; *tree*: every entry hangs
under a parent of its organization and goes with it; *migrations*: schema and data are those of the
version, and nothing of a tenant's is lost.

`PROJECT.json` lists the hazards with the line at which each one bites.

## 2. Modules

| module | models | notes |
|---|---|---|
| `JobLifecycle` | what the row of a job promises its readers | abstract specification, no requests |
| `ImportJobs` | the job table and PATCH | `PatchLoad` is the SELECT with the checks of `transition`; `PatchCommit` the UPDATE of the dirty columns and the commit; `PatchRejected` StaleDataError and IntegrityError |
| `CsvImportExecution` | `execute`; EXTENDS `ImportJobs` | one action per statement, see below |
| `RecordPages` | pages of records and issues beside `execute`; EXTENDS `CsvImportExecution` | one action per SELECT |
| `RowValidation` | the mapping, the validator, the table's rules | operators, no state |
| `CsvRecordScan` | the summary loop and the import loop; EXTENDS `RowValidation` | refines the word "file" of `CsvImportExecution` |
| `FileUpload` | the upload route with its compensation | |
| `JobIntake` | `create` and `prepare`; EXTENDS `FileUpload` | |
| `CompanyRegistry` | POST, PATCH and DELETE of /companies | look-ups, row locks, unique keys, deadlock between UPDATEs |
| `ResourceTree` | what organizations, researches and datasources promise | abstract specification |
| `Catalogue` | their requests, statement by statement | `Tree == INSTANCE ResourceTree WITH ...` is its refinement mapping |
| `Migrations` | the seven revisions, `alembic/env.py`, the application's writes beside them | the revisions are data: sequences of statements |
| `MC...` | instances for TLC: symmetry, file shapes | |
| `..._proofs` | TLAPS proofs | |

Definitions named `Mut...` are plausible bugs: each stands before the definition it distorts, and
`PROJECT.json` names the property that finds it. No specification uses them.

### State and actions

*`ImportJobs`.* `row[j]` is the committed row; timestamps are set or not, messages are members of
a small set. `patch[p]` keeps the row as loaded (`old`) and with the handler's assignments (`new`).
`Dirty` and `Merge` are the UPDATE of the ORM: a column is written when its value differs from the
loaded one, and the column that gets a new timestamp always is. This is what two racing PATCHes
really do to a row, and it is why three lines of the root README do not hold (section 4).

*`CsvImportExecution`.* `ex[r]` is the request: `claiming` (before `SELECT ... FOR UPDATE`),
`checking` (lock held, datasource, mapping and file are read), `importing` (RUNNING is committed,
batches go into an open transaction), `refreshing` (COMPLETED is committed), `failing` (rolled back,
before the second `FOR UPDATE`), `marking` (lock held, FAILED to be written). Locks are derived from
the program counters: `FOR UPDATE` in `checking` and `marking`; the foreign key of inserted records
holds `FOR KEY SHARE` on the job from the first batch to the end of the transaction. An UPDATE of
the status waits for the former only; `FOR UPDATE` and the cascade wait for both. In `checking` the
row cannot change under the request (the claim's lock), so `Start` needs no guard on it. The
datasource look-up of line 85 succeeds there: the job's row cannot outlive the datasource and is
locked; a mapping that `prepare` stored is valid.

A file is `rows` good rows and an end: `eof`, `invalid` (an `InvalidImportedRecordError`, whose issues are
stored), `malformed` (anything else that raises: csv.Error, undecodable bytes, header faults, a missing
blob, the row limit) or `unsupported` (refused before RUNNING). `CsvRecordScan!AbstractedByFiles` is
the check that a row-by-row import does send exactly what this count says.

Faults are a constant: `delete`, `crash` (process ends or the task is cancelled, and no handler
runs), `db_error` (a statement fails), `lost_commit` (a commit takes effect and raises).

*`RecordPages`.* `read[q]` is what a GET has read so far. It has no transaction isolation to rely on
(READ COMMITTED): after each of its statements anything may commit. `Slice` is the ORDER BY, OFFSET and
LIMIT. The client PATCHes in this module (`PatchByHand`) run the jobs that were created without a file,
as the two ways of the API suggest, and a client reports on a job once its report before is answered. This is
an assumption about clients, which the server does not enforce: without it `JobLifecycle` is not implemented
(findings 1 to 4). The PATCHes that disturb an import are those of `exec_races`.

*`RowValidation`.* Texts are abstract values; what Python reads in one is given by functions (`Strip`,
`Length`, `Integer`, `Instant`), so the operators hold for every text. `Code` is the outcome of one
definition of the validator, `Issues` the list in their order, `Escapes` the OverflowError of `astimezone`
that no arm catches, `Validated` the record, `Storable` the column types and CHECKs of the table.
Some cell is blank and some holds a content of permitted length (`CellsAssumption`), or no row could be mended.

*`CsvRecordScan`.* Records are sequences of cells. The two readers
`summary` and `import` have their own local variables; the import keeps its batch and the batches it
sent. An undecodable byte may be met before records in front of it are yielded, because the text
decoder works on chunks.

*`FileUpload`, `JobIntake`.* One action per statement. The constraint of the table is checked by the
INSERT (`Admits`, `JobAdmitted`), which first waits for another open transaction with the same key
(`Waits`, `KeyWaits`). `Compensate` is `storage.delete` in the `except` of the route: it also runs
when the error came after the commit. `CompensateFails` is the same with the disk refusing, which
`suppress(Exception)` hides; `SaveLeaks` is a `save` that fails and whose own `unlink` the disk refuses.

*`CompanyRegistry`.* `req[r]` is a request of one of the three operations; `pc` names the statement it
is at, `loaded` is the row as its session read it, `sent` the fields of its body that are set. The
operator `Updated` is the UPDATE of the ORM: it sets the sent columns that differ from `loaded`, in
the row as it is now. An UPDATE locks its row (`locked`), then enters the unique indexes (`written`);
`KeyBusy` is the wait for another open transaction with a key of the new version, `Violates` the
constraint against committed rows, `Deadlocked` a cycle of such waits, of which the server aborts a
member. A PATCH or DELETE whose header names no organization finds nothing, like one of another
organization, and is not enumerated; a POST with such a header fails on the foreign key.

*`Catalogue`.* `row[i]` is the committed row with id `i`, `req[q]` a request: `begun` (before its look-up),
`checked` (before its write), `open` (written, not committed), `committed` (before the refresh). An INSERT
waits for an open one with its slug and for the deletion of the row its foreign key names (`InsertWaits`); a
DELETE waits for the foreign-key locks of open INSERTs under it and for other deletions of its rows.
A PATCH sends its UPDATE with the COMMIT, in one action; one that sends the value it has loaded sends
no UPDATE. A seed is a row that is there at the start.

*`Migrations`.* The schema is a set of named objects, each with the objects it needs; `Runs` says whether
PostgreSQL accepts a statement (names, dependencies, NOT NULL, keys and foreign keys against the rows) and
`After` what it does, with the rows against each constraint in `Satisfied`. `run` is the invocation, which takes
one revision after the other (`NextUpgrade`, `NextDowngrade`) in one transaction: `at` is the version that its
present revision leads to, `todo` the statements that revision still has, `work` the database as the transaction
sees it. Of the data only companies and organizations matter to a statement. The application writes beside it until
the migration locks `companies` (`LocksCompanies`). `Built(v)` is said without running anything: what the
revisions up to `v` make and none of them drops.

## 3. Runs

| run | instance | shows |
|---|---|---|
| `exec_races` | 1 job, 2 executors, 2 PATCHes, deletion, crash | safety of the execution and of the job's columns against everything that shares the row |
| `exec_faults` | 1 job with or without a file, 2 executors, 1 PATCH of a job without a file, 1 reader, all faults | status and records agree for the database and for a reader; the whole implements `JobLifecycle` |
| `exec_live` | 1 job, 2 executors, 1 PATCH, all faults, fairness | every request is answered; every import ends, unless its worker dies or its failure cannot be reported |
| `record_scan` | every file of up to 5 records over 7 shapes, 3 tails, and every file of one or two rows of six cells that differ from a good row in at most two cells, two mappings; limit 3 rows, batches of 2 | the two loops, the validator, the table |
| `intake` | 2 uploads, 2 creators, 2 contents, 2 keys, all faults | the constraints make up for the look-ups |
| `companies` | 2 POSTs, 2 PATCHes or DELETEs, 3 header values (2 organizations), 2 payloads that differ in every column, 6 patches, all faults | unique listings and ISINs, no lost column, no resurrection, tenants apart; waiting requests never all wait |
| `catalogue` | 3 requests of any kind over an organization, its research and its datasource; 2 slugs, 2 names | `Catalogue` implements `ResourceTree`; deletions leave nothing |
| `migrations` | any sequence of upgrades and downgrades between the 8 versions, 2 companies, 1 organization and the bootstrap one, 2 listings | the schema is that of the version, no company or owner is lost, only the stated downgrade is refused |
| `v_...` | 1 job, 2 PATCHes; for the last one 2 executors and 1 PATCH | the four findings |

*Bounds.* Every hazard of a job is between two actors on one job, so two of each kind meet it. Files of
up to 3 rows with batches of 2 have no batch, a partial one, a full one, and a full and a partial one; pages
of 2 have a full and a short one; in `record_scan` five records are a header and one row more than the
limit. Lengths in `record_scan` are real (255, 256, 20000, 20001); `BigintMax` is scaled to 8 and the
calendar to 0..10, with values on both sides of each end. `MaxTotal` bounds only the counters a client sends;
3 (in the `v_` runs) allows two different sums below, and one at, the total, and 1 is enough for a total to be exceeded. In `catalogue` three
requests are a creation, the deletion of its parent and a creation or PATCH under what either
left. In `migrations` two companies are what a shared listing needs. Counters, rows and batches are not bounded otherwise.
Symmetry is used in runs without liveness only.

*Deadlock.* TLC's check is on in `companies`, where a step of its own says that all requests are
answered, but a request that waits could still fail there, so `SomeRequestMoves` asks for a step that is no
fault. Elsewhere the check is off because the models stop when their requests are answered, and that no
request waits for ever is what `exec_live` checks.

*Fairness.* Weak fairness of `ExecStep(r)` for each request and of `PatchEnds(p)`: once a request is
in, the server takes its steps by itself. A step that waits for a row lock is enabled when the lock
is free; PostgreSQL queues waiters, and each lock is held only over steps that are fair themselves, so
no step is enabled and disabled for ever: requests are finite in number. Nothing is assumed of clients,
deletions and faults: they may never happen. `ImportEnds` excepts an import whose worker dies, whose rollback
fails or whose failure report fails (`Abandoned`): nothing takes up such a job again, see the next section.

## 4. What the runs show about this code

Four statements of the documentation are not what the code does; each has a run of its own and a
finding in `PROJECT.json`:

1. counters can decrease when two PATCHes of a job load the same counters (`v_CountersNeverDecrease`);
2. a completed job can keep an error message (`v_CompletedHasNoMessage`);
3. a completed job's counters need not add up to its total (`v_CompletedAccountsForAll`);
4. a job cancelled during its import becomes completed (`v_CancelledStaysCancelled`); the failing
   path re-reads the status under a lock and the succeeding path does not.

What does hold under the same races is in the passing runs: counters never exceed the total (thanks
to the CHECK constraint alone), no timestamp that the status asks for is missing, an import is exclusive and all or
nothing, the failure report never overwrites another verdict, and no page of records shows a part of an
import, although its three statements share no snapshot: the tables it reads change in one commit.

Facts worth knowing that are not disagreements with a document: a job whose worker dies, whose commit
of RUNNING loses its answer (line 101 is outside the `try`), or whose failure report fails stays
`running`, cannot be executed again and has no records. A PATCH can complete or fail such a job by hand.
`CountersMatchRecords` holds in `exec_races`, but not under both PATCHes and failing statements at once: a stale PATCH to `running` over a committed import, followed by a failing refresh, makes the
failure report zero the counters of an import whose records are there. A timestamp may
outlive its status: a stale PATCH to `running` over a cancelled job leaves `completed_at` on a running job.
An upload that fails after its commit leaves a row without bytes (`DanglingOnlyAfterError`). Two PATCHes of the two
halves of a listing can produce a listing that neither has looked up; only the table's constraint keeps
it unique, and the request that runs into it, or into the ISIN's, or that sends an explicit null for a
mandatory column, or is aborted in a deadlock, fails with a server error and not with a 409. The same goes for two
creations of one slug, and for a creation under, or a PATCH of, an entry that is deleted meanwhile.

The validator and the table do not agree everywhere: an integer beyond BIGINT and a text with U+0000 pass
the one and are refused by the other, at the INSERT of the batch, so the job fails without an issue that names the
row (`ValidatorCoversTable` says that nothing else does). A date-time that leaves the calendar when it is
converted to UTC raises OverflowError, with the same effect, and the faults already found in the row are lost; the models
admit this as an outcome, and no property forbids it.
The downgrade to revision 0001 is refused, and rolled back, when two organizations share a listing
(`KeepsOrRefuses`); otherwise it drops all owners, so a later upgrade gives every company to the bootstrap
organization.

## 5. Proofs

For every value of the constants (any number of jobs, requests, rows, any batch size):

| module | theorems |
|---|---|
| `ImportJobs_proofs` | `TypeCorrect`, `CountersSafe`, `TimestampsSafe` |
| `CsvImportExecution_proofs` | `ExecTypeCorrect`, `ExecCountersSafe`, `ExecTimestampsSafe`, `Exclusive`, `Atomic`, `OrphanFree`, `StartsFresh`, `FailsOnlyRunning`, `OkImported`, `IssuesWithFailure`, `CountersTrue` |
| `RecordPages_proofs` | `PagesWhole`, `StatusTellsRecords`, `StatusTrusted`, `RowsImplementLifecycle` |
| `CsvRecordScan_proofs` | `TableTakesAcceptedRows`, `ImportCoversTable`, `BatchesFull`, `ImportsEveryRow`, `LimitExact`, `LoopsAgree`, `FirstBadRowNamed`, `FilesAbstracted`, `IssuesExact` |
| `Catalogue_proofs` | `CatalogueImplementsTree`, `DeletionsLeaveNothing` |
| `JobIntake_proofs` | `ChecksumsUnique`, `CreatedIsStored`, `BytesAccounted`, `RowsAccounted`, `ConflictsTrue`, `KeysUnique`, `CreatedOnce`, `FilesKept` |
| `CompanyRegistry_proofs` | `RegistryTypeCorrect`, `CompaniesUnique`, `DeletionsLast`, `TenantsIsolated`, `PatchesAreKept` |
| `Migrations_proofs` | `SchemaFollowsVersion`, `InvocationsKeepOrRefuse` |

*PATCH.* `CountersSafe` cannot rest on the handler's check, which is stale when the UPDATE runs; it
rests on the CHECK constraint. The timestamps rest on `PatchInFlight`: a PATCH between its two
statements always changes the status, so it always writes the status *together with* its stamp, and a
PATCH to `completed` or `failed` has seen the job running, so that `started_at` is already there.
`IInv` is the conjunction with the properties themselves.

*Execution.* `EInv` adds to `IInv` what each program counter says of the request (`ExOK`) and of the
job (`JobOK`): the request in `checking` has loaded the row as it is; from `importing` on the job has
been started, so it can never be claimed again, which with the two exclusive program counters gives
`Exclusive`; nothing but the final commit writes records, and it writes all rows of a file whose end
is `eof` (`Atomic`); the cascade waits for the locks of a request that has inserted, and a request
without a lock finds the job gone (`OrphanFree`). `Outcomes` adds what an answer says: a request past its
final commit has its records until the job is deleted (`OkImported`). `TablesChange` says which steps
change records and issues at all, and how; it carries `IssuesWithFailure` and the pages.

*The job's columns beside an import.* `execute` writes the row without looking at it again, so `RowsInv`
says what a stale copy can do. Of a job with a file everything that was counted was processed (`Balanced`), and so
the rules of the counters leave a PATCH of it no choice: its UPDATE leaves the counters out (`SendsNoCounters`).
A request holds the row itself under its locks, and a row without counts while it imports (`LoadedOK`). From this
come `ExecCountersSafe` and `ExecTimestampsSafe`. `CountersTrue` adds that an import to be reported as failed has left no
records (`LeftNothing`), since the report zeroes the counters. That is where its two hypotheses are needed: with
`db_error` or `lost_commit` among the faults an import may fail *after* its commit, and if a stale PATCH to
`running` has meanwhile reopened the job, the report finds it running (section 4). Deletions, crashes and any PATCHes
are allowed; `exec_races` checks the same case.

*Pages.* `PageInv` says of a reader with a page in hand that the page is empty or a full slice, and that
if it is not empty the table still holds the rows or the job is gone. That is stable because of
`NoneOrAll` and `TablesChange`: rows of a job appear once, all together, and only go with the job. `SliceOfRows` is
OFFSET and LIMIT on rows without gaps.

*Life cycle.* When clients leave the jobs with a file to the server, the row of such a job takes four
values: new, started, completed with all rows, failed; each goes with its records and issues (`JobLife`). An import
still holds the started row as it loaded it (`ImportOwnsRow`), and a PATCH by hand the row it loaded
(`HandOwnsRow`), so that the UPDATE of either writes what was assigned (`MergeOfLoaded`). `JobRowStep`
lists what one step makes of a row, and each case is a step of `JobLifecycle` or a stutter
(`RowsImplementLifecycle`), with every fault. `StatusTellsRecords` is `JobLife`; `StatusTrusted` adds that a
completed job stays completed while the reader goes on (`StatusOK`).

*Validation.* `TableTakesAcceptedRows` goes through the six fields: what a converter lets pass is within the
column's type and CHECK, but for the two cases of `TooMuchForTheTable`. It needs of the limits only that they
are the same on both sides. `BatchesFull` needs that a batch is shorter than `BatchSize` between records.
`IssuesExact` says of the six definitions that their issues name the faulty fields, each once (`IssuesListed`); a
mapping has a column for each faulty field (`FaultyIsMapped`) and no column twice, so mending a cell touches one field
(`MendedCells`).

*Whole files.* `PlaceOf` says where a loop stands between two records: the records behind it that are not blank
are the header and the rows it has counted, and it has taken all of these. `OutcomeOf` says what the file must be
like when the loop was left. `SentOK` says that the batches sent, joined, and the one in memory are the rows counted.
The three are inductive (`FileInvariance`), and the properties follow
without looking at a step again: `LoopsAgree` because both loops take a place in the *same* file, and `FilesAbstracted`, on
which `CsvImportExecution` rests, by division with rest. The library's induction theorems take an operator and
cannot be used; `CountingUp` derives an induction with a *set* from well-foundedness of the naturals. With it
`JoinsExist` and `FlattenAppend` give what `FlattenSeq` makes of a sequence of batches, and `ListsExist` and `NonBlankStep` what
`NonBlankUpTo`, a recursive function, makes of a file.

*Catalogue.* `CatInv` says what a request knows while it is open: a creation's parent is there and its
slug is free of committed rows and of other open creations (`OpenOK`), an id of a request that has not
committed is free (`IdsOK`), and a deleted entry stays gone (`GoneOK`). Then each commit is one action of
`ResourceTree` and everything else stutters.

*Intake.* `JInv` says that a flushed INSERT holds its key and its parents until its transaction ends
(`UploadOK`, `CreatorOK`) and that there is one such INSERT per key (`OneOpenInsert`, `OneOpenKey`). The look-ups
before the INSERT are not used there: they only choose the answer. That the answer is right is `ConflictsTrue`: a row of
another upload with the same content, once seen, stays until the datasource goes (`RivalStays`). `CreatedOnce`,
what `OneJobPerKey` means for clients, is proved only: no run checks it.

*Companies.* `RInv` says who holds what between flush and commit: an open UPDATE or DELETE has its row
to itself (`RowExclusive`), a flushed version shares a key with no other flushed version (`KeysHeld`) and
no committed row (`KeysFree`); with `KeysUnique` this is inductive, and again no look-up is used. For
`PatchesAreKept` it is not enough: `PInv` adds that a column of the row is either what a request has
loaded or what some PATCH has sent since (`LoadedKept`), because a column that is sent with the loaded
value is left out of the UPDATE and may have been changed by another PATCH.

*Migrations.* The argument is in three layers. First the scripts: which names a revision brings in
(`New`), that its upgrade makes objects of these names only and its downgrade drops exactly those (`UpgradesMake`,
`DowngradesDrop`), and that no object of an older revision is touched but `uq_companies_exchange`, which 0002 takes out
and its downgrade makes again. `Result(schema, script)` is what a script leaves, said by position instead of by
recursion: an object stays if nothing from its statement on drops it. From this `UpOne` and `DownOne` lead from one
`Built` to the next. Then the statements: each keeps the rows within the constraints of the schema
(`Constrained`, `StatementKeeps`); only the backfill and the dropped column change owners. Last the steps: the
*rest* of the script a run is at makes the schema of `at` (`RunOK`), and as long as it has locked nothing, it sees the
companies that are committed (`Unlocked`), so that a row the application commits meanwhile fits the constraints of the
half-migrated schema as well (`CompanyAdded`).
`InvocationsKeepOrRefuse` says what an invocation may end in, so it needs more of a run under way (`WayInv`). That
no statement of a script finds the schema wrong is a fact about positions: the i-th statement meets what the ones before
it made and did not drop (`Before`), and that is what it asks for (`UpRuns`, `DownRuns`; the objects are listed in
`Makes`, statement by statement). The invariant keeps the *rest* of the script `Runnable`, and says where in it the run
is (`OnItsWay`) and what the rows have become there (`RowsOnTheWayUp`, `RowsOnTheWayDown`): owners change only in 0002, the
bootstrap organization exists before companies get it, and they get it under the lock, so that no company without an owner
is added after. What is left that rows can refuse is the constraint on listings (`OnlyRefusal`).

The assumptions are those of the modules (`MaxTotal` and `MaxRows` natural, `BatchSize` positive,
`NoMessage` and `NoUpload` new values, `Messages` without the empty one and without that of a failed import, `Faults` a set
of known faults, POSTs apart from PATCHes, what they send in the columns' values, `CellsAssumption`,
`MigrationsAssumption`: the bootstrap organization and "no owner" are none of the organizations, `ValuesApart`: "no row" and
"no invocation" are no row and no invocation) and the two hypotheses of
`CountersTrue`.

Only model-checked: the liveness properties `EveryRequestAnswered` and `ImportEnds` and the absence of deadlock
`SomeRequestMoves` (fairness and ENABLED are out of the prover's reach).

## 6. Not modelled, and why

Columns that no rule reads: name, website, description and `is_active` of a company, description, status
and configuration of researches and datasources. Users and memberships: no operation uses them. The
lists of jobs, files, researches and datasources, and reads of one row: one statement each, no state. The connection pool
and the lifespan: library code. File transitions (`mark_ready`, `mark_failed`, `mark_deleted`): no caller. How Python
parses integers and dates, and str.strip: constants of `RowValidation`. Header normalisation and paths of the storage, beyond what the loops
need. Two migrations at a time: one invocation is an operator's command, which
nothing in the repository starts by itself. Offline migrations only print SQL.

## 7. Plan

Done, in this order: `ImportJobs` with `JobLifecycle`, `CsvImportExecution`, their proofs,
`CsvRecordScan`, `FileUpload`, `JobIntake`, their proofs, `CompanyRegistry`, its proofs; `RowValidation` under
`CsvRecordScan`, `RecordPages`, `Catalogue` with `ResourceTree`, their proofs, `Migrations`, its proof.

Next, to model: the composition of `JobIntake` and `CsvImportExecution` (a prepared job whose bytes were
removed by a late compensation is the end `malformed` of a file today).
