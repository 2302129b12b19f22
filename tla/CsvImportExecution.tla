-------------------------- MODULE CsvImportExecution --------------------------
(***************************************************************************)
(* POST .../import-jobs/{id}/execute: CsvImportExecutionService.execute in *)
(* services/csv_import_execution.py, run by several workers at once on the *)
(* table of ImportJobs, beside the PATCHes and the DELETE of that module.  *)
(*                                                                         *)
(* A request is a sequence of database statements on one session, with     *)
(* three transactions: the claim (SELECT FOR UPDATE ... commit of          *)
(* RUNNING), the import (INSERT batches ... commit of COMPLETED), and,     *)
(* when the import raises, the failure report (SELECT FOR UPDATE ...       *)
(* commit of FAILED).  Each action is one statement with the Python code   *)
(* around it.  A row lock is not a variable: a request holds it exactly    *)
(* while its program counter is inside the transaction that took it.       *)
(***************************************************************************)
EXTENDS ImportJobs

CONSTANTS
    Executors,   \* execute requests
    BatchSize,   \* settings.import_batch_size
    MaxRows,     \* bound on the rows of a file
    NoFile,      \* uploaded_file_id IS NULL: a job made by ImportJobService.create
    Faults       \* what may go wrong outside the program, see below

ASSUME BatchSizeAssumption == BatchSize \in Nat \ {0}
ASSUME MaxRowsAssumption == MaxRows \in Nat

\* "delete"       the datasource is deleted
\* "crash"        a request vanishes: worker killed, task cancelled
\* "db_error"     a statement fails
\* "lost_commit"  a commit succeeds and its answer is lost
ASSUME FaultsAssumption == Faults \subseteq {"delete", "crash", "db_error", "lost_commit"}

VARIABLES
    file,        \* file[j]: the file the job was prepared for
    records,     \* records[j]: committed imported_records, as data-row indexes
    issues,      \* issues[j]: committed import_validation_issues exist
    ex           \* ex[r]: the local state of execute request r

execVars == <<file, records, issues, ex>>

vars == <<jobVars, execVars>>

-------------------------------------------------------------------------------
(* Files and requests                                                        *)

\* What reading a file comes to: `rows` good data rows, and then the end of the
\* file ("eof"), a row that InvalidImportedRecordError reports ("invalid"), or
\* anything that raises without issues ("malformed": csv.Error, undecodable
\* bytes, a bad header, no header, the row limit, a missing blob).
\* "unsupported" is a file get_processable_file refuses.
\* CsvRecordScan shows what the row-by-row loop makes of the records.
Files == [rows : Nat, end : {"eof", "invalid", "malformed", "unsupported"}]

FilesUpTo(n) == [rows : 0..n, end : {"eof", "invalid", "malformed"}]
                  \cup {[rows |-> 0, end |-> "unsupported"]}

Answers == {"not_found", "not_executable", "invalid_configuration", "refused_file",
            "import_failed", "unreported", "ok", "server_error", "crashed"}

Ready == [pc |-> "ready"]

\* The program counters of a request that has a job:
\*   claiming   before the SELECT FOR UPDATE of execute
\*   checking   holds FOR UPDATE, reads datasource, mapping and file
\*   importing  reads the file and inserts batches in an open transaction
\*   refreshing COMPLETED is committed
\*   failing    the import raised and was rolled back
\*   marking    holds FOR UPDATE, about to write FAILED
Working == {"claiming", "checking", "importing", "refreshing", "failing", "marking"}

\* staged rows are inserted and not committed; loaded is the job instance of
\* the session; withIssues says whether the exception carries issues.
Active == [pc : Working, job : Jobs, staged : Nat, loaded : JobRow, withIssues : BOOLEAN]

Finished == [pc : {"finished"}, job : Jobs, answer : Answers]

At(r, pc) == ex[r].pc = pc

JobOf(r) == ex[r].job

FileOf(r) == file[JobOf(r)]

Finish(r, answer) ==
    ex' = [ex EXCEPT ![r] = [pc |-> "finished", job |-> JobOf(r), answer |-> answer]]

\* The except arms of execute up to the rollback.
Raise(r, issued) ==
    ex' = [ex EXCEPT ![r] = [@ EXCEPT !.pc = "failing", !.staged = 0, !.withIssues = issued]]

-------------------------------------------------------------------------------
(* Row locks of PostgreSQL                                                   *)

MutNoForUpdate(r, j) == FALSE

\* SELECT ... FOR UPDATE on the job, until commit or rollback.
HoldsForUpdate(r, j) == ex[r].pc \in {"checking", "marking"} /\ JobOf(r) = j

\* The foreign key of an inserted record holds FOR KEY SHARE on its job.
HoldsKeyShare(r, j) == At(r, "importing") /\ JobOf(r) = j /\ ex[r].staged > 0

\* An UPDATE of the status waits for FOR UPDATE alone, and so does FOR KEY SHARE.
Updatable(j) == \A s \in Executors : ~HoldsForUpdate(s, j)

\* FOR UPDATE and the cascade's DELETE wait for every lock.
Lockable(j) == Updatable(j) /\ \A s \in Executors : ~HoldsKeyShare(s, j)

-------------------------------------------------------------------------------
(* The claim                                                                 *)

\* The client asks for job j.
Request(r, j) ==
    /\ At(r, "ready")
    /\ ex' = [ex EXCEPT ![r] = [pc |-> "claiming", job |-> j, staged |-> 0,
                                loaded |-> NewRow(0), withIssues |-> FALSE]]
    /\ UNCHANGED <<jobVars, file, records, issues>>

\* What the claim answers when it does not go on, or "claimed".
ClaimOutcome(j) ==
    IF j \notin jobs THEN "not_found"
    ELSE IF row[j].status # "pending" THEN "not_executable"
    ELSE IF file[j] = NoFile THEN "invalid_configuration" ELSE "claimed"

\* get_for_execution and the checks that end the request with a rollback.
ClaimRefused(r) ==
    /\ At(r, "claiming")
    /\ JobOf(r) \in jobs => Lockable(JobOf(r))
    /\ ClaimOutcome(JobOf(r)) # "claimed"
    /\ Finish(r, ClaimOutcome(JobOf(r)))
    /\ UNCHANGED <<jobVars, file, records, issues>>

Claim(r) ==
    /\ At(r, "claiming")
    /\ Lockable(JobOf(r))
    /\ ClaimOutcome(JobOf(r)) = "claimed"
    /\ ex' = [ex EXCEPT ![r] = [@ EXCEPT !.pc = "checking", !.loaded = row[JobOf(r)]]]
    /\ UNCHANGED <<jobVars, file, records, issues>>

MutRefuseFileKeepsLock(r) ==
    /\ At(r, "checking")
    /\ FileOf(r).end = "unsupported"
    /\ UNCHANGED vars

\* get_processable_file raises: rollback, the job stays pending.
RefuseFile(r) ==
    /\ At(r, "checking")
    /\ FileOf(r).end = "unsupported"
    /\ Finish(r, "refused_file")
    /\ UNCHANGED <<jobVars, file, records, issues>>

RunningRow(old) ==
    [old EXCEPT !.status = "running", !.started = TRUE, !.completed = FALSE, !.error = NoMessage]

StartedRow(r) ==
    LET old == ex[r].loaded  new == RunningRow(old) IN
        Merge(row[JobOf(r)], new, Dirty(old, new, {"started"}))

\* The commit of RUNNING, which releases the lock.
CommitRunning(r) ==
    /\ At(r, "checking")
    /\ FileOf(r).end # "unsupported"
    /\ row' = [row EXCEPT ![JobOf(r)] = StartedRow(r)]
    /\ UNCHANGED <<jobs, patch, file, records, issues>>

Start(r) ==
    /\ CommitRunning(r)
    /\ ex' = [ex EXCEPT ![r] = [@ EXCEPT !.pc = "importing", !.loaded = RunningRow(ex[r].loaded)]]

-------------------------------------------------------------------------------
(* The import                                                                *)

\* _persist_records has a full batch before it meets the end or a bad row.
FullBatch(r) == ex[r].staged + BatchSize <= FileOf(r).rows

\* It reached the end of the file with rows of a partial batch left.
PartialBatch(r) ==
    /\ ~FullBatch(r)
    /\ FileOf(r).end = "eof"
    /\ ex[r].staged < FileOf(r).rows

MutAllStaged(r) == FileOf(r).end = "eof" /\ ~FullBatch(r)

\* Nothing is left to insert.
AllStaged(r) == FileOf(r).end = "eof" /\ ex[r].staged = FileOf(r).rows

MutInsertCommits(r) ==
    /\ At(r, "importing")
    /\ JobOf(r) \in jobs /\ Updatable(JobOf(r))
    /\ FullBatch(r)
    /\ records' = [records EXCEPT ![JobOf(r)] = @ \cup 1..(ex[r].staged + BatchSize)]
    /\ ex' = [ex EXCEPT ![r].staged = @ + BatchSize]
    /\ UNCHANGED <<jobVars, file, issues>>

InsertBatch(r) ==
    /\ At(r, "importing")
    /\ JobOf(r) \in jobs /\ Updatable(JobOf(r))
    /\ FullBatch(r)
    /\ ex' = [ex EXCEPT ![r].staged = @ + BatchSize]
    /\ UNCHANGED <<jobVars, file, records, issues>>

InsertRest(r) ==
    /\ At(r, "importing")
    /\ JobOf(r) \in jobs /\ Updatable(JobOf(r))
    /\ PartialBatch(r)
    /\ ex' = [ex EXCEPT ![r].staged = FileOf(r).rows]
    /\ UNCHANGED <<jobVars, file, records, issues>>

\* The reader, the header check or the validator raises.
BadRow(r) ==
    /\ At(r, "importing")
    /\ ~FullBatch(r) /\ FileOf(r).end # "eof"
    /\ Raise(r, FileOf(r).end = "invalid")
    /\ UNCHANGED <<jobVars, file, records, issues>>

\* The job was deleted under the import: the INSERT breaks the foreign key
\* (IntegrityError), or the last UPDATE matches no row (StaleDataError).
JobGone(r) ==
    /\ At(r, "importing")
    /\ JobOf(r) \notin jobs
    /\ FullBatch(r) \/ PartialBatch(r) \/ AllStaged(r)
    /\ Raise(r, FALSE)
    /\ UNCHANGED <<jobVars, file, records, issues>>

MutCompletedRow(old, n) ==
    [old EXCEPT !.status = "completed", !.total = n, !.failed = 0,
                !.completed = TRUE, !.error = NoMessage]

CompletedRow(old, n) ==
    [old EXCEPT !.status = "completed", !.total = n, !.processed = n, !.failed = 0,
                !.completed = TRUE, !.error = NoMessage]

\* The job instance is the one loaded for the claim: it is not read again, so
\* the UPDATE writes over whatever the row has become.
ImportedRow(r) ==
    LET old == ex[r].loaded  new == CompletedRow(old, ex[r].staged) IN
        Merge(row[JobOf(r)], new, Dirty(old, new, {"completed"}))

\* The UPDATE and the commit of the records with it.
CommitCompleted(r) ==
    /\ At(r, "importing")
    /\ AllStaged(r)
    /\ JobOf(r) \in jobs /\ Updatable(JobOf(r))
    /\ row' = [row EXCEPT ![JobOf(r)] = ImportedRow(r)]
    /\ records' = [records EXCEPT ![JobOf(r)] = 1..ex[r].staged]
    /\ UNCHANGED <<jobs, patch, file, issues>>

Complete(r) ==
    /\ CommitCompleted(r)
    /\ ex' = [ex EXCEPT ![r] = [@ EXCEPT !.pc = "refreshing", !.staged = 0]]

\* session.refresh(job) and the answer; a job deleted by now cannot be
\* refreshed (InvalidRequestError, a SQLAlchemyError).
Refresh(r) ==
    /\ At(r, "refreshing")
    /\ IF JobOf(r) \in jobs THEN Finish(r, "ok") ELSE Raise(r, FALSE)
    /\ UNCHANGED <<jobVars, file, records, issues>>

-------------------------------------------------------------------------------
(* The failure report: _mark_failed_without_masking_error                    *)

StillRunning(j) == j \in jobs /\ row[j].status = "running"

MutMarkNothing(r) ==
    /\ At(r, "failing")
    /\ JobOf(r) \in jobs => Lockable(JobOf(r))
    /\ ~StillRunning(JobOf(r))
    /\ issues' = [issues EXCEPT ![JobOf(r)] = JobOf(r) \in jobs /\ (@ \/ ex[r].withIssues)]
    /\ Finish(r, "import_failed")
    /\ UNCHANGED <<jobVars, file, records>>

\* The job is gone or no longer running: nothing is written.
MarkNothing(r) ==
    /\ At(r, "failing")
    /\ JobOf(r) \in jobs => Lockable(JobOf(r))
    /\ ~StillRunning(JobOf(r))
    /\ Finish(r, "import_failed")
    /\ UNCHANGED <<jobVars, file, records, issues>>

MutMarkLockUnlocked(r) ==
    /\ At(r, "failing")
    /\ StillRunning(JobOf(r))
    /\ Finish(r, "import_failed")
    /\ UNCHANGED <<jobVars, file, records, issues>>

MarkLock(r) ==
    /\ At(r, "failing")
    /\ Lockable(JobOf(r))
    /\ StillRunning(JobOf(r))
    /\ ex' = [ex EXCEPT ![r] = [@ EXCEPT !.pc = "marking", !.loaded = row[JobOf(r)]]]
    /\ UNCHANGED <<jobVars, file, records, issues>>

FailedRow(old) ==
    [old EXCEPT !.status = "failed", !.total = 0, !.processed = 0, !.failed = 0,
                !.completed = TRUE, !.error = ExecutionFailed]

MarkFailed(r) ==
    LET old == ex[r].loaded
        new == FailedRow(old)
        j   == JobOf(r)
    IN  /\ At(r, "marking")
        /\ row' = [row EXCEPT ![j] = Merge(@, new, Dirty(old, new, {"completed"}))]
        /\ issues' = [issues EXCEPT ![j] = ex[r].withIssues]
        /\ Finish(r, "import_failed")
        /\ UNCHANGED <<jobs, patch, file, records>>

-------------------------------------------------------------------------------
(* Faults                                                                    *)

\* A statement fails.  Outside the try the error reaches the client; inside it
\* the except arm reports the failure, unless the rollback fails as well; the
\* report itself swallows the error ("unreported": its client is told what that
\* of "import_failed" is).
DbError(r) ==
    /\ "db_error" \in Faults
    /\ \/ ex[r].pc \in {"claiming", "checking"} /\ Finish(r, "server_error")
       \/ ex[r].pc \in {"importing", "refreshing"} /\ (Raise(r, FALSE) \/ Finish(r, "server_error"))
       \/ ex[r].pc \in {"failing", "marking"} /\ Finish(r, "unreported")
    /\ UNCHANGED <<jobVars, file, records, issues>>

\* A commit takes effect and raises all the same.
LostCommit(r) ==
    /\ "lost_commit" \in Faults
    /\ \/ CommitRunning(r) /\ Finish(r, "server_error")
       \/ CommitCompleted(r) /\ Raise(r, FALSE)

\* BaseException or the end of the process: the open transaction is rolled
\* back, no handler runs.
Crash(r) ==
    /\ "crash" \in Faults
    /\ ex[r].pc \in Working
    /\ Finish(r, "crashed")
    /\ UNCHANGED <<jobVars, file, records, issues>>

-------------------------------------------------------------------------------
(* The endpoints of ImportJobs under the row locks                           *)

PatchBegins(p) == PatchLoads(p) /\ UNCHANGED execVars

PatchEnds(p) ==
    /\ patch[p].pc = "updating"
    /\ patch[p].job \in jobs => Updatable(patch[p].job)
    /\ PatchCommit(p) \/ PatchRejected(p)
    /\ UNCHANGED execVars

Deletable == \A j \in jobs : Lockable(j)

\* The cascade reaches the records and the issues of the jobs.
Delete ==
    /\ "delete" \in Faults
    /\ Deletable
    /\ DeleteDatasource
    /\ records' = [j \in Jobs |-> {}]
    /\ issues' = [j \in Jobs |-> FALSE]
    /\ UNCHANGED <<file, ex>>

-------------------------------------------------------------------------------

\* Prepared jobs have a file and total_items = 0 (mapping_preparation.py:54-67).
ExecInit ==
    /\ file \in [Jobs -> FilesUpTo(MaxRows) \cup {NoFile}]
    /\ jobs = Jobs
    /\ row \in [Jobs -> {NewRow(n) : n \in 0..MaxTotal}]
    /\ \A j \in Jobs : file[j] # NoFile => row[j].total = 0
    /\ patch = [p \in Patchers |-> Idle]
    /\ records = [j \in Jobs |-> {}]
    /\ issues = [j \in Jobs |-> FALSE]
    /\ ex = [r \in Executors |-> Ready]

\* What the code does by itself once a request has come in.
ExecStep(r) ==
    \/ ClaimRefused(r) \/ Claim(r) \/ RefuseFile(r) \/ Start(r)
    \/ InsertBatch(r) \/ InsertRest(r) \/ BadRow(r) \/ JobGone(r)
    \/ Complete(r) \/ Refresh(r)
    \/ MarkNothing(r) \/ MarkLock(r) \/ MarkFailed(r)

FaultStep(r) == DbError(r) \/ LostCommit(r) \/ Crash(r)

ExecNext ==
    \/ \E r \in Executors : (\E j \in Jobs : Request(r, j)) \/ ExecStep(r) \/ FaultStep(r)
    \/ \E p \in Patchers : PatchBegins(p) \/ PatchEnds(p)
    \/ Delete

ExecSpec == ExecInit /\ [][ExecNext]_vars

\* Postgres grants a row lock once it is free, and the event loop resumes a
\* request once its statement returns.
Fairness ==
    /\ \A r \in Executors : WF_vars(ExecStep(r))
    /\ \A p \in Patchers : WF_vars(PatchEnds(p))

FairSpec == ExecSpec /\ Fairness

-------------------------------------------------------------------------------
(* Properties                                                                *)

\* Every variable has its type, and what a request has staged is part of its file.
ExecTypeOK ==
    /\ jobs \subseteq Jobs
    /\ row \in [Jobs -> JobRow]
    /\ patch \in [Patchers -> {Idle} \cup Update]
    /\ file \in [Jobs -> Files \cup {NoFile}]
    /\ records \in [Jobs -> SUBSET (Nat \ {0})]
    /\ issues \in [Jobs -> BOOLEAN]
    /\ ex \in [Executors -> {Ready} \cup Active \cup Finished]
    /\ \A r \in Executors : ex[r].pc \in Working \ {"claiming"} =>
         FileOf(r) # NoFile /\ ex[r].staged <= FileOf(r).rows

\* An import is all or nothing: whatever is interrupted, refused or raced, the
\* committed records of a job are none, or exactly the rows of a file that was
\* read to its end (execute commits the batches with the final UPDATE).
AllOrNothing ==
    \A j \in Jobs : records[j] # {} =>
        file[j] # NoFile /\ file[j].end = "eof" /\ records[j] = 1..file[j].rows

InImport(r, j) ==
    ex[r].pc \in {"checking", "importing", "refreshing", "failing", "marking"} /\ JobOf(r) = j

\* Two execute requests never work on the same job, though the claim is a read
\* and a later write: FOR UPDATE holds the row from one to the other.
SingleImporter ==
    \A r, s \in Executors, j \in Jobs : InImport(r, j) /\ InImport(s, j) => r = s

\* An import starts at most once: when RUNNING is committed the job has never
\* been started before, by a request or by a PATCH, although the status was
\* checked several statements earlier.
ImportStartsFresh ==
    [][\A r \in Executors :
         At(r, "checking") /\ row' # row /\ ex'[r] # ex[r] =>
            ~row[JobOf(r)].started /\ records[JobOf(r)] = {}]_vars

\* The counters of a prepared job and its record rows are two tables that one
\* commit changes.  They agree whatever PATCHes, deletions and crashes do, as long
\* as no statement fails and no commit loses its answer: those end in a failure
\* report that zeroes the counters of an import a PATCH has reopened.
CountersMatchRecords ==
    \A j \in jobs : file[j] # NoFile =>
        /\ row[j].processed = Cardinality(records[j])
        /\ row[j].total = row[j].processed
        /\ row[j].failed = 0

\* The failure report writes FAILED only over RUNNING: a PATCH may cancel the
\* job at any moment of the import, but not between the report's check of the
\* status and its commit.
FailureOnlyOverRunning ==
    [][\A r \in Executors :
         At(r, "marking") /\ ex'[r] # ex[r] /\ row' # row =>
            row[JobOf(r)].status = "running"]_vars

\* No request that outlives the deletion of the datasource writes a record or
\* an issue for a job that is gone.
NoOrphans == \A j \in Jobs \ jobs : records[j] = {} /\ ~issues[j]

\* Validation issues appear only in the commit that turns a running job into a
\* failed one: an import that lost its job to a cancellation leaves none.
IssuesOnlyWithFailure ==
    [][\A j \in Jobs : issues'[j] /\ ~issues[j] =>
         row[j].status = "running" /\ row'[j].status = "failed" /\ records[j] = {}]_vars

\* A client that is answered 200 by execute finds every row of the file.
OkMeansImported ==
    \A r \in Executors :
        At(r, "finished") /\ ex[r].answer = "ok" /\ JobOf(r) \in jobs =>
            records[JobOf(r)] = 1..FileOf(r).rows

\* While no PATCH touches a prepared job, its status tells whether its records
\* are there, also when a commit's answer is lost or the failure report finds
\* the import committed.
CompletedIffImported ==
    \A j \in jobs : file[j] # NoFile =>
        IF row[j].status = "completed"
        THEN file[j].end = "eof" /\ records[j] = 1..file[j].rows
        ELSE records[j] = {}

\* README: running goes to completed, failed or cancelled, and from cancelled
\* no transition is permitted.
CancelledStaysCancelled ==
    [][\A j \in jobs \cap jobs' :
         row[j].status = "cancelled" => row'[j].status = "cancelled"]_vars

\* Every execute request, and every PATCH that has loaded its job, is answered,
\* however they wait for the locks of one another.
EveryRequestAnswered ==
    /\ \A r \in Executors : At(r, "claiming") ~> At(r, "finished")
    /\ \A p \in Patchers : patch[p].pc = "updating" ~> patch[p].pc = "idle"

\* The worker died, or the rollback or the failure report failed.
Abandoned(r) ==
    At(r, "finished") /\ ex[r].answer \in {"crashed", "server_error", "unreported"}

\* A job whose import has begun reaches a terminal status or is deleted, whatever
\* PATCHes do to it meanwhile and whichever statement or commit of the import
\* fails, unless the worker dies or the failure cannot be reported.
ImportEnds ==
    \A r \in Executors, j \in Jobs :
        (At(r, "importing") /\ JobOf(r) = j) ~>
            (j \notin jobs \/ row[j].status \in Terminal \/ Abandoned(r))

===============================================================================
