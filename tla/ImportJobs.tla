------------------------------ MODULE ImportJobs ------------------------------
(***************************************************************************)
(* The import_jobs table of one datasource and the status endpoint that    *)
(* changes it, PATCH /import-jobs/{id}/status (ImportJobService.transition *)
(* in services/import_job.py).                                             *)
(*                                                                         *)
(* A PATCH is two database statements of one session.  The first reads the *)
(* row without a lock; the handler checks the payload against what it      *)
(* read.  The second is the UPDATE that the commit flushes: the ORM writes *)
(* only the columns whose value differs from the one it loaded, and there  *)
(* is no version column, so whatever another session committed in between  *)
(* stays in every column this one leaves out and is lost in the others.    *)
(*                                                                         *)
(* Timestamps are abstracted to "set or not", messages to a small set.     *)
(***************************************************************************)
EXTENDS Integers, FiniteSets

CONSTANTS
    Jobs,        \* ids of the import jobs of the datasource
    Patchers,    \* PATCH requests that can be in flight at the same time
    MaxTotal,    \* bound on the counters a client sends
    Messages,    \* error messages a client may send with a failure
    NoMessage    \* error_message IS NULL

ASSUME MaxTotalAssumption == MaxTotal \in Nat

VARIABLES
    jobs,        \* ids that have a row in import_jobs
    row,         \* row[j]: the committed columns of job j (stale once j is gone)
    patch        \* patch[p]: what PATCH request p has loaded and wants to write

jobVars == <<jobs, row, patch>>

-------------------------------------------------------------------------------
(* The row                                                                   *)

Terminal == {"completed", "failed", "cancelled"}

Statuses == {"pending", "running"} \cup Terminal

\* The message CsvImportExecutionService._mark_failed writes.
ExecutionFailed == "CSV import execution failed."

ASSUME MessagesAssumption == NoMessage \notin Messages \cup {ExecutionFailed}

Errors == Messages \cup {NoMessage, ExecutionFailed}

JobRow == [status    : Statuses,
           total     : Nat,
           processed : Nat,
           failed    : Nat,
           started   : BOOLEAN,
           completed : BOOLEAN,
           error     : Errors]

Columns == {"status", "total", "processed", "failed", "started", "completed", "error"}

\* A job as ImportJobService.create and CsvImportMappingService.prepare insert it.
NewRow(total) ==
    [status |-> "pending", total |-> total, processed |-> 0, failed |-> 0,
     started |-> FALSE, completed |-> FALSE, error |-> NoMessage]

\* The columns an UPDATE writes: those whose value changed since the load, and
\* those that were given a fresh timestamp, which always differs.
Dirty(old, new, stamped) == {c \in Columns : new[c] # old[c]} \cup stamped

\* The row after an UPDATE that writes the columns dirty of new over the committed row.
Merge(current, new, dirty) ==
    [status    |-> IF "status"    \in dirty THEN new.status    ELSE current.status,
     total     |-> IF "total"     \in dirty THEN new.total     ELSE current.total,
     processed |-> IF "processed" \in dirty THEN new.processed ELSE current.processed,
     failed    |-> IF "failed"    \in dirty THEN new.failed    ELSE current.failed,
     started   |-> IF "started"   \in dirty THEN new.started   ELSE current.started,
     completed |-> IF "completed" \in dirty THEN new.completed ELSE current.completed,
     error     |-> IF "error"     \in dirty THEN new.error     ELSE current.error]

\* CHECK constraint item_counts_within_total, evaluated on the merged row.
MutNoCheckConstraint(r) == TRUE

SatisfiesCheck(r) == r.processed + r.failed <= r.total

-------------------------------------------------------------------------------
(* PATCH /import-jobs/{id}/status                                            *)

Permitted(status) ==
    IF status = "pending" THEN {"running", "cancelled"}
    ELSE IF status = "running" THEN Terminal ELSE {}

MutCountersMayDrop(old, status, processed, failed) ==
    /\ processed + failed <= old.total
    /\ status = "completed" => processed + failed = old.total

\* An omitted counter stands for the loaded one, so the explicit values cover it.
CountersAccepted(old, status, processed, failed) ==
    /\ processed >= old.processed
    /\ failed >= old.failed
    /\ processed + failed <= old.total
    /\ status = "completed" => processed + failed = old.total

MutCancelUnstamped(old, status, processed, failed, message) ==
    [old EXCEPT !.status    = status,
                !.processed = processed,
                !.failed    = failed,
                !.started   = @ \/ status = "running",
                !.completed = status \in {"completed", "failed"},
                !.error     = IF status = "completed" THEN NoMessage
                              ELSE IF status = "failed" THEN message ELSE @]

\* The attributes the handler assigns to the loaded job.
Transitioned(old, status, processed, failed, message) ==
    [old EXCEPT !.status    = status,
                !.processed = processed,
                !.failed    = failed,
                !.started   = @ \/ status = "running",
                !.completed = status # "running",
                !.error     = IF status = "completed" THEN NoMessage
                              ELSE IF status = "failed" THEN message ELSE @]

\* datetime.now(UTC): the column the transition stamps.
Stamped(status) == IF status = "running" THEN {"started"} ELSE {"completed"}

Idle == [pc |-> "idle"]

Update == [pc : {"updating"}, job : Jobs, old : JobRow, new : JobRow]

\* SELECT without a lock, the checks, the assignments.  A payload the checks
\* refuse ends the request and changes nothing.
PatchLoad(p, j, status, processed, failed, message) ==
    /\ patch[p].pc = "idle"
    /\ j \in jobs
    /\ status \in Permitted(row[j].status)
    /\ CountersAccepted(row[j], status, processed, failed)
    /\ patch' = [patch EXCEPT ![p] =
         [pc |-> "updating", job |-> j, old |-> row[j],
          new |-> Transitioned(row[j], status, processed, failed, message)]]
    /\ UNCHANGED <<jobs, row>>

PatchedRow(p) ==
    LET u == patch[p] IN
        Merge(row[u.job], u.new, Dirty(u.old, u.new, Stamped(u.new.status)))

\* The UPDATE and its commit; the refresh that follows only builds the answer.
PatchCommit(p) ==
    /\ patch[p].pc = "updating"
    /\ patch[p].job \in jobs
    /\ SatisfiesCheck(PatchedRow(p))
    /\ row' = [row EXCEPT ![patch[p].job] = PatchedRow(p)]
    /\ patch' = [patch EXCEPT ![p] = Idle]
    /\ UNCHANGED jobs

\* The UPDATE matches no row (StaleDataError) or breaks the CHECK
\* (IntegrityError): get_db_session rolls back and the request ends.
PatchRejected(p) ==
    /\ patch[p].pc = "updating"
    /\ patch[p].job \notin jobs \/ ~SatisfiesCheck(PatchedRow(p))
    /\ patch' = [patch EXCEPT ![p] = Idle]
    /\ UNCHANGED <<jobs, row>>

\* DELETE /datasources/{id}: ON DELETE CASCADE takes the jobs with it.
DeleteDatasource ==
    /\ jobs # {}
    /\ jobs' = {}
    /\ UNCHANGED <<row, patch>>

-------------------------------------------------------------------------------

Init ==
    /\ jobs = Jobs
    /\ row \in [Jobs -> {NewRow(n) : n \in 0..MaxTotal}]
    /\ patch = [p \in Patchers |-> Idle]

PatchLoads(p) ==
    \E j \in Jobs, status \in Statuses, message \in Messages,
       processed \in 0..MaxTotal, failed \in 0..MaxTotal :
        PatchLoad(p, j, status, processed, failed, message)

Next ==
    \/ \E p \in Patchers : PatchLoads(p) \/ PatchCommit(p) \/ PatchRejected(p)
    \/ DeleteDatasource

Spec == Init /\ [][Next]_jobVars

-------------------------------------------------------------------------------
(* Properties                                                                *)

\* Every variable has its type; a PATCH in flight moves a job away from
\* pending, because no transition leads back there (import_job.py:98-107).
TypeOK ==
    /\ jobs \subseteq Jobs
    /\ row \in [Jobs -> JobRow]
    /\ patch \in [Patchers -> {Idle} \cup Update]
    /\ \A p \in Patchers :
         patch[p].pc = "updating" => patch[p].new.status \in Permitted(patch[p].old.status) \ {"pending"}

\* Two PATCHes that each pass the counter check against a row that has since
\* changed never leave more processed and failed items than the job has: the
\* handler's own check is stale by then and only the CHECK constraint is left.
CountersWithinTotal == \A j \in jobs : row[j].processed + row[j].failed <= row[j].total

\* Whatever the order in which racing PATCHes commit, a job that is running,
\* completed or failed has a started_at.
StartedOnceRun ==
    \A j \in jobs : row[j].status \in {"running", "completed", "failed"} => row[j].started

\* "Any terminal state sets completed_at" (README): no interleaving of partial
\* UPDATEs leaves a terminal job without one.
TerminalHasCompletedAt ==
    \A j \in jobs : row[j].status \in Terminal => row[j].completed

\* Both of the above, whatever partial UPDATEs of racing PATCHes have been merged.
\* The converse is not claimed: a stale PATCH to running over a job that another
\* has cancelled leaves completed_at on the running job.
TimestampsFollowStatus == StartedOnceRun /\ TerminalHasCompletedAt

\* README: counters "cannot decrease".
CountersNeverDecrease ==
    [][\A j \in jobs \cap jobs' :
         /\ row'[j].processed >= row[j].processed
         /\ row'[j].failed >= row[j].failed]_jobVars

\* README: "Completion clears the error message".
CompletedHasNoMessage ==
    \A j \in jobs : row[j].status = "completed" => row[j].error = NoMessage

\* README: "completion additionally requires that sum to equal total_items".
CompletedAccountsForAll ==
    \A j \in jobs : row[j].status = "completed" =>
        row[j].processed + row[j].failed = row[j].total

===============================================================================
