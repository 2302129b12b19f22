------------------------------ MODULE RecordPages ------------------------------
(***************************************************************************)
(* GET .../import-jobs/{id}/records and .../validation-issues              *)
(* (services/imported_record.py, services/import_validation_issue.py)      *)
(* beside everything CsvImportExecution does to the same job.              *)
(*                                                                         *)
(* A page is three statements of one session: the job, the page, the       *)
(* total.  The session is READ COMMITTED, so each statement sees what is   *)
(* committed when it starts: an import, a failure report or the deletion   *)
(* of the datasource may commit between any two of them.                   *)
(***************************************************************************)
EXTENDS CsvImportExecution

CONSTANTS
    Readers,     \* GET requests
    PageLimit    \* the limit a client asks for, Query(ge=1, le=100)

ASSUME PageLimitAssumption == PageLimit \in Nat \ {0}

VARIABLE
    read         \* read[q]: what GET request q has read

pageVars == <<vars, read>>

-------------------------------------------------------------------------------

Kinds == {"records", "issues"}

\* The rows of a job in the table a page is taken from; the issues of an
\* import are those of the one row it stopped at.
RowsOf(kind, j) ==
    IF kind = "records" THEN records[j] ELSE {i \in {1} : issues[j]}

MutSlice(S, offset) ==
    {i \in S : Cardinality({k \in S : k < i}) \in offset .. offset + PageLimit}

\* ORDER BY source_row_number OFFSET ... LIMIT ...
Slice(S, offset) ==
    {i \in S : Cardinality({k \in S : k < i}) \in offset .. offset + PageLimit - 1}

Unread == [pc |-> "unread"]

\* The job is loaded and belongs to the datasource of the path; a job that is
\* gone, or of another datasource, is answered 404.
ReadJob(q, j, kind, offset) ==
    /\ read[q].pc = "unread"
    /\ read' = [read EXCEPT ![q] =
         IF j \in jobs THEN [pc |-> "loaded", job |-> j, kind |-> kind, offset |-> offset,
                             status |-> row[j].status]
         ELSE [pc |-> "not_found"]]
    /\ UNCHANGED vars

ReadPage(q) ==
    /\ read[q].pc = "loaded"
    /\ read' = [read EXCEPT ![q] =
         [pc |-> "paged", job |-> @.job, kind |-> @.kind, offset |-> @.offset, status |-> @.status,
          items |-> Slice(RowsOf(@.kind, @.job), @.offset)]]
    /\ UNCHANGED vars

ReadTotal(q) ==
    /\ read[q].pc = "paged"
    /\ read' = [read EXCEPT ![q] =
         [pc |-> "answered", job |-> @.job, kind |-> @.kind, offset |-> @.offset, status |-> @.status,
          items |-> @.items, total |-> Cardinality(RowsOf(@.kind, @.job))]]
    /\ UNCHANGED vars

ReadStep(q) ==
    \/ \E j \in Jobs, kind \in Kinds, offset \in 0..MaxRows : ReadJob(q, j, kind, offset)
    \/ ReadPage(q)
    \/ ReadTotal(q)

\* A client reports by PATCH on the jobs it runs itself: those it created
\* without a file.  The server runs the others.  It reports on a job once the
\* PATCH before is answered.
PatchByHand(p) ==
    /\ PatchBegins(p)
    /\ file[patch'[p].job] = NoFile
    /\ \A s \in Patchers \ {p} :
         patch[s].pc = "updating" => patch[s].job # patch'[p].job

PageInit == ExecInit /\ read = [q \in Readers |-> Unread]

PageNext ==
    \/ \E r \in Executors :
         ((\E j \in Jobs : Request(r, j)) \/ ExecStep(r) \/ FaultStep(r)) /\ UNCHANGED read
    \/ \E p \in Patchers : (PatchByHand(p) \/ PatchEnds(p)) /\ UNCHANGED read
    \/ Delete /\ UNCHANGED read
    \/ \E q \in Readers : ReadStep(q)

PageSpec == PageInit /\ [][PageNext]_pageVars

-------------------------------------------------------------------------------
(* Properties                                                                *)

\* No reader ever sees a part of an import: a page is empty or a slice of all
\* rows of the file, the total is none or all of them, and a page with rows is
\* answered with a total of none only when the job has been deleted meanwhile.
PagesAreWhole ==
    \A q \in Readers : read[q].pc = "answered" =>
        LET j == read[q].job
            all == IF read[q].kind = "issues" THEN {1}
                   ELSE IF file[j] = NoFile THEN {} ELSE 1..file[j].rows
        IN  /\ read[q].items \in
                 {{}, {i \in all : i > read[q].offset /\ i <= read[q].offset + PageLimit}}
            /\ read[q].total \in {0, Cardinality(all)}
            /\ read[q].items # {} /\ read[q].total = 0 => j \notin jobs

\* A reader that finds the job completed finds its records, and no issues; one
\* that finds issues has not found the job completed.  The status and the
\* two tables are read by different statements.
StatusAnnouncesRows ==
    \A q \in Readers : read[q].pc = "answered" /\ read[q].job \in jobs =>
        LET j == read[q].job IN
            /\ read[q].status = "completed" /\ file[j] # NoFile =>
                 read[q].total = IF read[q].kind = "records" THEN file[j].rows ELSE 0
            /\ read[q].kind = "issues" /\ read[q].total > 0 => read[q].status # "completed"

Lifecycle == INSTANCE JobLifecycle
    WITH Jobs <- Jobs, NoMessage <- NoMessage, jobs <- jobs, row <- row

\* Execute requests, whatever fails and however they overlap, and PATCHes on the
\* jobs a client runs itself keep every job to the documented life cycle: the
\* permitted transitions, the timestamps and the message of each, and counters
\* that never go down.
ImplementsLifecycle == Lifecycle!Spec

===============================================================================
