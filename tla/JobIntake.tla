------------------------------ MODULE JobIntake ------------------------------
(***************************************************************************)
(* The two requests that create a job of a datasource, beside the uploads  *)
(* of FileUpload: ImportJobService.create (POST .../import-jobs) and       *)
(* MappingPreparationService.prepare (POST .../files/{file}/imports),      *)
(* which ties the job to an uploaded file.  Both look the idempotency key  *)
(* up and insert later; the unique constraint is what is left when two     *)
(* requests, or a request and its retry, pass the look-up together.        *)
(***************************************************************************)
EXTENDS FileUpload

CONSTANTS
    Creators,    \* create and prepare requests, retries included
    Keys,        \* idempotency keys
    NoUpload     \* the job is made by create: uploaded_file_id IS NULL

ASSUME NoUploadAssumption == NoUpload \notin Uploads

VARIABLES
    jobRows,     \* creators whose import_jobs row is committed
    req          \* req[c]: the progress of creator c

intakeVars == <<uploadVars, jobRows, req>>

-------------------------------------------------------------------------------

\* The program counters before each statement: the SELECTs of the datasource,
\* of the file (prepare alone) and of the key, the INSERT, the commit, the refresh.
Looking == {"datasource", "file", "key", "inserting", "inserted", "refreshing"}

CreatorAnswers == {"not_found", "invalid_mapping", "conflict", "server_error", "created", "crashed"}

Creator == [pc : Looking, key : Keys, upload : Uploads \cup {NoUpload}]
             \cup [pc : {"finished"}, key : Keys, upload : Uploads \cup {NoUpload},
                   answer : CreatorAnswers]

CreatorAt(c, pc) == req[c].pc = pc

Goes(c, pc) ==
    req' = [req EXCEPT ![c] = [pc |-> pc, key |-> req[c].key, upload |-> req[c].upload]]

Answers(c, answer) ==
    req' = [req EXCEPT ![c] = [pc |-> "finished", key |-> req[c].key,
                               upload |-> req[c].upload, answer |-> answer]]

KeyTaken(key) == \E d \in jobRows : req[d].key = key

KeyWaits(c) == \E d \in Creators : CreatorAt(d, "inserted") /\ req[d].key = req[c].key

-------------------------------------------------------------------------------

Ask(c, key, upload) ==
    /\ CreatorAt(c, "idle")
    /\ req' = [req EXCEPT ![c] = [pc |-> "datasource", key |-> key, upload |-> upload]]
    /\ UNCHANGED <<uploadVars, jobRows>>

LookUpDatasource(c) ==
    /\ CreatorAt(c, "datasource")
    /\ IF ~alive THEN Answers(c, "not_found")
       ELSE Goes(c, IF req[c].upload = NoUpload THEN "key" ELSE "file")
    /\ UNCHANGED <<uploadVars, jobRows>>

\* The file, and the validation of the mapping, which asks for no statement.
LookUpFile(c) ==
    /\ CreatorAt(c, "file")
    /\ IF req[c].upload \notin rows THEN Answers(c, "not_found")
       ELSE Goes(c, "key") \/ Answers(c, "invalid_mapping")
    /\ UNCHANGED <<uploadVars, jobRows>>

LookUpKey(c) ==
    /\ CreatorAt(c, "key")
    /\ IF KeyTaken(req[c].key) THEN Answers(c, "conflict") ELSE Goes(c, "inserting")
    /\ UNCHANGED <<uploadVars, jobRows>>

MutJobAdmitted(c) == alive /\ (req[c].upload # NoUpload => req[c].upload \in rows)

MutNoForeignKeys(c) == ~KeyTaken(req[c].key)

\* The unique constraint and the foreign keys of import_jobs.
JobAdmitted(c) ==
    /\ alive
    /\ ~KeyTaken(req[c].key)
    /\ req[c].upload # NoUpload => req[c].upload \in rows

InsertJob(c) ==
    /\ CreatorAt(c, "inserting")
    /\ ~KeyWaits(c)
    /\ IF JobAdmitted(c) THEN Goes(c, "inserted") ELSE Answers(c, "server_error")
    /\ UNCHANGED <<uploadVars, jobRows>>

CommitJob(c) ==
    /\ CreatorAt(c, "inserted")
    /\ jobRows' = jobRows \cup {c}
    /\ Goes(c, "refreshing")
    /\ UNCHANGED uploadVars

RefreshJob(c) ==
    /\ CreatorAt(c, "refreshing")
    /\ Answers(c, IF c \in jobRows THEN "created" ELSE "server_error")
    /\ UNCHANGED <<uploadVars, jobRows>>

CreatorFault(c) ==
    /\ req[c].pc \in Looking
    /\ \/ "db_error" \in Faults /\ Answers(c, "server_error") /\ UNCHANGED jobRows
       \/ "crash" \in Faults /\ Answers(c, "crashed") /\ UNCHANGED jobRows
       \/ /\ "lost_commit" \in Faults /\ CreatorAt(c, "inserted")
          /\ Answers(c, "server_error")
          /\ jobRows' = jobRows \cup {c}
    /\ UNCHANGED uploadVars

\* The foreign key of an open INSERT makes the DELETE wait.
Deletable == \A c \in Creators : ~CreatorAt(c, "inserted")

\* The cascade takes the jobs with the files.
DeleteWithJobs ==
    /\ DeleteDatasource
    /\ Deletable
    /\ jobRows' = {}
    /\ UNCHANGED req

-------------------------------------------------------------------------------

IntakeInit ==
    /\ UploadInit
    /\ jobRows = {}
    /\ req = [c \in Creators |-> Idle]

CreatorStep(c) ==
    \/ \E key \in Keys, upload \in Uploads \cup {NoUpload} : Ask(c, key, upload)
    \/ LookUpDatasource(c) \/ LookUpFile(c) \/ LookUpKey(c)
    \/ InsertJob(c) \/ CommitJob(c) \/ RefreshJob(c)
    \/ CreatorFault(c)

IntakeNext ==
    \/ \E u \in Uploads : UploadStep(u) /\ UNCHANGED <<jobRows, req>>
    \/ \E c \in Creators : CreatorStep(c)
    \/ DeleteWithJobs

IntakeSpec == IntakeInit /\ [][IntakeNext]_intakeVars

-------------------------------------------------------------------------------
(* Properties                                                                *)

\* Idempotency is "scoped to organization_id + datasource_id +
\* idempotency_key" (README): requests that race past the look-up of the key,
\* or retries of one whose answer was lost, leave one job for it.
OneJobPerKey == \A c, d \in jobRows : req[c].key = req[d].key => c = d

\* Of all requests with one key at most one is ever answered 201.
OneCreationPerKey ==
    \A c, d \in Creators :
        /\ CreatorAt(c, "finished") /\ req[c].answer = "created"
        /\ CreatorAt(d, "finished") /\ req[d].answer = "created"
        /\ req[c].key = req[d].key
        => c = d

\* A prepared job keeps its file: no deletion between the look-up of the file
\* and the INSERT leaves a job that points to a file, or a datasource, that is gone.
JobKeepsItsFile ==
    \A c \in jobRows : alive /\ (req[c].upload # NoUpload => req[c].upload \in rows)

===============================================================================
