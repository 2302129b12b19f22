------------------------------ MODULE FileUpload ------------------------------
(***************************************************************************)
(* POST /datasources/{id}/files: the route upload_file stores the bytes    *)
(* with LocalFileStorage.save and then records them with                   *)
(* UploadedFileService.create; when that raises, it removes the bytes      *)
(* again.  The disk and the database commit separately, and the checks     *)
(* before the INSERT are plain SELECTs: only the constraints of the table  *)
(* hold between them and the commit.                                       *)
(*                                                                         *)
(* One datasource.  A blob and a row carry the id of their upload, because *)
(* save names every file with a fresh uuid4.                               *)
(***************************************************************************)
EXTENDS Integers, FiniteSets

CONSTANTS
    Uploads,     \* upload requests
    Checksums,   \* sha256 digests of the contents they send
    Faults       \* "delete", "crash", "db_error", "lost_commit", as in CsvImportExecution,
                 \* and "disk_error"

VARIABLES
    alive,       \* the datasource has a row
    blobs,       \* files under the storage root
    rows,        \* committed uploaded_files
    up           \* up[u]: the progress of upload u

uploadVars == <<alive, blobs, rows, up>>

-------------------------------------------------------------------------------

Idle == [pc |-> "idle"]

\* The program counters of a request that has stored its bytes:
\*   saved, checking, inserting   before the SELECT of the datasource, the
\*                                SELECT of the checksum, and the INSERT
\*   inserted     the INSERT is flushed, not committed
\*   refreshing   committed
\*   compensating service.create raised: storage.delete is next
\* A request has ended when it is finished, or "leaked": what was to remove its
\* bytes, in save or in storage.delete, failed itself.
Storing == {"saved", "checking", "inserting", "inserted", "refreshing"}

UploadAnswers == {"rejected", "not_found", "conflict", "server_error", "created", "crashed"}

Upload == [pc : Storing, sum : Checksums]
            \cup [pc : {"compensating", "finished", "leaked"}, sum : Checksums, answer : UploadAnswers]

UploadAt(u, pc) == up[u].pc = pc

Moves(u, pc) == up' = [up EXCEPT ![u] = [pc |-> pc, sum |-> up[u].sum]]

Ends(u, pc, answer) == up' = [up EXCEPT ![u] = [pc |-> pc, sum |-> up[u].sum, answer |-> answer]]

Fails(u, answer) == Ends(u, "compensating", answer)

\* A committed row with the checksum, as another session sees it.
Taken(sum) == \E v \in rows : up[v].sum = sum

\* An INSERT of a key another open transaction has inserted waits for its end.
Waits(u) == \E v \in Uploads : UploadAt(v, "inserted") /\ up[v].sum = up[u].sum

-------------------------------------------------------------------------------
(* The request                                                               *)

\* The chunks are written in one go; the event loop runs nothing else meanwhile.
Save(u, sum) ==
    /\ UploadAt(u, "idle")
    /\ blobs' = blobs \cup {u}
    /\ up' = [up EXCEPT ![u] = [pc |-> "saved", sum |-> sum]]
    /\ UNCHANGED <<alive, rows>>

\* A refused name or type, an empty or too large body, a write error: save
\* removes what it wrote (SaveLeaks: if it can).
SaveFails(u, sum) ==
    /\ UploadAt(u, "idle")
    /\ up' = [up EXCEPT ![u] = [pc |-> "finished", sum |-> sum, answer |-> "rejected"]]
    /\ UNCHANGED <<alive, blobs, rows>>

FindDatasource(u) ==
    /\ UploadAt(u, "saved")
    /\ IF alive THEN Moves(u, "checking") ELSE Fails(u, "not_found")
    /\ UNCHANGED <<alive, blobs, rows>>

MutFindByChecksum(u) ==
    /\ UploadAt(u, "checking")
    /\ IF Waits(u) THEN Fails(u, "conflict") ELSE Moves(u, "inserting")
    /\ UNCHANGED <<alive, blobs, rows>>

FindByChecksum(u) ==
    /\ UploadAt(u, "checking")
    /\ IF Taken(up[u].sum) THEN Fails(u, "conflict") ELSE Moves(u, "inserting")
    /\ UNCHANGED <<alive, blobs, rows>>

MutAdmits(sum) == alive

\* The foreign key and the unique constraint of uploaded_files.
Admits(sum) == alive /\ ~Taken(sum)

Insert(u) ==
    /\ UploadAt(u, "inserting")
    /\ ~Waits(u)
    /\ IF Admits(up[u].sum) THEN Moves(u, "inserted") ELSE Fails(u, "server_error")
    /\ UNCHANGED <<alive, blobs, rows>>

Commit(u) ==
    /\ UploadAt(u, "inserted")
    /\ rows' = rows \cup {u}
    /\ Moves(u, "refreshing")
    /\ UNCHANGED <<alive, blobs>>

\* session.refresh raises when the datasource has been deleted since the commit.
Refresh(u) ==
    /\ UploadAt(u, "refreshing")
    /\ IF u \in rows THEN Ends(u, "finished", "created") ELSE Fails(u, "server_error")
    /\ UNCHANGED <<alive, blobs, rows>>

MutCompensate(u) ==
    /\ UploadAt(u, "compensating")
    /\ Ends(u, "finished", up[u].answer)
    /\ UNCHANGED <<alive, blobs, rows>>

MutCompensateByContent(u) ==
    /\ UploadAt(u, "compensating")
    /\ blobs' = blobs \ {v \in blobs : up[v].sum = up[u].sum}
    /\ Ends(u, "finished", up[u].answer)
    /\ UNCHANGED <<alive, rows>>

\* storage.delete, whatever the exception was and whether or not the row is there.
Compensate(u) ==
    /\ UploadAt(u, "compensating")
    /\ blobs' = blobs \ {u}
    /\ Ends(u, "finished", up[u].answer)
    /\ UNCHANGED <<alive, rows>>

-------------------------------------------------------------------------------
(* Faults                                                                    *)

\* target.unlink in an except arm of save raises an OSError, which no handler maps
\* and the route's compensation, which only follows a save, does not see.
SaveLeaks(u, sum) ==
    /\ "disk_error" \in Faults
    /\ UploadAt(u, "idle")
    /\ blobs' = blobs \cup {u}
    /\ up' = [up EXCEPT ![u] = [pc |-> "leaked", sum |-> sum, answer |-> "server_error"]]
    /\ UNCHANGED <<alive, rows>>

\* `suppress(Exception)` around storage.delete: the client is told the first error.
CompensateFails(u) ==
    /\ "disk_error" \in Faults
    /\ UploadAt(u, "compensating")
    /\ Ends(u, "leaked", up[u].answer)
    /\ UNCHANGED <<alive, blobs, rows>>

UploadDbError(u) ==
    /\ "db_error" \in Faults
    /\ up[u].pc \in Storing
    /\ Fails(u, "server_error")
    /\ UNCHANGED <<alive, blobs, rows>>

\* The commit takes effect and raises all the same.
UploadLostCommit(u) ==
    /\ "lost_commit" \in Faults
    /\ UploadAt(u, "inserted")
    /\ rows' = rows \cup {u}
    /\ Fails(u, "server_error")
    /\ UNCHANGED <<alive, blobs>>

\* The process ends, or the task is cancelled: `except Exception` does not see it.
UploadCrash(u) ==
    /\ "crash" \in Faults
    /\ up[u].pc \in Storing \cup {"compensating"}
    /\ Ends(u, "finished", "crashed")
    /\ UNCHANGED <<alive, blobs, rows>>

\* DELETE /datasources/{id} cascades to the rows and leaves the blobs; it waits
\* for the foreign-key locks of open transactions.
DeleteDatasource ==
    /\ "delete" \in Faults
    /\ alive
    /\ \A u \in Uploads : ~UploadAt(u, "inserted")
    /\ alive' = FALSE
    /\ rows' = {}
    /\ UNCHANGED <<blobs, up>>

-------------------------------------------------------------------------------

UploadInit ==
    /\ alive = TRUE
    /\ blobs = {}
    /\ rows = {}
    /\ up = [u \in Uploads |-> Idle]

UploadStep(u) ==
    \/ \E sum \in Checksums : Save(u, sum) \/ SaveFails(u, sum) \/ SaveLeaks(u, sum)
    \/ FindDatasource(u) \/ FindByChecksum(u) \/ Insert(u) \/ Commit(u)
    \/ Refresh(u) \/ Compensate(u)
    \/ CompensateFails(u) \/ UploadDbError(u) \/ UploadLostCommit(u) \/ UploadCrash(u)

UploadNext ==
    \/ \E u \in Uploads : UploadStep(u)
    \/ DeleteDatasource

UploadSpec == UploadInit /\ [][UploadNext]_uploadVars

-------------------------------------------------------------------------------
(* Properties                                                                *)

\* Every variable has its type; a row belongs to a request that has begun, and a
\* request that is storing its row has its bytes on the disk.
UploadTypeOK ==
    /\ alive \in BOOLEAN
    /\ blobs \subseteq Uploads
    /\ rows \subseteq Uploads
    /\ up \in [Uploads -> {Idle} \cup Upload]
    /\ \A u \in rows : ~UploadAt(u, "idle")
    /\ \A u \in Uploads : up[u].pc \in Storing => u \in blobs

\* Uploads of the same content that race past the checksum query never leave
\* two rows: the loser's INSERT waits for the winner and then fails.
UniqueChecksums ==
    \A u, v \in rows : up[u].sum = up[v].sum => u = v

Ended(u) == up[u].pc \in {"finished", "leaked"}

Answered(u, answer) == Ended(u) /\ up[u].answer = answer

\* A client that is answered 201 has its row and its bytes until the datasource
\* goes, whatever the uploads beside it clean up.
CreatedMeansStored ==
    \A u \in Uploads : Answered(u, "created") /\ alive => u \in rows \cap blobs

\* A request that has ended leaves bytes without a row only if it never got to
\* clean up, if the disk would not let it (in save, of a part of the upload, or in
\* the compensation), or if the datasource was deleted (whose blobs nothing removes).
OrphanOnlyAfterCrash ==
    \A u \in blobs \ rows : Ended(u) => Answered(u, "crashed") \/ UploadAt(u, "leaked") \/ ~alive

\* A row without its bytes, which no import can read, is only left by a failure
\* after the commit, and its client was answered an error.
DanglingOnlyAfterError ==
    \A u \in rows \ blobs : Answered(u, "server_error")

\* A client that is told "conflict" finds a row with its content.
ConflictHasWinner ==
    \A u \in Uploads : Answered(u, "conflict") /\ alive => \E v \in rows \ {u} : up[v].sum = up[u].sum

===============================================================================
