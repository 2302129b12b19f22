--------------------------- MODULE JobIntake_proofs ---------------------------
(***************************************************************************)
(* The upload and the creation of jobs, for any number of requests and     *)
(* whatever fails: the look-ups that come before an INSERT prove nothing,  *)
(* so the argument rests on the constraint checked by the INSERT and on    *)
(* what a transaction holds from there to its commit (UploadOK, CreatorOK).*)
(***************************************************************************)
EXTENDS JobIntake, TLAPS

\* What the progress of an upload says of its row and its bytes.
UploadOK(u) ==
    /\ u \in rows => up[u].pc \in {"refreshing", "compensating", "finished", "leaked"}
    /\ u \in rows /\ UploadAt(u, "compensating") => up[u].answer = "server_error"
    /\ UploadAt(u, "idle") => u \notin blobs
    /\ UploadAt(u, "compensating") => up[u].answer \notin {"created", "crashed"}
    /\ UploadAt(u, "inserted") => alive /\ ~Taken(up[u].sum)

\* An open INSERT keeps every other one of the same checksum waiting.
OneOpenInsert ==
    \A u, v \in Uploads :
        UploadAt(u, "inserted") /\ UploadAt(v, "inserted") /\ up[u].sum = up[v].sum => u = v

UInv ==
    /\ UploadTypeOK
    /\ ~alive => rows = {}
    /\ \A u \in Uploads : UploadOK(u)
    /\ OneOpenInsert
    /\ UniqueChecksums
    /\ CreatedMeansStored
    /\ OrphanOnlyAfterCrash
    /\ DanglingOnlyAfterError

-------------------------------------------------------------------------------
(* Uploads                                                                   *)

\* Nothing is stored and nothing is asked for at first.
LEMMA UploadInitial == UploadInit => UInv
BY DEF UploadInit, UInv, UploadTypeOK, UploadOK, OneOpenInsert, UniqueChecksums,
       CreatedMeansStored, OrphanOnlyAfterCrash, DanglingOnlyAfterError, Idle, UploadAt,
       Ended, Answered, Taken, Storing

\* One step per action; the constraint matters in <1>4 alone, which is what
\* makes <1>5 and <1>9 keep the checksums unique.
LEMMA UploadStepInv ==
    ASSUME UInv, NEW u \in Uploads, UploadStep(u)
    PROVE  UInv'
<1> USE DEF UInv, UploadTypeOK, UploadOK, OneOpenInsert, UniqueChecksums, CreatedMeansStored,
            OrphanOnlyAfterCrash, DanglingOnlyAfterError, Idle, Upload, Storing, UploadAnswers,
            UploadAt, Ended, Answered, Taken, Moves, Ends, Fails
<1>1. CASE \E sum \in Checksums : Save(u, sum) \/ SaveFails(u, sum) \/ SaveLeaks(u, sum)
  BY <1>1 DEF Save, SaveFails, SaveLeaks
<1>2. CASE FindDatasource(u)
  BY <1>2 DEF FindDatasource
<1>3. CASE FindByChecksum(u)
  BY <1>3 DEF FindByChecksum
<1>4. CASE Insert(u)
  BY <1>4 DEF Insert, Waits, Admits
<1>5. CASE Commit(u)
  BY <1>5 DEF Commit
<1>6. CASE Refresh(u)
  BY <1>6 DEF Refresh
<1>7. CASE Compensate(u) \/ CompensateFails(u)
  BY <1>7 DEF Compensate, CompensateFails
<1>8. CASE UploadDbError(u) \/ UploadCrash(u)
  BY <1>8 DEF UploadDbError, UploadCrash
<1>9. CASE UploadLostCommit(u)
  BY <1>9 DEF UploadLostCommit
<1> QED
  BY <1>1, <1>2, <1>3, <1>4, <1>5, <1>6, <1>7, <1>8, <1>9 DEF UploadStep

\* The deletion waits for the open INSERTs, so it takes every row there will be.
LEMMA DeleteInv ==
    ASSUME UInv, DeleteDatasource
    PROVE  UInv'
BY DEF UInv, UploadTypeOK, UploadOK, OneOpenInsert, UniqueChecksums, CreatedMeansStored,
       OrphanOnlyAfterCrash, DanglingOnlyAfterError, DeleteDatasource, UploadAt, Ended, Answered, Taken, Idle

\* What leaves the uploads leaves their invariant.
LEMMA UploadStutter ==
    ASSUME UInv, UNCHANGED uploadVars
    PROVE  UInv'
BY DEF UInv, UploadTypeOK, UploadOK, OneOpenInsert, UniqueChecksums, CreatedMeansStored,
       OrphanOnlyAfterCrash, DanglingOnlyAfterError, uploadVars, UploadAt, Ended, Answered, Taken

\* Uploads alone: the invariant holds in every reachable state.
THEOREM UploadInvariance == UploadSpec => []UInv
<1>1. UInv /\ [UploadNext]_uploadVars => UInv'
  BY UploadStepInv, DeleteInv, UploadStutter DEF UploadNext
<1> QED
  BY UploadInitial, <1>1, PTL DEF UploadSpec

-------------------------------------------------------------------------------
(* Jobs                                                                      *)

\* What the progress of a creator says of its row; an INSERT that is flushed
\* holds the key, and the datasource and the file by their foreign keys.
CreatorOK(c) ==
    /\ c \in jobRows => req[c].pc \in {"refreshing", "finished"}
    /\ CreatorAt(c, "inserted") => JobAdmitted(c)
    /\ CreatorAt(c, "finished") /\ req[c].answer = "created" /\ alive => c \in jobRows

OneOpenKey ==
    \A c, d \in Creators :
        CreatorAt(c, "inserted") /\ CreatorAt(d, "inserted") /\ req[c].key = req[d].key => c = d

CreatorTypeOK ==
    /\ jobRows \subseteq Creators
    /\ req \in [Creators -> {Idle} \cup Creator]

\* The intake's invariant: the uploads', and the same argument for the keys.
JInv ==
    /\ UInv
    /\ CreatorTypeOK
    /\ \A c \in Creators : CreatorOK(c)
    /\ OneOpenKey
    /\ OneJobPerKey
    /\ OneCreationPerKey
    /\ JobKeepsItsFile

\* Nothing is asked for at first.
LEMMA IntakeInitial == IntakeInit => JInv
<1>1. IntakeInit => UInv
  BY UploadInitial DEF IntakeInit
<1> QED
  BY <1>1 DEF IntakeInit, JInv, CreatorTypeOK, CreatorOK, OneOpenKey, OneJobPerKey, OneCreationPerKey,
              JobKeepsItsFile, Idle, CreatorAt

\* A step of an upload only ever adds a file row.
LEMMA UploadStepRows ==
    ASSUME NEW u \in Uploads, UploadStep(u)
    PROVE  rows \subseteq rows' /\ alive' = alive
BY DEF UploadStep, Save, SaveFails, SaveLeaks, FindDatasource, FindByChecksum, Insert, Commit,
       Refresh, Compensate, CompensateFails, UploadDbError, UploadLostCommit, UploadCrash

\* Uploads add rows and take none away that a job refers to.
LEMMA JobsKeepByUpload ==
    ASSUME JInv, NEW u \in Uploads, UploadStep(u), UNCHANGED <<jobRows, req>>
    PROVE  JInv'
<1>1. UInv'
  BY UploadStepInv DEF JInv
<1>2. rows \subseteq rows' /\ alive' = alive
  BY UploadStepRows
<1> QED
  BY <1>1, <1>2 DEF JInv, CreatorTypeOK, CreatorOK, OneOpenKey, OneJobPerKey,
        OneCreationPerKey, JobKeepsItsFile,
                    CreatorAt, JobAdmitted, KeyTaken

\* A step of a job creation; the INSERT holds its key and its parents.
LEMMA CreatorStepInv ==
    ASSUME JInv, NEW c \in Creators, CreatorStep(c)
    PROVE  JInv'
<1>0. UNCHANGED uploadVars
  BY DEF CreatorStep, Ask, LookUpDatasource, LookUpFile, LookUpKey, InsertJob, CommitJob,
         RefreshJob, CreatorFault
<1>u. UInv' /\ alive' = alive /\ rows' = rows
  BY <1>0, UploadStutter DEF JInv, uploadVars
<1> USE <1>u DEF JInv, CreatorTypeOK, CreatorOK, OneOpenKey, OneJobPerKey,
        OneCreationPerKey, JobKeepsItsFile,
        CreatorAt, JobAdmitted, KeyTaken, Creator, Looking, CreatorAnswers, Goes, Answers, Idle
<1>1. CASE \E key \in Keys, upload \in Uploads \cup {NoUpload} : Ask(c, key, upload)
  BY <1>1 DEF Ask
<1>2. CASE LookUpDatasource(c)
  BY <1>2 DEF LookUpDatasource
<1>3. CASE LookUpFile(c)
  BY <1>3 DEF LookUpFile
<1>4. CASE LookUpKey(c)
  BY <1>4 DEF LookUpKey
<1>5. CASE InsertJob(c)
  BY <1>5 DEF InsertJob, KeyWaits
<1>6. CASE CommitJob(c)
  BY <1>6 DEF CommitJob
<1>7. CASE RefreshJob(c)
  BY <1>7 DEF RefreshJob
<1>8. CASE CreatorFault(c)
  BY <1>8 DEF CreatorFault
<1> QED
  BY <1>1, <1>2, <1>3, <1>4, <1>5, <1>6, <1>7, <1>8 DEF CreatorStep

\* The deletion of the datasource takes jobs and files together.
LEMMA JobsDeleteInv ==
    ASSUME JInv, DeleteWithJobs
    PROVE  JInv'
<1>1. UInv'
  BY DeleteInv DEF JInv, DeleteWithJobs
<1> QED
  BY <1>1 DEF JInv, DeleteWithJobs, Deletable, DeleteDatasource, CreatorTypeOK, CreatorOK,
              OneOpenKey, OneJobPerKey, OneCreationPerKey, JobKeepsItsFile, CreatorAt

\* What changes nothing leaves the invariant.
LEMMA IntakeStutter ==
    ASSUME JInv, UNCHANGED intakeVars
    PROVE  JInv'
<1>1. UInv'
  BY UploadStutter DEF JInv, intakeVars
<1> QED
  BY <1>1 DEF JInv, intakeVars, uploadVars, CreatorTypeOK, CreatorOK, OneOpenKey, OneJobPerKey, OneCreationPerKey,
              JobKeepsItsFile, CreatorAt, JobAdmitted, KeyTaken

\* Uploads, creations and the deletion together.
THEOREM IntakeInvariance == IntakeSpec => []JInv
<1>1. JInv /\ [IntakeNext]_intakeVars => JInv'
  BY JobsKeepByUpload, CreatorStepInv, JobsDeleteInv, IntakeStutter DEF IntakeNext
<1> QED
  BY IntakeInitial, <1>1, PTL DEF IntakeSpec

\* No race of uploads leaves two rows with the same content
\* (services/uploaded_file.py:44-56 and the unique constraint).
THEOREM ChecksumsUnique == IntakeSpec => []UniqueChecksums
BY IntakeInvariance, PTL DEF JInv, UInv

\* Whoever is answered 201 has row and bytes until the datasource goes
\* (routes/datasources.py:99-118).
THEOREM CreatedIsStored == IntakeSpec => []CreatedMeansStored
BY IntakeInvariance, PTL DEF JInv, UInv

\* No bytes are forgotten but those of a crash, of a disk that refuses to remove
\* them, in save or in the compensation, or of a deleted datasource
\* (routes/datasources.py:114-117, storage/local.py:56-61).
THEOREM BytesAccounted == IntakeSpec => []OrphanOnlyAfterCrash
BY IntakeInvariance, PTL DEF JInv, UInv

\* It takes the bytes of a committed row only when it answers an error
\* (routes/datasources.py:114-117).
THEOREM RowsAccounted == IntakeSpec => []DanglingOnlyAfterError
BY IntakeInvariance, PTL DEF JInv, UInv

\* A key has one job, however its requests race and are retried
\* (services/import_job.py:72-90, services/mapping_preparation.py:46-68).
THEOREM KeysUnique == IntakeSpec => []OneJobPerKey
BY IntakeInvariance, PTL DEF JInv

\* At most one request with a key is ever answered 201, also across the deletion.
THEOREM CreatedOnce == IntakeSpec => []OneCreationPerKey
BY IntakeInvariance, PTL DEF JInv

\* A job keeps its datasource and its file (the foreign keys of
\* models/import_job.py:43-48 and 78-85).
THEOREM FilesKept == IntakeSpec => []JobKeepsItsFile
BY IntakeInvariance, PTL DEF JInv

-------------------------------------------------------------------------------
(* The answer of an upload that found its content                            *)

\* From the look-up on, a request that is told "conflict" has a rival's row.
Rival(u) == \E v \in rows \ {u} : up[v].sum = up[u].sum

Told(u) ==
    up[u].pc \in {"compensating", "finished", "leaked"} /\ up[u].answer = "conflict" /\ alive => Rival(u)

\* A request keeps its content, and a row its request.
LEMMA SumsStay ==
    ASSUME UInv, NEW u \in Uploads, UploadStep(u)
    PROVE  /\ \A v \in Uploads : v # u => up'[v] = up[v]
           /\ ~UploadAt(u, "idle") => up'[u].sum = up[u].sum
<1> USE DEF UInv, UploadTypeOK, Moves, Ends, Fails, UploadAt
<1>1. CASE \E sum \in Checksums : Save(u, sum) \/ SaveFails(u, sum) \/ SaveLeaks(u, sum)
  BY <1>1 DEF Save, SaveFails, SaveLeaks
<1>2. CASE FindDatasource(u) \/ FindByChecksum(u) \/ Insert(u)
  BY <1>2 DEF FindDatasource, FindByChecksum, Insert
<1>3. CASE Commit(u) \/ Refresh(u) \/ Compensate(u)
  BY <1>3 DEF Commit, Refresh, Compensate
<1>4. CASE CompensateFails(u) \/ UploadDbError(u) \/ UploadLostCommit(u) \/ UploadCrash(u)
  BY <1>4 DEF CompensateFails, UploadDbError, UploadLostCommit, UploadCrash
<1> QED BY <1>1, <1>2, <1>3, <1>4 DEF UploadStep

\* So a rival stays one.
LEMMA RivalStays ==
    ASSUME UInv, NEW u \in Uploads, UploadStep(u), NEW v \in Uploads, ~UploadAt(v, "idle"), Rival(v)
    PROVE  Rival(v)'
<1>1. PICK w \in rows \ {v} : up[w].sum = up[v].sum
  BY DEF Rival
<1>2. w \in Uploads /\ ~UploadAt(w, "idle") /\ w \in rows'
  BY UploadStepRows DEF UInv, UploadTypeOK
<1>3. up'[w].sum = up[w].sum /\ up'[v].sum = up[v].sum
  BY <1>2, SumsStay
<1> QED BY <1>1, <1>2, <1>3 DEF Rival

\* Only the look-up tells "conflict", and it has seen the row.
LEMMA ConflictBefore ==
    ASSUME DOMAIN up = Uploads, NEW u \in Uploads, UploadStep(u),
           up'[u].pc \in {"compensating", "finished", "leaked"}, up'[u].answer = "conflict"
    PROVE  \/ UploadAt(u, "checking") /\ Taken(up[u].sum)
           \/ up[u].pc \in {"compensating", "leaked"} /\ up[u].answer = "conflict"
<1> USE DEF Moves, Ends, Fails, UploadAt
<1>1. CASE \E sum \in Checksums : Save(u, sum) \/ SaveFails(u, sum) \/ SaveLeaks(u, sum)
  BY <1>1 DEF Save, SaveFails, SaveLeaks
<1>2. CASE FindDatasource(u)
  BY <1>2 DEF FindDatasource
<1>3. CASE FindByChecksum(u)
  BY <1>3 DEF FindByChecksum
<1>4. CASE Insert(u)
  BY <1>4 DEF Insert
<1>5. CASE Commit(u) \/ UploadLostCommit(u)
  BY <1>5 DEF Commit, UploadLostCommit
<1>6. CASE Refresh(u)
  BY <1>6 DEF Refresh
<1>7. CASE Compensate(u) \/ CompensateFails(u)
  BY <1>7 DEF Compensate, CompensateFails
<1>8. CASE UploadDbError(u) \/ UploadCrash(u)
  BY <1>8 DEF UploadDbError, UploadCrash
<1> QED BY <1>1, <1>2, <1>3, <1>4, <1>5, <1>6, <1>7, <1>8 DEF UploadStep

\* So whoever is told has a rival, from the look-up to the end.
LEMMA ToldKept ==
    ASSUME UInv, \A v \in Uploads : Told(v), NEW u \in Uploads, UploadStep(u), NEW v \in Uploads
    PROVE  Told(v)'
<1>0. alive' = alive
  BY UploadStepRows
<1>1. CASE v # u
  <2>1. up'[v] = up[v]
    BY <1>1, SumsStay
  <2> QED BY <1>0, <2>1, RivalStays DEF Told, UploadAt
<1>2. CASE v = u
  <2> SUFFICES ASSUME up'[u].pc \in {"compensating", "finished", "leaked"}, up'[u].answer = "conflict", alive
               PROVE  Rival(u)'
    BY <1>0, <1>2 DEF Told
  <2>0. DOMAIN up = Uploads
    BY DEF UInv, UploadTypeOK
  <2>1. \/ UploadAt(u, "checking") /\ Taken(up[u].sum)
        \/ up[u].pc \in {"compensating", "leaked"} /\ up[u].answer = "conflict"
    BY <2>0, ConflictBefore
  <2>2. ~UploadAt(u, "idle") /\ Rival(u)
    BY <2>1 DEF UInv, UploadOK, UploadAt, Taken, Told, Rival
  <2> QED BY <2>2, RivalStays
<1> QED BY <1>1, <1>2

\* A client that is told "conflict" has not been turned away by an upload that
\* then failed: there is a row with its content as long as the datasource
\* exists, whatever fails meanwhile (services/uploaded_file.py:44-48).
THEOREM ConflictsTrue == IntakeSpec => []ConflictHasWinner
<1> DEFINE TInv == JInv /\ \A u \in Uploads : Told(u)
<1>1. IntakeInit => TInv
  BY IntakeInitial DEF IntakeInit, UploadInit, Told, Idle
<1>2. TInv /\ [IntakeNext]_intakeVars => TInv'
  <2> SUFFICES ASSUME TInv, [IntakeNext]_intakeVars PROVE TInv'
    OBVIOUS
  <2>1. JInv'
    BY JobsKeepByUpload, CreatorStepInv, JobsDeleteInv, IntakeStutter DEF IntakeNext
  <2>2. ASSUME NEW u \in Uploads, UploadStep(u) PROVE \A v \in Uploads : Told(v)'
    BY <2>2, ToldKept DEF JInv
  <2>3. ASSUME UNCHANGED uploadVars PROVE \A v \in Uploads : Told(v)'
    BY <2>3 DEF uploadVars, Told, Rival
  <2>4. ASSUME DeleteWithJobs PROVE \A v \in Uploads : Told(v)'
    BY <2>4 DEF DeleteWithJobs, DeleteDatasource, Told
  <2>5. ASSUME NEW c \in Creators, CreatorStep(c) PROVE UNCHANGED uploadVars
    BY <2>5 DEF CreatorStep, Ask, LookUpDatasource, LookUpFile, LookUpKey, InsertJob, CommitJob,
       RefreshJob, CreatorFault
  <2> QED BY <2>1, <2>2, <2>3, <2>4, <2>5 DEF IntakeNext, intakeVars
<1>3. TInv => ConflictHasWinner
  BY DEF Told, Rival, ConflictHasWinner, Answered, Ended
<1> QED BY <1>1, <1>2, <1>3, PTL DEF IntakeSpec

===============================================================================
