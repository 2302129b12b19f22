---------------------- MODULE CsvImportExecution_proofs ----------------------
(***************************************************************************)
(* Imports are exclusive and all-or-nothing for any number of execute      *)
(* requests, PATCHes, jobs and rows, any batch size, and with every fault  *)
(* of the module: crashes, failing statements, lost commits, deletions.    *)
(*                                                                         *)
(* The invariant says what the row lock carries from one statement of a    *)
(* request to the next: while a request is checking, its job is there and  *)
(* still pending; while it is marking, its job is there and still running; *)
(* and a job some request imports is pending for nobody.                   *)
(***************************************************************************)
EXTENDS CsvImportExecution, ImportJobs_proofs, FiniteSetTheorems

TablesOK ==
    /\ jobs \subseteq Jobs
    /\ row \in [Jobs -> JobRow]
    /\ patch \in [Patchers -> {Idle} \cup Update]
    /\ file \in [Jobs -> Files \cup {NoFile}]
    /\ records \in [Jobs -> SUBSET (Nat \ {0})]
    /\ issues \in [Jobs -> BOOLEAN]
    /\ ex \in [Executors -> {Ready} \cup Active \cup Finished]

\* A PATCH in flight writes the status, and never writes pending.
PatchMoves(p) ==
    patch[p].pc = "updating" =>
        /\ patch[p] \in Update
        /\ patch[p].new.status # patch[p].old.status
        /\ patch[p].new.status # "pending"

\* What a request knows of its job between two of its statements.
ExOK(r) ==
    /\ At(r, "claiming") => ex[r].staged = 0
    /\ ex[r].pc \in Working \ {"claiming"} =>
         FileOf(r) # NoFile /\ ex[r].staged <= FileOf(r).rows
    /\ At(r, "checking") =>
         JobOf(r) \in jobs /\ row[JobOf(r)].status = "pending" /\ ex[r].loaded.status = "pending"
    /\ At(r, "marking") =>
         JobOf(r) \in jobs /\ row[JobOf(r)].status = "running" /\ ex[r].loaded.status = "running"
    /\ ex[r].pc \in {"importing", "refreshing", "failing", "marking"} =>
         row[JobOf(r)].status # "pending"
    /\ At(r, "importing") => records[JobOf(r)] = {} /\ ex[r].loaded.status = "running"

JobOK(j) ==
    /\ row[j].status = "pending" => ~row[j].started /\ records[j] = {} /\ ~issues[j]
    /\ j \notin jobs => records[j] = {} /\ ~issues[j]
    /\ records[j] # {} =>
         file[j] # NoFile /\ file[j].end = "eof" /\ records[j] = 1..file[j].rows

EInv ==
    /\ TablesOK
    /\ \A p \in Patchers : PatchMoves(p)
    /\ \A r \in Executors : ExOK(r)
    /\ \A j \in Jobs : JobOK(j)
    /\ SingleImporter

-------------------------------------------------------------------------------

\* A request with a program counter inside execute has a job.
LEMMA ActiveShape ==
    ASSUME TablesOK, NEW r \in Executors, ex[r].pc \in Working
    PROVE  /\ ex[r] \in Active /\ JobOf(r) \in Jobs /\ FileOf(r) \in Files \cup {NoFile}
           /\ ex[r].staged \in Nat /\ ex[r].loaded \in JobRow /\ ex[r].withIssues \in BOOLEAN
           /\ row[JobOf(r)] \in JobRow
<1>1. ex[r] \in {Ready} \cup Active \cup Finished
  BY DEF TablesOK
<1>2. ex[r] # Ready
  BY DEF Ready, Working
<1>3. ex[r] \notin Finished
  BY DEF Finished, Working
<1>4. ex[r] \in Active
  BY <1>1, <1>2, <1>3
<1>5. ex[r].job \in Jobs
  BY <1>4 DEF Active
<1> QED
  BY <1>4, <1>5 DEF Active, JobOf, FileOf, TablesOK

(* Steps by what they change                                                 *)

\* A step that changes the local state of one request and nothing else.
LEMMA LocalStep ==
    ASSUME EInv, NEW r \in Executors, NEW v \in {Ready} \cup Active \cup Finished,
           ex' = [ex EXCEPT ![r] = v],
           UNCHANGED <<jobVars, file, records, issues>>,
           ExOK(r)',
           \A j \in Jobs : InImport(r, j)' =>
               InImport(r, j) \/ \A s \in Executors \ {r} : ~InImport(s, j)
    PROVE  EInv'
<1>1. /\ jobs' = jobs /\ row' = row /\ patch' = patch /\ file' = file
      /\ records' = records /\ issues' = issues
  BY DEF jobVars
<1>2. ex' \in [Executors -> {Ready} \cup Active \cup Finished]
  BY DEF EInv, TablesOK
<1>3. \A s \in Executors : ex'[s] = IF s = r THEN v ELSE ex[s]
  BY DEF EInv, TablesOK
<1>4. TablesOK'
  BY <1>1, <1>2 DEF EInv, TablesOK
<1>5. \A p \in Patchers : PatchMoves(p)'
  BY <1>1 DEF EInv, PatchMoves
<1>6. \A j \in Jobs : JobOK(j)'
  BY <1>1 DEF EInv, JobOK
<1>7. ASSUME NEW s \in Executors PROVE ExOK(s)'
  <2>1. CASE s = r
    BY <2>1
  <2>2. CASE s # r
    BY <2>2, <1>1, <1>3 DEF EInv, ExOK, At, JobOf, FileOf
  <2> QED
    BY <2>1, <2>2
<1>8. \A s \in Executors \ {r}, j \in Jobs : InImport(s, j)' = InImport(s, j)
  BY <1>3 DEF InImport, JobOf
<1>9. SingleImporter'
  BY <1>8 DEF EInv, SingleImporter
<1> QED
  BY <1>4, <1>5, <1>6, <1>7, <1>9 DEF EInv

\* A step in which a request that has claimed its job commits a change of it.
LEMMA RowStep ==
    ASSUME EInv, NEW r \in Executors, NEW v \in Active \cup Finished, NEW x \in JobRow,
           NEW j \in Jobs, JobOf(r) = j, InImport(r, j),
           ex' = [ex EXCEPT ![r] = v], v.job = j,
           row' = [row EXCEPT ![j] = x], x.status # "pending",
           jobs' = jobs, patch' = patch, file' = file,
           records' \in [Jobs -> SUBSET (Nat \ {0})], issues' \in [Jobs -> BOOLEAN],
           \A k \in Jobs \ {j} : records'[k] = records[k] /\ issues'[k] = issues[k],
           ExOK(r)', JobOK(j)'
    PROVE  EInv'
<1>1. row' \in [Jobs -> JobRow] /\ ex' \in [Executors -> {Ready} \cup Active \cup Finished]
  BY DEF EInv, TablesOK
<1>2. /\ \A s \in Executors : ex'[s] = IF s = r THEN v ELSE ex[s]
      /\ \A k \in Jobs : row'[k] = IF k = j THEN x ELSE row[k]
  BY DEF EInv, TablesOK
<1>3. TablesOK'
  BY <1>1 DEF EInv, TablesOK
<1>4. \A p \in Patchers : PatchMoves(p)'
  BY DEF EInv, PatchMoves
<1>5. ASSUME NEW k \in Jobs PROVE JobOK(k)'
  <2>1. CASE k = j
    BY <2>1 DEF JobOK
  <2>2. CASE k # j
    BY <2>2, <1>2 DEF EInv, JobOK
  <2> QED
    BY <2>1, <2>2
<1>6. ASSUME NEW s \in Executors, s # r PROVE ExOK(s)'
  <2>1. ex'[s] = ex[s] /\ ExOK(s)
    BY <1>2, <1>6 DEF EInv
  <2>2. CASE ex[s].pc \in Working \ {"claiming"}
    <3>1. JobOf(s) \in Jobs
      BY <2>2, ActiveShape DEF EInv
    <3>2. JobOf(s) # j
      BY <2>2, <3>1, <1>6 DEF EInv, SingleImporter, InImport, Working
    <3>3. row'[JobOf(s)] = row[JobOf(s)] /\ records'[JobOf(s)] = records[JobOf(s)]
      BY <3>1, <3>2, <1>2
    <3> QED
      BY <2>1, <3>3 DEF ExOK, At, JobOf, FileOf
  <2>3. CASE ex[s].pc \notin Working \ {"claiming"}
    BY <2>1, <2>3 DEF ExOK, At, Working
  <2> QED
    BY <2>2, <2>3
<1>7. SingleImporter'
  BY <1>2 DEF EInv, SingleImporter, InImport, JobOf
<1> QED
  BY <1>3, <1>4, <1>5, <1>6, <1>7 DEF EInv

\* A request that answers and writes nothing preserves the invariant.
LEMMA FinishStep ==
    ASSUME EInv, NEW r \in Executors, ex[r].pc \in Working, NEW answer \in Answers,
           Finish(r, answer), UNCHANGED <<jobVars, file, records, issues>>
    PROVE  EInv'
<1> DEFINE v == [pc |-> "finished", job |-> JobOf(r), answer |-> answer]
<1>1. v \in Finished
  BY ActiveShape DEF EInv, Finished
<1>2. ex' = [ex EXCEPT ![r] = v] /\ ex'[r] = v
  BY DEF Finish, EInv, TablesOK
<1>3. ExOK(r)'
  BY <1>2 DEF ExOK, At, Working
<1>4. \A j \in Jobs : ~InImport(r, j)'
  BY <1>2 DEF InImport
<1> QED
  BY <1>1, <1>2, <1>3, <1>4, LocalStep

\* The rollback drops the staged rows and leads to the failure report.
LEMMA RaiseStep ==
    ASSUME EInv, NEW r \in Executors, ex[r].pc \in {"importing", "refreshing"},
           NEW issued \in BOOLEAN, Raise(r, issued),
           UNCHANGED <<jobVars, file, records, issues>>
    PROVE  EInv'
<1> DEFINE v == [ex[r] EXCEPT !.pc = "failing", !.staged = 0, !.withIssues = issued]
<1>1. ex[r] \in Active /\ FileOf(r) \in Files \cup {NoFile}
  BY ActiveShape DEF EInv, Working
<1>2. v \in Active /\ v.pc = "failing" /\ v.staged = 0 /\ v.job = JobOf(r)
  BY <1>1 DEF Active, Working, JobOf
<1>3. ex' = [ex EXCEPT ![r] = v] /\ ex'[r] = v
  BY DEF Raise, EInv, TablesOK
<1> HIDE DEF v
<1>4. row' = row /\ file' = file
  BY DEF jobVars
<1>5. FileOf(r) # NoFile /\ row[JobOf(r)].status # "pending"
  BY DEF EInv, ExOK, Working
<1>6. FileOf(r).rows \in Nat
  BY <1>1, <1>5 DEF Files
<1>7. ExOK(r)'
  BY <1>2, <1>3, <1>4, <1>5, <1>6 DEF ExOK, At, JobOf, FileOf, Working
<1>8. \A j \in Jobs : InImport(r, j)' => InImport(r, j)
  BY <1>2, <1>3 DEF InImport, JobOf
<1> QED
  BY <1>2, <1>3, <1>7, <1>8, LocalStep

-------------------------------------------------------------------------------
(* The claim                                                                 *)

\* A request comes in and holds no lock.
LEMMA RequestPreserves ==
    ASSUME EInv, NEW r \in Executors, NEW j \in Jobs, Request(r, j)
    PROVE  EInv'
<1> DEFINE v == [pc |-> "claiming", job |-> j, staged |-> 0,
                 loaded |-> NewRow(0), withIssues |-> FALSE]
<1>1. v \in Active
  BY NewRowFacts DEF Active, Working
<1>2. ex' = [ex EXCEPT ![r] = v] /\ ex'[r] = v
  BY DEF Request, EInv, TablesOK
<1>3. ExOK(r)'
  BY <1>2 DEF ExOK, At
<1>4. \A k \in Jobs : ~InImport(r, k)'
  BY <1>2 DEF InImport
<1> QED
  BY <1>1, <1>2, <1>3, <1>4, LocalStep DEF Request

\* The claim is answered without a write: no job, or one already started.
LEMMA ClaimRefusedPreserves ==
    ASSUME EInv, NEW r \in Executors, ClaimRefused(r)
    PROVE  EInv'
<1>1. ClaimOutcome(JobOf(r)) \in Answers
  BY DEF ClaimRefused, ClaimOutcome, Answers
<1> QED
  BY <1>1, FinishStep DEF ClaimRefused, At, Working

\* SELECT ... FOR UPDATE: the row is loaded as it is, and stays so.
LEMMA ClaimPreserves ==
    ASSUME EInv, NEW r \in Executors, Claim(r)
    PROVE  EInv'
<1> DEFINE j == JobOf(r)
           v == [ex[r] EXCEPT !.pc = "checking", !.loaded = row[j]]
<1>1. ex[r] \in Active /\ j \in Jobs /\ row[j] \in JobRow /\ ex[r].staged \in Nat
  BY ActiveShape DEF EInv, Claim, At, Working
<1>2. j \in jobs /\ row[j].status = "pending" /\ file[j] # NoFile
  BY DEF Claim, ClaimOutcome
<1>3. ex' = [ex EXCEPT ![r] = v] /\ ex'[r] = v
  BY DEF Claim, EInv, TablesOK
<1>4. v \in Active /\ v.pc = "checking" /\ v.job = j /\ v.loaded = row[j] /\ v.staged = ex[r].staged
  BY <1>1 DEF Active, Working, JobOf
<1> HIDE DEF v
<1>5. jobs' = jobs /\ row' = row /\ file' = file
  BY DEF Claim, jobVars
<1>6. ex[r].staged = 0 /\ file[j] \in Files
  BY <1>1, <1>2 DEF EInv, TablesOK, ExOK, Claim
<1>7. ExOK(r)'
  BY <1>2, <1>3, <1>4, <1>5, <1>6 DEF ExOK, At, JobOf, FileOf, Working, Files
<1>8. ASSUME NEW s \in Executors \ {r}, InImport(s, j) PROVE FALSE
  <2>1. ex[s].pc # "checking" /\ ex[s].pc # "marking"
    BY <1>8 DEF Claim, Lockable, Updatable, HoldsForUpdate, InImport
  <2> QED
    BY <2>1, <1>2, <1>8 DEF EInv, ExOK, InImport
<1>9. ASSUME NEW k \in Jobs, InImport(r, k)', NEW s \in Executors \ {r}
      PROVE  ~InImport(s, k)
  BY <1>3, <1>4, <1>8, <1>9 DEF InImport, JobOf
<1> QED
  BY <1>3, <1>4, <1>7, <1>9, LocalStep DEF Claim

\* A file of an unsupported kind is refused before any write.
LEMMA RefuseFilePreserves ==
    ASSUME EInv, NEW r \in Executors, RefuseFile(r)
    PROVE  EInv'
BY FinishStep DEF RefuseFile, At, Working, Answers

\* An UPDATE from a loaded row of another status writes the status.
LEMMA MergedStatus ==
    ASSUME NEW current \in JobRow, NEW old \in JobRow, NEW new \in JobRow, NEW stamped,
           new.status # old.status
    PROVE  /\ Merge(current, new, Dirty(old, new, stamped)) \in JobRow
           /\ Merge(current, new, Dirty(old, new, stamped)).status = new.status
<1>1. "status" \in Dirty(old, new, stamped)
  BY DEF Dirty, Columns
<1> QED
  BY <1>1, MergeType DEF Merge

\* The rows the executor assigns are rows.
LEMMA AssignedRows ==
    ASSUME NEW old \in JobRow, NEW n \in Nat
    PROVE  /\ RunningRow(old) \in JobRow /\ RunningRow(old).status = "running"
           /\ CompletedRow(old, n) \in JobRow /\ CompletedRow(old, n).status = "completed"
           /\ FailedRow(old) \in JobRow /\ FailedRow(old).status = "failed"
BY DEF RunningRow, CompletedRow, FailedRow, JobRow, Statuses, Terminal, Errors

\* RUNNING is committed over a pending job, whatever its answer.
LEMMA CommitRunningStep ==
    ASSUME EInv, NEW r \in Executors, CommitRunning(r), NEW v \in Active \cup Finished,
           NEW j \in Jobs, JobOf(r) = j, ex' = [ex EXCEPT ![r] = v], v.job = j,
           \/ v.pc = "finished"
           \/ v.pc = "importing" /\ v.staged = ex[r].staged /\ v.loaded.status = "running"
    PROVE  EInv'
<1> DEFINE x == StartedRow(r)
<1>1. At(r, "checking") /\ row' = [row EXCEPT ![j] = x]
      /\ jobs' = jobs /\ patch' = patch /\ file' = file /\ records' = records /\ issues' = issues
  BY DEF CommitRunning
<1>2. ex[r] \in Active /\ row[j] \in JobRow /\ ex[r].loaded \in JobRow
  BY <1>1, ActiveShape DEF EInv, At, Working
<1>3. /\ j \in jobs /\ row[j].status = "pending" /\ ex[r].loaded.status = "pending"
      /\ FileOf(r) # NoFile /\ ex[r].staged <= FileOf(r).rows
      /\ records[j] = {} /\ ~issues[j]
  BY <1>1, <1>2 DEF EInv, ExOK, JobOK, At, Working
<1>4. x \in JobRow /\ x.status = "running"
  BY <1>2, <1>3, AssignedRows, MergedStatus, 0 \in Nat DEF StartedRow
<1> HIDE DEF x
<1>5. /\ ex'[r] = v /\ row'[j] = x
      /\ records' \in [Jobs -> SUBSET (Nat \ {0})] /\ issues' \in [Jobs -> BOOLEAN]
  BY <1>1, <1>2 DEF EInv, TablesOK
<1>6. ExOK(r)'
  BY <1>1, <1>3, <1>4, <1>5 DEF ExOK, At, JobOf, FileOf, Working
<1>7. JobOK(j)'
  BY <1>1, <1>3, <1>4, <1>5 DEF JobOK
<1>8. InImport(r, j)
  BY <1>1 DEF InImport, At
<1> QED
  BY <1>1, <1>4, <1>5, <1>6, <1>7, <1>8, RowStep

\* RUNNING is committed and the import begins.
LEMMA StartPreserves ==
    ASSUME EInv, NEW r \in Executors, Start(r)
    PROVE  EInv'
<1> DEFINE v == [ex[r] EXCEPT !.pc = "importing", !.loaded = RunningRow(ex[r].loaded)]
<1>1. ex[r] \in Active /\ JobOf(r) \in Jobs /\ ex[r].loaded \in JobRow
  BY ActiveShape DEF EInv, Start, CommitRunning, At, Working
<1>2. RunningRow(ex[r].loaded) \in JobRow /\ RunningRow(ex[r].loaded).status = "running"
  BY <1>1, AssignedRows, 0 \in Nat
<1>3. /\ v \in Active /\ v.job = JobOf(r) /\ v.pc = "importing" /\ v.staged = ex[r].staged
      /\ v.loaded = RunningRow(ex[r].loaded)
  BY <1>1, <1>2 DEF Active, Working, JobOf
<1>4. ex' = [ex EXCEPT ![r] = v]
  BY DEF Start
<1> HIDE DEF v
<1> QED
  BY <1>1, <1>2, <1>3, <1>4, CommitRunningStep DEF Start

-------------------------------------------------------------------------------
(* The import                                                                *)

\* Rows are sent into the open transaction: no table changes.
LEMMA StageStep ==
    ASSUME EInv, NEW r \in Executors, At(r, "importing"), NEW n \in Nat, n <= FileOf(r).rows,
           ex' = [ex EXCEPT ![r].staged = n],
           UNCHANGED <<jobVars, file, records, issues>>
    PROVE  EInv'
<1> DEFINE v == [ex[r] EXCEPT !.staged = n]
<1>1. ex[r] \in Active
  BY ActiveShape DEF EInv, At, Working
<1>2. /\ v \in Active /\ v.pc = "importing" /\ v.staged = n /\ v.job = JobOf(r)
      /\ v.loaded = ex[r].loaded
  BY <1>1 DEF Active, JobOf, At
<1>3. ex' = [ex EXCEPT ![r] = v] /\ ex'[r] = v
  BY DEF EInv, TablesOK
<1> HIDE DEF v
<1>4. row' = row /\ file' = file /\ records' = records
  BY DEF jobVars
<1>5. ExOK(r)
  BY DEF EInv
<1>6. ExOK(r)'
  BY <1>2, <1>3, <1>4, <1>5 DEF ExOK, At, JobOf, FileOf, Working
<1>7. \A j \in Jobs : InImport(r, j)' => InImport(r, j)
  BY <1>2, <1>3 DEF InImport, JobOf, At
<1> QED
  BY <1>2, <1>3, <1>6, <1>7, LocalStep

\* The file of an import is a file, and the rows staged are rows of it.
LEMMA ImportFile ==
    ASSUME EInv, NEW r \in Executors, At(r, "importing")
    PROVE  /\ JobOf(r) \in Jobs /\ FileOf(r) \in Files /\ FileOf(r) # NoFile
           /\ FileOf(r).rows \in Nat
           /\ ex[r].staged \in Nat /\ ex[r].staged <= FileOf(r).rows
           /\ FileOf(r) = file[JobOf(r)]
<1>1. FileOf(r) # NoFile /\ ex[r].staged <= FileOf(r).rows
  BY DEF EInv, ExOK, At, Working
<1> QED
  BY <1>1, ActiveShape DEF EInv, At, Working, Files, FileOf

\* A full batch is sent.
LEMMA InsertBatchPreserves ==
    ASSUME EInv, NEW r \in Executors, InsertBatch(r)
    PROVE  EInv'
<1> DEFINE n == ex[r].staged + BatchSize
<1>1. n \in Nat /\ n <= FileOf(r).rows
  BY ImportFile, BatchSizeAssumption DEF InsertBatch, FullBatch
<1>2. ex' = [ex EXCEPT ![r].staged = n]
  BY DEF InsertBatch
<1> QED
  BY <1>1, <1>2, StageStep DEF InsertBatch

\* The last, partial batch is sent.
LEMMA InsertRestPreserves ==
    ASSUME EInv, NEW r \in Executors, InsertRest(r)
    PROVE  EInv'
<1>1. FileOf(r).rows \in Nat /\ FileOf(r).rows <= FileOf(r).rows
  BY ImportFile DEF InsertRest
<1> QED
  BY <1>1, StageStep DEF InsertRest

\* The reader raises in the middle of the file.
LEMMA BadRowPreserves ==
    ASSUME EInv, NEW r \in Executors, BadRow(r)
    PROVE  EInv'
BY RaiseStep DEF BadRow, At

\* The job is gone when a batch or the end is written: the statement fails.
LEMMA JobGonePreserves ==
    ASSUME EInv, NEW r \in Executors, JobGone(r)
    PROVE  EInv'
BY RaiseStep DEF JobGone, At

\* COMPLETED and all rows of the file are committed, whatever the answer.
LEMMA CommitCompletedStep ==
    ASSUME EInv, NEW r \in Executors, CommitCompleted(r), NEW v \in Active,
           NEW j \in Jobs, JobOf(r) = j, ex' = [ex EXCEPT ![r] = v], v.job = j,
           v.pc \in {"refreshing", "failing"}, v.staged = 0
    PROVE  EInv'
<1> DEFINE x == ImportedRow(r)
           n == ex[r].staged
<1>1. At(r, "importing") /\ AllStaged(r) /\ j \in jobs
      /\ row' = [row EXCEPT ![j] = x] /\ records' = [records EXCEPT ![j] = 1..n]
      /\ jobs' = jobs /\ patch' = patch /\ file' = file /\ issues' = issues
  BY DEF CommitCompleted
<1>2. /\ ex[r].loaded \in JobRow /\ row[j] \in JobRow /\ n \in Nat
      /\ file[j] # NoFile /\ file[j].rows \in Nat
  BY <1>1, ActiveShape, ImportFile DEF EInv, At, Working
<1>3. ex[r].loaded.status = "running" /\ records[j] = {}
  BY <1>1 DEF EInv, ExOK
<1>4. x \in JobRow /\ x.status = "completed"
  <2> DEFINE old == ex[r].loaded
             new == CompletedRow(old, n)
  <2>1. old \in JobRow /\ new \in JobRow /\ new.status = "completed" /\ old.status = "running"
    BY <1>2, <1>3, AssignedRows
  <2>2. x = Merge(row[j], new, Dirty(old, new, {"completed"}))
    BY DEF ImportedRow
  <2> HIDE DEF x, old, new
  <2> QED
    BY <1>2, <2>1, <2>2, MergedStatus
<1> HIDE DEF x
<1>5. /\ ex'[r] = v /\ row'[j] = x /\ records'[j] = 1..n
      /\ \A k \in Jobs \ {j} : records'[k] = records[k]
  BY <1>1, <1>2 DEF EInv, TablesOK
<1>6. records' \in [Jobs -> SUBSET (Nat \ {0})] /\ issues' \in [Jobs -> BOOLEAN]
  <2>1. 1..n \in SUBSET (Nat \ {0})
    BY <1>2
  <2> QED
    BY <1>1, <2>1 DEF EInv, TablesOK
<1>7. ExOK(r)'
  BY <1>1, <1>2, <1>4, <1>5 DEF ExOK, At, JobOf, FileOf, Working
<1>8. n = file[j].rows /\ file[j].end = "eof"
  BY <1>1 DEF AllStaged, FileOf
<1>9. JobOK(j)'
  BY <1>1, <1>2, <1>4, <1>5, <1>8 DEF JobOK
<1>10. InImport(r, j)
  BY <1>1 DEF InImport, At
<1> QED
  BY <1>1, <1>4, <1>5, <1>6, <1>7, <1>9, <1>10, RowStep

\* COMPLETED is committed and the refresh follows.
LEMMA CompletePreserves ==
    ASSUME EInv, NEW r \in Executors, Complete(r)
    PROVE  EInv'
<1> DEFINE v == [ex[r] EXCEPT !.pc = "refreshing", !.staged = 0]
<1>1. ex[r] \in Active /\ JobOf(r) \in Jobs
  BY ActiveShape DEF EInv, Complete, CommitCompleted, At, Working
<1>2. v \in Active /\ v.job = JobOf(r) /\ v.pc = "refreshing" /\ v.staged = 0
  BY <1>1 DEF Active, Working, JobOf
<1>3. ex' = [ex EXCEPT ![r] = v]
  BY DEF Complete
<1> HIDE DEF v
<1> QED
  BY <1>1, <1>2, <1>3, CommitCompletedStep DEF Complete

\* The refresh after the commit answers or raises.
LEMMA RefreshPreserves ==
    ASSUME EInv, NEW r \in Executors, Refresh(r)
    PROVE  EInv'
<1>1. CASE JobOf(r) \in jobs
  BY <1>1, FinishStep DEF Refresh, At, Working, Answers
<1>2. CASE JobOf(r) \notin jobs
  BY <1>2, RaiseStep DEF Refresh, At
<1> QED
  BY <1>1, <1>2

-------------------------------------------------------------------------------
(* The failure report                                                        *)

\* The failure report finds the job gone or not running.
LEMMA MarkNothingPreserves ==
    ASSUME EInv, NEW r \in Executors, MarkNothing(r)
    PROVE  EInv'
BY FinishStep DEF MarkNothing, At, Working, Answers

\* The failure report locks a job that is still running.
LEMMA MarkLockPreserves ==
    ASSUME EInv, NEW r \in Executors, MarkLock(r)
    PROVE  EInv'
<1> DEFINE v == [ex[r] EXCEPT !.pc = "marking", !.loaded = row[JobOf(r)]]
<1>1. At(r, "failing") /\ ex[r] \in Active /\ JobOf(r) \in Jobs /\ row[JobOf(r)] \in JobRow
  BY ActiveShape DEF EInv, MarkLock, At, Working
<1>2. JobOf(r) \in jobs /\ row[JobOf(r)].status = "running"
  BY DEF MarkLock, StillRunning
<1>3. ex' = [ex EXCEPT ![r] = v] /\ ex'[r] = v
  BY DEF MarkLock, EInv, TablesOK
<1>4. /\ v \in Active /\ v.pc = "marking" /\ v.job = JobOf(r) /\ v.loaded = row[JobOf(r)]
      /\ v.staged = ex[r].staged
  BY <1>1 DEF Active, Working, JobOf
<1> HIDE DEF v
<1>5. jobs' = jobs /\ row' = row /\ file' = file
  BY DEF MarkLock, jobVars
<1>6. FileOf(r) # NoFile /\ ex[r].staged <= FileOf(r).rows
  BY <1>1 DEF EInv, ExOK, At, Working
<1>7. ExOK(r)'
  BY <1>2, <1>3, <1>4, <1>5, <1>6 DEF ExOK, At, JobOf, FileOf, Working
<1>8. \A j \in Jobs : InImport(r, j)' => InImport(r, j)
  BY <1>1, <1>3, <1>4 DEF InImport, JobOf, At
<1> QED
  BY <1>3, <1>4, <1>7, <1>8, LocalStep DEF MarkLock

\* FAILED is committed with the issues.
LEMMA MarkFailedPreserves ==
    ASSUME EInv, NEW r \in Executors, MarkFailed(r)
    PROVE  EInv'
<1> DEFINE v == [pc |-> "finished", job |-> JobOf(r), answer |-> "import_failed"]
<1>1. PICK j \in Jobs : JobOf(r) = j
  BY ActiveShape DEF EInv, MarkFailed, At, Working
<1> DEFINE old == ex[r].loaded
           new == FailedRow(old)
           x   == Merge(row[j], new, Dirty(old, new, {"completed"}))
<1>2. /\ At(r, "marking") /\ row' = [row EXCEPT ![j] = x]
      /\ issues' = [issues EXCEPT ![j] = ex[r].withIssues] /\ ex' = [ex EXCEPT ![r] = v]
      /\ jobs' = jobs /\ patch' = patch /\ file' = file /\ records' = records
  BY <1>1 DEF MarkFailed, Finish
<1>3. old \in JobRow /\ row[j] \in JobRow /\ ex[r].withIssues \in BOOLEAN
  BY <1>1, <1>2, ActiveShape DEF EInv, At, Working
<1>4. j \in jobs /\ old.status = "running"
  BY <1>1, <1>2 DEF EInv, ExOK
<1>5. x \in JobRow /\ x.status = "failed"
  <2>1. new \in JobRow /\ new.status = "failed"
    BY <1>3, AssignedRows, 0 \in Nat
  <2> HIDE DEF new, old
  <2> QED
    BY <1>3, <1>4, <2>1, MergedStatus
<1> HIDE DEF x, new, old
<1>6. v \in Finished /\ v.job = j
  BY <1>1 DEF Finished, Answers
<1>7. /\ ex'[r] = v /\ row'[j] = x
      /\ records' \in [Jobs -> SUBSET (Nat \ {0})] /\ issues' \in [Jobs -> BOOLEAN]
      /\ \A k \in Jobs \ {j} : issues'[k] = issues[k]
  BY <1>2, <1>3 DEF EInv, TablesOK
<1>8. ExOK(r)'
  BY <1>7 DEF ExOK, At, Working
<1>9. JobOK(j)'
  BY <1>2, <1>4, <1>5, <1>7 DEF EInv, JobOK
<1>10. InImport(r, j)
  BY <1>1, <1>2 DEF InImport, At
<1> HIDE DEF v
<1> QED
  BY <1>1, <1>2, <1>5, <1>6, <1>7, <1>8, <1>9, <1>10, RowStep

-------------------------------------------------------------------------------
(* Faults                                                                    *)

\* A statement fails in any phase.
LEMMA DbErrorPreserves ==
    ASSUME EInv, NEW r \in Executors, DbError(r)
    PROVE  EInv'
<1>1. UNCHANGED <<jobVars, file, records, issues>>
  BY DEF DbError
<1>2. ASSUME NEW answer \in Answers, ex[r].pc \in Working, Finish(r, answer) PROVE EInv'
  BY <1>1, <1>2, FinishStep
<1>3. ASSUME ex[r].pc \in {"importing", "refreshing"}, Raise(r, FALSE) PROVE EInv'
  BY <1>1, <1>3, RaiseStep
<1> QED
  BY <1>2, <1>3 DEF DbError, Working, Answers

\* A commit takes effect and raises, in any phase.
LEMMA LostCommitPreserves ==
    ASSUME EInv, NEW r \in Executors, LostCommit(r)
    PROVE  EInv'
<1>1. CASE CommitRunning(r) /\ Finish(r, "server_error")
  <2> DEFINE v == [pc |-> "finished", job |-> JobOf(r), answer |-> "server_error"]
  <2>1. JobOf(r) \in Jobs
    BY <1>1, ActiveShape DEF EInv, CommitRunning, At, Working
  <2>2. v \in Finished /\ v.job = JobOf(r) /\ v.pc = "finished" /\ ex' = [ex EXCEPT ![r] = v]
    BY <1>1, <2>1 DEF Finish, Finished, Answers
  <2> HIDE DEF v
  <2> QED
    BY <1>1, <2>1, <2>2, CommitRunningStep
<1>2. CASE CommitCompleted(r) /\ Raise(r, FALSE)
  <2> DEFINE v == [ex[r] EXCEPT !.pc = "failing", !.staged = 0, !.withIssues = FALSE]
  <2>1. JobOf(r) \in Jobs /\ ex[r] \in Active
    BY <1>2, ActiveShape DEF EInv, CommitCompleted, At, Working
  <2>2. /\ v \in Active /\ v.job = JobOf(r) /\ v.pc = "failing" /\ v.staged = 0
        /\ ex' = [ex EXCEPT ![r] = v]
    BY <1>2, <2>1 DEF Raise, Active, Working, JobOf
  <2> HIDE DEF v
  <2> QED
    BY <1>2, <2>1, <2>2, CommitCompletedStep
<1> QED
  BY <1>1, <1>2 DEF LostCommit

\* The process ends: its transaction is rolled back, no handler runs.
LEMMA CrashPreserves ==
    ASSUME EInv, NEW r \in Executors, Crash(r)
    PROVE  EInv'
BY FinishStep DEF Crash, Answers

-------------------------------------------------------------------------------
(* The other endpoints                                                       *)

\* A PATCH reads the job, locked or not.
LEMMA PatchBeginsPreserves ==
    ASSUME EInv, NEW p \in Patchers, PatchBegins(p)
    PROVE  EInv'
<1>1. PICK j \in Jobs, status \in Statuses, message \in Messages,
           processed \in 0..MaxTotal, failed \in 0..MaxTotal :
           PatchLoad(p, j, status, processed, failed, message)
  BY DEF PatchBegins, PatchLoads
<1> DEFINE new == Transitioned(row[j], status, processed, failed, message)
           u   == [pc |-> "updating", job |-> j, old |-> row[j], new |-> new]
<1>2. /\ status \in Permitted(row[j].status) /\ patch' = [patch EXCEPT ![p] = u]
      /\ row' = row /\ jobs' = jobs /\ file' = file /\ records' = records
      /\ issues' = issues /\ ex' = ex
  BY <1>1 DEF PatchLoad, PatchBegins, execVars
<1>3. row[j] \in JobRow /\ processed \in Nat /\ failed \in Nat
  BY MaxTotalAssumption DEF EInv, TablesOK
<1>4. new \in JobRow /\ new.status = status
  BY <1>3, TransitionedType
<1>5. status # row[j].status /\ status # "pending"
  BY <1>2, PermittedMoves
<1>6. u \in Update /\ u.new = new /\ u.old = row[j]
  BY <1>3, <1>4 DEF Update
<1> HIDE DEF u, new
<1>7. TablesOK'
  BY <1>2, <1>6 DEF EInv, TablesOK
<1>8. \A q \in Patchers : PatchMoves(q)'
  BY <1>2, <1>4, <1>5, <1>6 DEF EInv, TablesOK, PatchMoves
<1>9. (\A r \in Executors : ExOK(r)') /\ (\A k \in Jobs : JobOK(k)') /\ SingleImporter'
  BY <1>2 DEF EInv, ExOK, JobOK, SingleImporter, InImport, At, JobOf, FileOf
<1> QED
  BY <1>7, <1>8, <1>9 DEF EInv

\* A PATCH writes, or is refused, while a request may be importing.
LEMMA PatchEndsPreserves ==
    ASSUME EInv, NEW p \in Patchers, PatchEnds(p)
    PROVE  EInv'
<1>1. /\ patch[p].pc = "updating" /\ patch' = [patch EXCEPT ![p] = Idle] /\ jobs' = jobs
      /\ file' = file /\ records' = records /\ issues' = issues /\ ex' = ex
  BY DEF PatchEnds, PatchCommit, PatchRejected, execVars
<1>2. /\ \A q \in Patchers : PatchMoves(q)'
      /\ patch' \in [Patchers -> {Idle} \cup Update]
  BY <1>1 DEF EInv, TablesOK, PatchMoves, Idle
<1>3. SingleImporter'
  BY <1>1 DEF EInv, SingleImporter, InImport, JobOf
<1>4. CASE PatchRejected(p)
  <2>1. row' = row
    BY <1>4 DEF PatchRejected
  <2>2. TablesOK'
    BY <1>1, <1>2, <2>1 DEF EInv, TablesOK
  <2>3. (\A r \in Executors : ExOK(r)') /\ (\A k \in Jobs : JobOK(k)')
    BY <1>1, <2>1 DEF EInv, ExOK, JobOK, At, JobOf, FileOf
  <2> QED
    BY <1>2, <1>3, <2>2, <2>3 DEF EInv
<1>5. CASE PatchCommit(p)
  <2> DEFINE j == patch[p].job
             x == PatchedRow(p)
  <2>1. j \in jobs /\ j \in Jobs /\ row' = [row EXCEPT ![j] = x] /\ Updatable(j)
    BY <1>5 DEF PatchEnds, PatchCommit, EInv, TablesOK
  <2>2. x \in JobRow /\ x.status # "pending"
    <3>1. /\ patch[p].old \in JobRow /\ patch[p].new \in JobRow /\ row[j] \in JobRow
          /\ patch[p].new.status # patch[p].old.status /\ patch[p].new.status # "pending"
      BY <1>1, <2>1 DEF EInv, PatchMoves, Update, TablesOK
    <3> QED
      BY <3>1, MergedStatus DEF PatchedRow
  <2> HIDE DEF x, j
  <2>3. \A k \in Jobs : row'[k] = IF k = j THEN x ELSE row[k]
    BY <2>1 DEF EInv, TablesOK
  <2>4. TablesOK'
    BY <1>1, <1>2, <2>1, <2>2 DEF EInv, TablesOK
  <2>5. ASSUME NEW r \in Executors PROVE ExOK(r)'
    <3>1. CASE ex[r].pc \in Working
      <4>1. JobOf(r) \in Jobs /\ ExOK(r)
        BY <3>1, ActiveShape DEF EInv
      <4>2. At(r, "checking") \/ At(r, "marking") => JobOf(r) # j
        BY <2>1 DEF Updatable, HoldsForUpdate, At
      <4> QED
        BY <1>1, <2>2, <2>3, <4>1, <4>2 DEF ExOK, At, JobOf, FileOf
    <3>2. CASE ex[r].pc \notin Working
      BY <1>1, <3>2 DEF ExOK, At, Working
    <3> QED
      BY <3>1, <3>2
  <2>6. \A k \in Jobs : JobOK(k)'
    BY <1>1, <2>2, <2>3 DEF EInv, JobOK
  <2> QED
    BY <1>2, <1>3, <2>4, <2>5, <2>6 DEF EInv
<1> QED
  BY <1>4, <1>5 DEF PatchEnds

\* The cascade waits for the locks, then no record is left.
LEMMA DeletePreserves == ASSUME EInv, Delete PROVE EInv'
<1>1. /\ jobs' = {} /\ row' = row /\ patch' = patch /\ file' = file /\ ex' = ex
      /\ \A j \in Jobs : records'[j] = {} /\ issues'[j] = FALSE
      /\ records' \in [Jobs -> SUBSET (Nat \ {0})] /\ issues' \in [Jobs -> BOOLEAN]
  BY DEF Delete, DeleteDatasource
<1>2. TablesOK'
  BY <1>1 DEF EInv, TablesOK
<1>3. ASSUME NEW r \in Executors PROVE ExOK(r)'
  <2>1. ExOK(r)
    BY DEF EInv
  <2>2. ~At(r, "checking") /\ ~At(r, "marking")
    BY <2>1 DEF Delete, Deletable, Lockable, Updatable, HoldsForUpdate, ExOK, At
  <2>3. CASE ex[r].pc \in Working
    <3>1. JobOf(r) \in Jobs
      BY <2>3, ActiveShape DEF EInv
    <3> QED
      BY <1>1, <2>1, <2>2, <3>1 DEF ExOK, At, JobOf, FileOf
  <2>4. CASE ex[r].pc \notin Working
    BY <1>1, <2>4 DEF ExOK, At, Working
  <2> QED
    BY <2>3, <2>4
<1>4. \A p \in Patchers : PatchMoves(p)'
  BY <1>1 DEF EInv, PatchMoves
<1>5. (\A j \in Jobs : JobOK(j)') /\ SingleImporter'
  BY <1>1 DEF EInv, JobOK, SingleImporter, InImport, JobOf
<1> QED
  BY <1>2, <1>3, <1>4, <1>5 DEF EInv

-------------------------------------------------------------------------------

\* The shapes of files are files.
LEMMA FilesUpToType == FilesUpTo(MaxRows) \subseteq Files
BY MaxRowsAssumption DEF FilesUpTo, Files

\* No job is started and no request is at work.
LEMMA ExecInitEstablishes == ExecInit => EInv
<1> SUFFICES ASSUME ExecInit PROVE EInv
  OBVIOUS
<1>1. ASSUME NEW j \in Jobs
      PROVE  row[j] \in JobRow /\ row[j].status = "pending" /\ ~row[j].started
  <2>1. PICK n \in 0..MaxTotal : row[j] = NewRow(n)
    BY DEF ExecInit
  <2>2. n \in Nat
    BY MaxTotalAssumption
  <2> QED
    BY <2>1, <2>2, NewRowFacts
<1>2. /\ jobs = Jobs /\ patch = [p \in Patchers |-> Idle]
      /\ records = [j \in Jobs |-> {}] /\ issues = [j \in Jobs |-> FALSE]
      /\ ex = [r \in Executors |-> Ready]
      /\ file \in [Jobs -> Files \cup {NoFile}]
      /\ row \in [Jobs -> JobRow]
  BY <1>1, FilesUpToType DEF ExecInit
<1>3. TablesOK
  BY <1>2 DEF TablesOK
<1>4. \A p \in Patchers : PatchMoves(p)
  BY <1>2 DEF PatchMoves, Idle
<1>5. \A r \in Executors : ExOK(r) /\ ex[r].pc = "ready"
  BY <1>2 DEF ExOK, At, Working, Ready
<1>6. \A j \in Jobs : JobOK(j)
  BY <1>1, <1>2 DEF JobOK
<1>7. SingleImporter
  BY <1>5 DEF SingleImporter, InImport
<1> QED
  BY <1>3, <1>4, <1>5, <1>6, <1>7 DEF EInv

\* The invariant is inductive.
LEMMA ExecNextPreserves == EInv /\ [ExecNext]_vars => EInv'
<1> SUFFICES ASSUME EInv, [ExecNext]_vars PROVE EInv'
  OBVIOUS
<1>1. ASSUME NEW r \in Executors, NEW j \in Jobs, Request(r, j) PROVE EInv'
  BY <1>1, RequestPreserves
<1>2. ASSUME NEW r \in Executors, ExecStep(r) PROVE EInv'
  BY <1>2, ClaimRefusedPreserves, ClaimPreserves, RefuseFilePreserves, StartPreserves,
     InsertBatchPreserves, InsertRestPreserves, BadRowPreserves, JobGonePreserves,
     CompletePreserves, RefreshPreserves, MarkNothingPreserves, MarkLockPreserves,
     MarkFailedPreserves
  DEF ExecStep
<1>3. ASSUME NEW r \in Executors, FaultStep(r) PROVE EInv'
  BY <1>3, DbErrorPreserves, LostCommitPreserves, CrashPreserves DEF FaultStep
<1>4. ASSUME NEW p \in Patchers, PatchBegins(p) \/ PatchEnds(p) PROVE EInv'
  BY <1>4, PatchBeginsPreserves, PatchEndsPreserves
<1>5. CASE Delete
  BY <1>5, DeletePreserves
<1>6. CASE UNCHANGED vars
  BY <1>6
  DEF vars, jobVars, execVars, EInv, TablesOK, PatchMoves, ExOK, JobOK, SingleImporter,
      InImport, At, JobOf, FileOf
<1> QED
  BY <1>1, <1>2, <1>3, <1>4, <1>5, <1>6 DEF ExecNext

-------------------------------------------------------------------------------

\* The inductive invariant of the execution.
THEOREM ExecInvariance == ExecSpec => []EInv
BY ExecInitEstablishes, ExecNextPreserves, PTL DEF ExecSpec

\* Types of every variable, and what is staged is part of the file.
THEOREM ExecTypeCorrect == ExecSpec => []ExecTypeOK
<1>1. EInv => ExecTypeOK
  BY DEF EInv, TablesOK, ExOK, ExecTypeOK
<1> QED
  BY <1>1, ExecInvariance, PTL

\* Two requests never import the same job: FOR UPDATE carries the status from
\* the check to the commit of RUNNING (import_job.py:39-51 of the repository,
\* csv_import_execution.py:74-101).
THEOREM Exclusive == ExecSpec => []SingleImporter
<1>1. EInv => SingleImporter
  BY DEF EInv
<1> QED
  BY <1>1, ExecInvariance, PTL

\* Whatever crashes, fails, is deleted or patched, a job has no records or all
\* rows of a file that ended well (csv_import_execution.py:103-144).
THEOREM Atomic == ExecSpec => []AllOrNothing
<1>1. EInv => AllOrNothing
  BY DEF EInv, JobOK, AllOrNothing
<1> QED
  BY <1>1, ExecInvariance, PTL

\* No record and no issue outlives its job or is written after it is gone.
THEOREM OrphanFree == ExecSpec => []NoOrphans
<1>1. EInv => NoOrphans
  BY DEF EInv, JobOK, NoOrphans
<1> QED
  BY <1>1, ExecInvariance, PTL

\* An import starts on a job that nobody ever started and that has no records.
THEOREM StartsFresh == ExecSpec => ImportStartsFresh
<1> DEFINE Fresh == \A r \in Executors :
         At(r, "checking") /\ row' # row /\ ex'[r] # ex[r] =>
            ~row[JobOf(r)].started /\ records[JobOf(r)] = {}
<1>1. EInv => Fresh
  <2> SUFFICES ASSUME EInv, NEW r \in Executors, At(r, "checking")
               PROVE  ~row[JobOf(r)].started /\ records[JobOf(r)] = {}
    OBVIOUS
  <2>1. JobOf(r) \in Jobs /\ row[JobOf(r)].status = "pending"
    BY ActiveShape DEF EInv, ExOK, At, Working
  <2> QED
    BY <2>1 DEF EInv, JobOK
<1>2. EInv /\ [ExecNext]_vars => [Fresh]_vars
  BY <1>1
<1> QED
  BY <1>2, ExecInvariance, PTL DEF ExecSpec, ImportStartsFresh

\* The failure report writes over a running job only, whatever PATCHes came
\* between the failure and the report (csv_import_execution.py:258-279).
THEOREM FailsOnlyRunning == ExecSpec => FailureOnlyOverRunning
<1> DEFINE OverRunning == \A r \in Executors :
         At(r, "marking") /\ ex'[r] # ex[r] /\ row' # row =>
            row[JobOf(r)].status = "running"
<1>1. EInv => OverRunning
  BY DEF EInv, ExOK
<1>2. EInv /\ [ExecNext]_vars => [OverRunning]_vars
  BY <1>1
<1> QED
  BY <1>2, ExecInvariance, PTL DEF ExecSpec, FailureOnlyOverRunning

-------------------------------------------------------------------------------
(* What an import leaves behind                                              *)

\* A job has no issues while an import of it is under way; a request that has
\* committed its import, or answered so, has all records of the file behind it;
\* and one that is to report issues has no records.
OutcomeOK(r) ==
    /\ ex[r].pc \in {"checking", "importing", "refreshing", "failing", "marking"} => ~issues[JobOf(r)]
    /\ At(r, "refreshing") /\ JobOf(r) \in jobs => records[JobOf(r)] = 1..FileOf(r).rows
    /\ ex[r].pc \in {"failing", "marking"} /\ ex[r].withIssues => records[JobOf(r)] = {}
    /\ At(r, "finished") /\ ex[r].answer = "ok" /\ JobOf(r) \in jobs =>
         records[JobOf(r)] = 1..FileOf(r).rows

Outcomes == \A r \in Executors : OutcomeOK(r)

\* A finished request has a job.
LEMMA FinishedShape ==
    ASSUME TablesOK, NEW r \in Executors, At(r, "finished")
    PROVE  JobOf(r) \in Jobs
BY DEF TablesOK, At, Ready, Active, Working, Finished, JobOf

\* A step of another request changes the tables of jobs that request imports only.
LEMMA OthersKeep ==
    ASSUME EInv, Outcomes, NEW r \in Executors, NEW s \in Executors, s # r,
           ex'[s] = ex[s], file' = file, jobs' = jobs,
           \A j \in Jobs : \/ records'[j] = records[j] /\ issues'[j] = issues[j]
                           \/ InImport(r, j) /\ (records'[j] = records[j] \/ records'[j] = 1..file[j].rows)
    PROVE  OutcomeOK(s)'
<1>1. OutcomeOK(s) /\ TablesOK
  BY DEF Outcomes, EInv
<1>2. CASE ex[s].pc \in {"checking", "importing", "refreshing", "failing", "marking"}
  <2>1. JobOf(s) \in Jobs /\ InImport(s, JobOf(s))
    BY <1>1, <1>2, ActiveShape DEF Working, InImport
  <2>2. records'[JobOf(s)] = records[JobOf(s)] /\ issues'[JobOf(s)] = issues[JobOf(s)]
    BY <2>1 DEF EInv, SingleImporter
  <2> QED BY <1>1, <1>2, <2>2 DEF OutcomeOK, At, JobOf, FileOf
<1>3. CASE At(s, "finished")
  <2>1. JobOf(s) \in Jobs
    BY <1>1, <1>3, FinishedShape
  <2> QED BY <1>1, <1>3, <2>1 DEF OutcomeOK, At, JobOf, FileOf
<1>4. CASE ex[s].pc \notin {"checking", "importing", "refreshing", "failing", "marking", "finished"}
  BY <1>4 DEF OutcomeOK, At
<1> QED BY <1>2, <1>3, <1>4 DEF At

\* The local state Finish and Raise leave.
LEMMA FinishLeaves ==
    ASSUME TablesOK, NEW r \in Executors, NEW a, Finish(r, a)
    PROVE  /\ ex'[r].pc = "finished" /\ ex'[r].answer = a /\ ex'[r].job = JobOf(r)
           /\ \A s \in Executors : s # r => ex'[s] = ex[s]
BY DEF TablesOK, Finish

\* And the one an exception leaves.
LEMMA RaiseLeaves ==
    ASSUME TablesOK, NEW r \in Executors, ex[r].pc \in Working, NEW b, Raise(r, b)
    PROVE  /\ ex'[r].pc = "failing" /\ ex'[r].withIssues = b /\ ex'[r].job = JobOf(r)
           /\ \A s \in Executors : s # r => ex'[s] = ex[s]
BY ActiveShape DEF TablesOK, Raise, Active, JobOf

\* A request that ends without having said "ok" keeps the outcomes.
LEMMA EndKeeps ==
    ASSUME EInv, Outcomes, NEW r \in Executors, NEW a, a # "ok", Finish(r, a),
           file' = file, jobs' = jobs,
           \A j \in Jobs : \/ records'[j] = records[j] /\ issues'[j] = issues[j]
                           \/ InImport(r, j) /\ (records'[j] = records[j] \/ records'[j] = 1..file[j].rows)
    PROVE  Outcomes'
<1>1. /\ ex'[r].pc = "finished" /\ ex'[r].answer = a
      /\ \A s \in Executors : s # r => ex'[s] = ex[s]
  BY FinishLeaves DEF EInv
<1>2. OutcomeOK(r)'
  BY <1>1 DEF OutcomeOK, At
<1> QED BY <1>1, <1>2, OthersKeep DEF Outcomes

\* So does an import that raises, before or after its commit.
LEMMA RaiseKeeps ==
    ASSUME EInv, Outcomes, NEW r \in Executors,
           ex[r].pc \in {"importing", "refreshing"}, NEW b, Raise(r, b), b => At(r, "importing"),
           file' = file, jobs' = jobs, issues' = issues,
           b => records' = records,
           \A j \in Jobs : \/ records'[j] = records[j]
                           \/ InImport(r, j) /\ records'[j] = 1..file[j].rows
    PROVE  Outcomes'
<1>1. /\ ex'[r].pc = "failing" /\ ex'[r].withIssues = b /\ ex'[r].job = JobOf(r)
      /\ \A s \in Executors : s # r => ex'[s] = ex[s]
  BY RaiseLeaves DEF EInv, Working
<1>2. ~issues[JobOf(r)] /\ (At(r, "importing") => records[JobOf(r)] = {})
  BY DEF Outcomes, OutcomeOK, EInv, ExOK
<1>3. OutcomeOK(r)'
  BY <1>1, <1>2 DEF OutcomeOK, At, JobOf
<1> QED BY <1>1, <1>3, OthersKeep DEF Outcomes

\* A request that goes on without a commit.
LEMMA GoesOnKeeps ==
    ASSUME EInv, Outcomes, NEW r \in Executors,
           file' = file, jobs' = jobs, records' = records, issues' = issues,
           ex'[r].job = JobOf(r), ex'[r].pc \in {"claiming", "checking", "importing", "marking"},
           ex'[r].pc \in {"checking", "importing", "marking"} => ~issues[JobOf(r)],
           ex'[r].pc = "marking" => At(r, "failing") /\ ex'[r].withIssues = ex[r].withIssues,
           \A s \in Executors : s # r => ex'[s] = ex[s]
    PROVE  Outcomes'
<1>1. OutcomeOK(r)'
  BY DEF Outcomes, OutcomeOK, At, JobOf
<1> QED BY <1>1, OthersKeep DEF Outcomes

\* One step per action of a request.
LEMMA RequestKeeps ==
    ASSUME EInv, Outcomes, NEW r \in Executors, ExecStep(r) PROVE Outcomes'
<1> DEFINE j == JobOf(r)
<1>0. TablesOK /\ ExOK(r) /\ OutcomeOK(r)
  BY DEF EInv, Outcomes
<1>s. ASSUME ex[r].pc \in Working
      PROVE  /\ ex[r] \in Active /\ j \in Jobs /\ DOMAIN ex = Executors
             /\ JobOK(j)
  BY <1>s, <1>0, ActiveShape DEF EInv, TablesOK
<1>1. CASE ClaimRefused(r)
  <2>1. PICK a : a # "ok" /\ Finish(r, a)
    BY <1>1 DEF ClaimRefused, ClaimOutcome
  <2> QED BY <1>1, <2>1, EndKeeps DEF ClaimRefused, jobVars
<1>2. CASE Claim(r)
  <2>1. /\ ex'[r].pc = "checking" /\ ex'[r].job = j
        /\ \A s \in Executors : s # r => ex'[s] = ex[s]
    BY <1>2, <1>s DEF Claim, At, Working, Active, JobOf
  <2>2. ~issues[j]
    BY <1>2, <1>s DEF Claim, ClaimOutcome, At, Working, JobOK
  <2> QED BY <1>2, <2>1, <2>2, GoesOnKeeps DEF Claim, jobVars
<1>3. CASE RefuseFile(r)
  BY <1>3, EndKeeps DEF RefuseFile, jobVars
<1>4. CASE Start(r)
  <2>1. /\ ex'[r].pc = "importing" /\ ex'[r].job = j
        /\ \A s \in Executors : s # r => ex'[s] = ex[s]
    BY <1>4, <1>s DEF Start, CommitRunning, At, Working, Active, JobOf
  <2>2. ~issues[j]
    BY <1>4, <1>0 DEF Start, CommitRunning, At, OutcomeOK
  <2> QED BY <1>4, <2>1, <2>2, GoesOnKeeps DEF Start, CommitRunning, jobVars
<1>5. CASE InsertBatch(r) \/ InsertRest(r)
  <2>1. /\ ex'[r].pc = "importing" /\ ex'[r].job = j
        /\ \A s \in Executors : s # r => ex'[s] = ex[s]
    BY <1>5, <1>s DEF InsertBatch, InsertRest, At, Working, Active, JobOf
  <2>2. ~issues[j]
    BY <1>5, <1>0 DEF InsertBatch, InsertRest, At, OutcomeOK
  <2> QED BY <1>5, <2>1, <2>2, GoesOnKeeps DEF InsertBatch, InsertRest, jobVars
<1>6. CASE BadRow(r)
  BY <1>6, RaiseKeeps DEF BadRow, jobVars, At
<1>7. CASE JobGone(r)
  BY <1>7, RaiseKeeps DEF JobGone, jobVars, At
<1>8. CASE Complete(r)
  <2>1. /\ ex'[r].pc = "refreshing" /\ ex'[r].job = j
        /\ \A s \in Executors : s # r => ex'[s] = ex[s]
    BY <1>8, <1>s DEF Complete, CommitCompleted, At, Working, Active, JobOf
  <2>2. /\ file' = file /\ jobs' = jobs /\ issues' = issues /\ ~issues[j]
        /\ records' = [records EXCEPT ![j] = 1..file[j].rows]
        /\ InImport(r, j) /\ j \in Jobs
    BY <1>8, <1>0, <1>s DEF Complete, CommitCompleted, AllStaged, OutcomeOK, InImport, At, FileOf, Working
  <2>3. \A k \in Jobs : records'[k] = IF k = j THEN 1..file[j].rows ELSE records[k]
    BY <2>2, <1>0 DEF TablesOK
  <2>4. OutcomeOK(r)'
    BY <2>1, <2>2, <2>3 DEF OutcomeOK, At, JobOf, FileOf
  <2> QED BY <2>1, <2>2, <2>3, <2>4, OthersKeep DEF Outcomes
<1>9. CASE Refresh(r)
  <2>1. /\ file' = file /\ jobs' = jobs /\ records' = records /\ issues' = issues /\ At(r, "refreshing")
    BY <1>9 DEF Refresh, jobVars
  <2>2. CASE j \in jobs
    <3>1. /\ ex'[r].pc = "finished" /\ ex'[r].job = j
          /\ \A s \in Executors : s # r => ex'[s] = ex[s]
      BY <1>9, <2>2, <1>0, FinishLeaves DEF Refresh
    <3>2. OutcomeOK(r)'
      BY <3>1, <2>1, <2>2, <1>0 DEF OutcomeOK, At, JobOf, FileOf
    <3> QED BY <2>1, <3>1, <3>2, OthersKeep DEF Outcomes
  <2>3. CASE j \notin jobs
    BY <1>9, <2>1, <2>3, RaiseKeeps DEF Refresh, At
  <2> QED BY <2>2, <2>3
<1>10. CASE MarkNothing(r)
  BY <1>10, EndKeeps DEF MarkNothing, jobVars
<1>11. CASE MarkLock(r)
  <2>1. /\ ex'[r].pc = "marking" /\ ex'[r].job = j /\ ex'[r].withIssues = ex[r].withIssues
        /\ \A s \in Executors : s # r => ex'[s] = ex[s]
    BY <1>11, <1>s DEF MarkLock, At, Working, Active, JobOf
  <2>2. ~issues[j]
    BY <1>11, <1>0 DEF MarkLock, At, OutcomeOK
  <2> QED BY <1>11, <2>1, <2>2, GoesOnKeeps DEF MarkLock, jobVars
<1>12. CASE MarkFailed(r)
  <2>1. /\ Finish(r, "import_failed") /\ file' = file /\ jobs' = jobs /\ records' = records
        /\ issues' = [issues EXCEPT ![j] = ex[r].withIssues] /\ InImport(r, j)
    BY <1>12 DEF MarkFailed, InImport, At
  <2>2. \A k \in Jobs : k # j => issues'[k] = issues[k]
    BY <2>1, <1>0 DEF TablesOK
  <2> QED BY <2>1, <2>2, EndKeeps
<1> QED BY <1>1, <1>2, <1>3, <1>4, <1>5, <1>6, <1>7, <1>8, <1>9, <1>10, <1>11, <1>12 DEF ExecStep

\* One step per fault.
LEMMA FaultKeeps ==
    ASSUME EInv, Outcomes, NEW r \in Executors, FaultStep(r) PROVE Outcomes'
<1>0. TablesOK
  BY DEF EInv
<1>1. CASE DbError(r)
  <2>0. file' = file /\ jobs' = jobs /\ records' = records /\ issues' = issues
    BY <1>1 DEF DbError, jobVars
  <2>1. CASE ex[r].pc \in {"importing", "refreshing"} /\ Raise(r, FALSE)
    BY <2>0, <2>1, RaiseKeeps
  <2>2. CASE Finish(r, "server_error") \/ Finish(r, "unreported")
    BY <2>0, <2>2, EndKeeps
  <2> QED BY <1>1, <2>1, <2>2 DEF DbError
<1>2. CASE LostCommit(r)
  <2>1. CASE CommitRunning(r) /\ Finish(r, "server_error")
    BY <2>1, EndKeeps DEF CommitRunning
  <2>2. CASE CommitCompleted(r) /\ Raise(r, FALSE)
    <3>1. /\ At(r, "importing") /\ file' = file /\ jobs' = jobs /\ issues' = issues
          /\ records' = [records EXCEPT ![JobOf(r)] = 1..FileOf(r).rows]
          /\ InImport(r, JobOf(r))
      BY <2>2 DEF CommitCompleted, AllStaged, InImport, At
    <3>2. \A k \in Jobs : k # JobOf(r) => records'[k] = records[k]
      BY <3>1, <1>0 DEF TablesOK
    <3>3. JobOf(r) \in Jobs => records'[JobOf(r)] = 1..file[JobOf(r)].rows
      BY <3>1, <1>0 DEF TablesOK, FileOf
    <3> QED BY <2>2, <3>1, <3>2, <3>3, RaiseKeeps DEF At
  <2> QED BY <1>2, <2>1, <2>2 DEF LostCommit
<1>3. CASE Crash(r)
  BY <1>3, EndKeeps DEF Crash, jobVars
<1> QED BY <1>1, <1>2, <1>3 DEF FaultStep

\* The outcomes are inductive beside EInv.
LEMMA OutcomesKept == EInv /\ Outcomes /\ [ExecNext]_vars => Outcomes'
<1> SUFFICES ASSUME EInv, Outcomes, [ExecNext]_vars PROVE Outcomes'
  OBVIOUS
<1>1. ASSUME NEW r \in Executors, NEW j \in Jobs, Request(r, j) PROVE Outcomes'
  <2>1. /\ ex'[r].pc = "claiming"
        /\ \A s \in Executors : s # r => ex'[s] = ex[s]
        /\ file' = file /\ jobs' = jobs /\ records' = records /\ issues' = issues
    BY <1>1 DEF Request, EInv, TablesOK, jobVars
  <2>2. OutcomeOK(r)'
    BY <2>1 DEF OutcomeOK, At
  <2> QED BY <2>1, <2>2, OthersKeep DEF Outcomes
<1>2. ASSUME NEW p \in Patchers, PatchBegins(p) \/ PatchEnds(p) PROVE Outcomes'
  <2>1. ex' = ex /\ file' = file /\ jobs' = jobs /\ records' = records /\ issues' = issues
    BY <1>2 DEF PatchBegins, PatchEnds, PatchLoads, PatchLoad, PatchCommit, PatchRejected, execVars
  <2> QED BY <2>1 DEF Outcomes, OutcomeOK, At, JobOf, FileOf
<1>3. CASE Delete
  <2>1. /\ ex' = ex /\ file' = file /\ jobs' = {}
        /\ \A j \in Jobs : records'[j] = {} /\ issues'[j] = FALSE
    BY <1>3 DEF Delete, DeleteDatasource
  <2>2. ASSUME NEW r \in Executors PROVE OutcomeOK(r)'
    <3>1. ex[r].pc \in Working => JobOf(r) \in Jobs
      BY ActiveShape DEF EInv
    <3> QED BY <2>1, <3>1 DEF OutcomeOK, At, JobOf, Working
  <2> QED BY <2>2 DEF Outcomes
<1>4. CASE UNCHANGED vars
  BY <1>4 DEF vars, jobVars, execVars, Outcomes, OutcomeOK, At, JobOf, FileOf
<1> QED BY <1>1, <1>2, <1>3, <1>4, RequestKeeps, FaultKeeps DEF ExecNext

\* EInv and the outcomes hold throughout.
LEMMA OutcomeInvariance == ExecSpec => [](EInv /\ Outcomes)
<1>1. ExecInit => Outcomes
  <2>1. ASSUME ExecInit, NEW r \in Executors PROVE OutcomeOK(r)
    BY <2>1 DEF ExecInit, OutcomeOK, At, Ready
  <2> QED BY <2>1 DEF Outcomes
<1> QED BY <1>1, ExecInitEstablishes, ExecNextPreserves, OutcomesKept, PTL DEF ExecSpec

\* A client that was answered 200 finds every row, whatever is patched, retried
\* or interrupted afterwards (csv_import_execution.py:103-114).
THEOREM OkImported == ExecSpec => []OkMeansImported
<1>1. Outcomes => OkMeansImported
  BY DEF Outcomes, OutcomeOK, OkMeansImported
<1> QED BY <1>1, OutcomeInvariance, PTL

\* The records and the issues of a job only ever appear, each in one commit, or
\* go with the job.
LEMMA TablesChange ==
    ASSUME EInv, Outcomes, [ExecNext]_vars, NEW j \in Jobs
    PROVE  \/ records'[j] = records[j] /\ issues'[j] = issues[j]
           \/ j \notin jobs' /\ ~issues'[j]
           \/ records[j] = {} /\ issues'[j] = issues[j]
           \/ /\ ~issues[j] /\ records'[j] = records[j]
              /\ issues'[j] => row[j].status = "running" /\ row'[j].status = "failed" /\ records[j] = {}
<1>0. TablesOK
  BY DEF EInv
<1>1. ASSUME NEW r \in Executors, CommitCompleted(r)
      PROVE  issues'[j] = issues[j] /\ (records'[j] = records[j] \/ records[j] = {})
  <2>1. records[JobOf(r)] = {}
    BY <1>1 DEF CommitCompleted, EInv, ExOK
  <2> QED BY <1>1, <2>1, <1>0 DEF CommitCompleted, TablesOK
<1>2. ASSUME NEW r \in Executors, MarkFailed(r)
      PROVE  \/ records'[j] = records[j] /\ issues'[j] = issues[j]
             \/ /\ ~issues[j] /\ records'[j] = records[j]
                /\ issues'[j] => row[j].status = "running" /\ row'[j].status = "failed" /\ records[j] = {}
  <2>1. records' = records /\ issues' = [issues EXCEPT ![JobOf(r)] = ex[r].withIssues] /\ At(r, "marking")
    BY <1>2 DEF MarkFailed
  <2>2. CASE JobOf(r) # j
    BY <2>1, <2>2, <1>0 DEF TablesOK
  <2>3. CASE JobOf(r) = j
    <3>1. /\ ~issues[j] /\ issues'[j] = ex[r].withIssues
          /\ ex[r].withIssues => records[j] = {}
          /\ row[j].status = "running" /\ ex[r].loaded.status = "running"
      BY <2>1, <2>3, <1>0 DEF TablesOK, Outcomes, OutcomeOK, At, EInv, ExOK
    <3>2. row'[j].status = "failed"
      <4> DEFINE old == ex[r].loaded
                 new == FailedRow(old)
      <4>1. row' = [row EXCEPT ![j] = Merge(row[j], new, Dirty(old, new, {"completed"}))]
        BY <1>2, <2>3 DEF MarkFailed
      <4>2. old \in JobRow /\ row[j] \in JobRow
        BY <2>1, <1>0, ActiveShape DEF At, Working, TablesOK
      <4>3. new.status = "failed"
        BY <4>2 DEF FailedRow, JobRow
      <4>4. "status" \in Dirty(old, new, {"completed"})
        BY <3>1, <4>3 DEF Dirty, Columns
      <4> HIDE DEF new
      <4>5. Merge(row[j], new, Dirty(old, new, {"completed"})).status = "failed"
        BY <4>3, <4>4 DEF Merge
      <4> QED BY <4>1, <4>5, <1>0 DEF TablesOK
    <3> QED BY <2>1, <3>1, <3>2
  <2> QED BY <2>2, <2>3
<1>3. ASSUME NEW r \in Executors, (\E k \in Jobs : Request(r, k)) \/ ExecStep(r) \/ FaultStep(r),
             ~Complete(r), ~MarkFailed(r), ~LostCommit(r)
      PROVE  records' = records /\ issues' = issues
  BY <1>3 DEF Request, ExecStep, FaultStep, ClaimRefused, Claim, RefuseFile, Start, CommitRunning,
     InsertBatch, InsertRest, BadRow, JobGone, Refresh, MarkNothing, MarkLock, DbError, Crash
<1>4. ASSUME NEW r \in Executors, LostCommit(r), ~CommitCompleted(r)
      PROVE  records' = records /\ issues' = issues
  BY <1>4 DEF LostCommit, CommitRunning
<1>5. ASSUME NEW p \in Patchers, PatchBegins(p) \/ PatchEnds(p) PROVE records' = records /\ issues' = issues
  BY <1>5 DEF PatchBegins, PatchEnds, execVars
<1>6. CASE Delete
  BY <1>6 DEF Delete, DeleteDatasource
<1>7. CASE UNCHANGED vars
  BY <1>7 DEF vars, execVars
<1> QED BY <1>1, <1>2, <1>3, <1>4, <1>5, <1>6, <1>7 DEF ExecNext, Complete

\* Issues are only written by the commit that turns a running job without
\* records into a failed one (csv_import_execution.py:258-279).
THEOREM IssuesWithFailure == ExecSpec => IssuesOnlyWithFailure
<1> DEFINE Failing == \A j \in Jobs : issues'[j] /\ ~issues[j] =>
                 row[j].status = "running" /\ row'[j].status = "failed" /\ records[j] = {}
<1>1. EInv /\ Outcomes /\ [ExecNext]_vars => [Failing]_vars
  BY TablesChange
<1> QED BY <1>1, OutcomeInvariance, PTL DEF ExecSpec, IssuesOnlyWithFailure

-------------------------------------------------------------------------------
(* The rows of the jobs, which imports and PATCHes write at the same time    *)

\* Of a prepared job everything that was counted was processed, nothing failed,
\* and nothing was counted before it was started.
Balanced(j) ==
    file[j] # NoFile =>
        /\ row[j].total = row[j].processed /\ row[j].failed = 0
        /\ row[j].status = "pending" => row[j].processed = 0

\* So the counters leave a PATCH of it no choice, and its UPDATE leaves them out.
SendsNoCounters(p) ==
    patch[p].pc = "updating" /\ file[patch[p].job] # NoFile =>
        /\ patch[p].new.total = patch[p].old.total
        /\ patch[p].new.processed = patch[p].old.processed
        /\ patch[p].new.failed = patch[p].old.failed

\* Under the lock the loaded row is the row; the row an import was started with
\* has counted nothing, and a job that was started stays so.
LoadedOK(r) ==
    /\ At(r, "checking") \/ At(r, "marking") => ex[r].loaded = row[JobOf(r)]
    /\ At(r, "importing") =>
         ex[r].loaded.total = 0 /\ ex[r].loaded.processed = 0 /\ ex[r].loaded.failed = 0
    /\ ex[r].pc \in {"importing", "refreshing", "failing", "marking"} => row[JobOf(r)].started

RowsInv ==
    /\ EInv
    /\ IInv
    /\ \A j \in Jobs : Balanced(j)
    /\ \A p \in Patchers : SendsNoCounters(p)
    /\ \A r \in Executors : LoadedOK(r)

\* Over the very row it was loaded from, an UPDATE leaves what was assigned.
LEMMA MergeOfLoaded ==
    ASSUME NEW old \in JobRow, NEW new \in JobRow, NEW stamped
    PROVE  Merge(old, new, Dirty(old, new, stamped)) = new
BY DEF Merge, Dirty, Columns, JobRow

\* A request that goes on or ends and writes no row.
LEMMA RowsUntouched ==
    ASSUME RowsInv, EInv', NEW r \in Executors, UNCHANGED <<jobVars, file>>,
           \A s \in Executors : s # r => ex'[s] = ex[s], LoadedOK(r)'
    PROVE  RowsInv'
<1>1. jobs' = jobs /\ row' = row /\ patch' = patch /\ file' = file
  BY DEF jobVars
<1>2. IInv'
  BY <1>1, QuietStep DEF RowsInv
<1>3. (\A j \in Jobs : Balanced(j)') /\ (\A p \in Patchers : SendsNoCounters(p)')
  BY <1>1 DEF RowsInv, Balanced, SendsNoCounters
<1>4. \A s \in Executors : s # r => LoadedOK(s)'
  BY <1>1 DEF RowsInv, LoadedOK, At, JobOf
<1> QED BY <1>2, <1>3, <1>4 DEF RowsInv

\* A request that writes the row of the job it works on.
LEMMA RowWritten ==
    ASSUME RowsInv, EInv', NEW r \in Executors, NEW j \in Jobs, InImport(r, j), NEW x \in JobRow,
           row' = [row EXCEPT ![j] = x], jobs' = jobs, patch' = patch, file' = file,
           \A s \in Executors : s # r => ex'[s] = ex[s], LoadedOK(r)',
           x.started, x.status # "pending", x.status \in Terminal => x.completed,
           x.total = x.processed, x.failed = 0
    PROVE  RowsInv'
<1>1. /\ row \in [Jobs -> JobRow] /\ jobs \subseteq Jobs
      /\ \A k \in Jobs : row'[k] = IF k = j THEN x ELSE row[k]
  BY DEF RowsInv, EInv, TablesOK
<1>2. x.processed \in Nat /\ x.processed + x.failed <= x.total
  BY DEF JobRow
<1>3. IInv'
  <2>1. TypeOK'
    BY <1>1 DEF RowsInv, IInv, TypeOK
  <2>2. \A k \in Jobs : row[k].started => row'[k].started
    BY <1>1
  <2>3. ASSUME NEW p \in Patchers PROVE PatchInFlight(p)'
    BY <2>2 DEF RowsInv, IInv, PatchInFlight, Update
  <2>4. (CountersWithinTotal /\ StartedOnceRun /\ TerminalHasCompletedAt)'
    BY <1>1, <1>2 DEF RowsInv, IInv, CountersWithinTotal, StartedOnceRun, TerminalHasCompletedAt
  <2> QED BY <2>1, <2>3, <2>4 DEF IInv
<1>4. (\A k \in Jobs : Balanced(k)') /\ (\A p \in Patchers : SendsNoCounters(p)')
  BY <1>1 DEF RowsInv, Balanced, SendsNoCounters
<1>5. ASSUME NEW s \in Executors, s # r PROVE LoadedOK(s)'
  <2>1. LoadedOK(s) /\ ex'[s] = ex[s]
    BY <1>5 DEF RowsInv
  <2>2. CASE ex[s].pc \in {"checking", "importing", "refreshing", "failing", "marking"}
    <3>1. JobOf(s) \in Jobs
      BY <2>2, ActiveShape DEF RowsInv, EInv, Working
    <3>2. JobOf(s) # j
      BY <2>2, <1>5, <3>1 DEF RowsInv, EInv, SingleImporter, InImport
    <3> QED BY <1>1, <2>1, <3>1, <3>2 DEF LoadedOK, At, JobOf
  <2>3. CASE ex[s].pc \notin {"checking", "importing", "refreshing", "failing", "marking"}
    BY <2>1, <2>3 DEF LoadedOK, At
  <2> QED BY <2>2, <2>3
<1> QED BY <1>3, <1>4, <1>5 DEF RowsInv

\* The three rows a request writes are balanced, stamped and started.
LEMMA StartedRowFacts ==
    ASSUME RowsInv, NEW r \in Executors, CommitRunning(r)
    PROVE  /\ JobOf(r) \in Jobs /\ InImport(r, JobOf(r)) /\ StartedRow(r) \in JobRow
           /\ StartedRow(r) = RunningRow(ex[r].loaded)
           /\ StartedRow(r).started /\ StartedRow(r).status = "running"
           /\ StartedRow(r).total = 0 /\ StartedRow(r).processed = 0 /\ StartedRow(r).failed = 0
<1>1. /\ JobOf(r) \in Jobs /\ row[JobOf(r)] \in JobRow /\ At(r, "checking")
      /\ FileOf(r) # NoFile /\ row[JobOf(r)].status = "pending"
  BY ActiveShape DEF CommitRunning, At, Working, RowsInv, EInv, ExOK
<1>2. ex[r].loaded = row[JobOf(r)]
  BY <1>1 DEF RowsInv, LoadedOK
<1>3. row[JobOf(r)].total = 0 /\ row[JobOf(r)].processed = 0 /\ row[JobOf(r)].failed = 0
  BY <1>1 DEF RowsInv, Balanced, FileOf
<1>4. RunningRow(row[JobOf(r)]) \in JobRow
  BY <1>1, AssignedRows, 0 \in Nat
<1>5. StartedRow(r) = RunningRow(ex[r].loaded)
  BY <1>1, <1>2, <1>4, MergeOfLoaded DEF StartedRow
<1> QED BY <1>1, <1>2, <1>3, <1>4, <1>5 DEF InImport, At, RunningRow, JobRow

\* The row the final commit of an import writes.
LEMMA ImportedRowFacts ==
    ASSUME RowsInv, NEW r \in Executors, CommitCompleted(r)
    PROVE  /\ JobOf(r) \in Jobs /\ InImport(r, JobOf(r)) /\ ImportedRow(r) \in JobRow
           /\ ImportedRow(r).started /\ ImportedRow(r).completed /\ ImportedRow(r).status = "completed"
           /\ ImportedRow(r).total = ImportedRow(r).processed /\ ImportedRow(r).failed = 0
           /\ ex[r].staged # 0 \/ row[JobOf(r)].processed = 0 => ImportedRow(r).processed = ex[r].staged
<1> DEFINE j == JobOf(r)
           old == ex[r].loaded
           new == CompletedRow(old, ex[r].staged)
           d == Dirty(old, new, {"completed"})
<1>1. /\ j \in Jobs /\ row[j] \in JobRow /\ At(r, "importing") /\ old \in JobRow
      /\ ex[r].staged \in Nat /\ FileOf(r) # NoFile /\ old.status = "running"
  BY ActiveShape DEF CommitCompleted, At, Working, RowsInv, EInv, ExOK
<1>2. old.total = 0 /\ old.processed = 0 /\ old.failed = 0 /\ row[j].started
  BY <1>1 DEF RowsInv, LoadedOK, At
<1>3. row[j].total = row[j].processed /\ row[j].failed = 0
  BY <1>1 DEF RowsInv, Balanced, FileOf
<1>4. /\ new \in JobRow /\ new.status = "completed" /\ new.total = ex[r].staged
      /\ new.processed = ex[r].staged /\ new.failed = 0 /\ new.completed /\ new.started = old.started
  BY <1>1 DEF CompletedRow, JobRow, Statuses, Terminal, Errors
<1> HIDE DEF new
<1>5. /\ "status" \in d /\ "completed" \in d /\ "started" \notin d /\ "failed" \notin d
      /\ "total" \in d <=> ex[r].staged # 0
      /\ "processed" \in d <=> ex[r].staged # 0
  BY <1>1, <1>2, <1>4 DEF Dirty, Columns
<1>6. ImportedRow(r) = Merge(row[j], new, d)
  BY DEF ImportedRow, new
<1>7. ImportedRow(r) \in JobRow
  BY <1>1, <1>4, <1>6, MergeType
<1> HIDE DEF d
<1> QED BY <1>1, <1>2, <1>3, <1>4, <1>5, <1>6, <1>7 DEF Merge, InImport, At

\* The row the failure report writes.
LEMMA MarkedRowFacts ==
    ASSUME RowsInv, NEW r \in Executors, MarkFailed(r)
    PROVE  /\ JobOf(r) \in Jobs /\ InImport(r, JobOf(r)) /\ FailedRow(ex[r].loaded) \in JobRow
           /\ row' = [row EXCEPT ![JobOf(r)] = FailedRow(ex[r].loaded)]
           /\ FailedRow(ex[r].loaded).started /\ FailedRow(ex[r].loaded).completed
           /\ FailedRow(ex[r].loaded).status = "failed"
           /\ FailedRow(ex[r].loaded).total = 0 /\ FailedRow(ex[r].loaded).processed = 0
           /\ FailedRow(ex[r].loaded).failed = 0
<1>1. /\ JobOf(r) \in Jobs /\ row[JobOf(r)] \in JobRow /\ At(r, "marking")
  BY ActiveShape DEF MarkFailed, At, Working, RowsInv, EInv
<1>2. ex[r].loaded = row[JobOf(r)] /\ row[JobOf(r)].started
  BY <1>1 DEF RowsInv, LoadedOK, At
<1>3. FailedRow(ex[r].loaded) \in JobRow
  BY <1>1, <1>2, AssignedRows, 0 \in Nat
<1>4. row' = [row EXCEPT ![JobOf(r)] = FailedRow(ex[r].loaded)]
  <2> DEFINE old == ex[r].loaded
             new == FailedRow(old)
  <2>1. Merge(row[JobOf(r)], new, Dirty(old, new, {"completed"})) = new
    BY <1>1, <1>2, <1>3, MergeOfLoaded
  <2>2. row' = [row EXCEPT ![JobOf(r)] = Merge(row[JobOf(r)], new, Dirty(old, new, {"completed"}))]
    BY DEF MarkFailed
  <2> HIDE DEF new
  <2> QED BY <2>1, <2>2 DEF new
<1> QED BY <1>1, <1>2, <1>3, <1>4 DEF InImport, At, FailedRow, JobRow

\* One step per action of a request.
LEMMA RequestKeepsRows ==
    ASSUME RowsInv, EInv', NEW r \in Executors,
           (\E j \in Jobs : Request(r, j)) \/ ExecStep(r) \/ FaultStep(r)
    PROVE  RowsInv'
<1> DEFINE j == JobOf(r)
<1>0. /\ TablesOK /\ LoadedOK(r) /\ DOMAIN ex = Executors
  BY DEF RowsInv, EInv, TablesOK
<1>s. ASSUME ex[r].pc \in Working PROVE ex[r] \in Active /\ j \in Jobs /\ row[j] \in JobRow
  BY <1>s, <1>0, ActiveShape
<1>f. ASSUME NEW a, Finish(r, a), UNCHANGED <<jobVars, file>> PROVE RowsInv'
  <2>1. ex'[r].pc = "finished" /\ \A s \in Executors : s # r => ex'[s] = ex[s]
    BY <1>f, <1>0, FinishLeaves
  <2>2. LoadedOK(r)'
    BY <2>1 DEF LoadedOK, At
  <2> QED BY <1>f, <2>1, <2>2, RowsUntouched
<1>r. ASSUME NEW b, Raise(r, b), ex[r].pc \in {"importing", "refreshing"}, UNCHANGED <<jobVars, file>>
      PROVE  RowsInv'
  <2>1. /\ ex'[r].pc = "failing" /\ ex'[r].job = j
        /\ \A s \in Executors : s # r => ex'[s] = ex[s]
    BY <1>r, <1>0, RaiseLeaves DEF Working
  <2>2. LoadedOK(r)'
    BY <1>r, <1>0, <2>1 DEF LoadedOK, At, JobOf, jobVars
  <2> QED BY <1>r, <2>1, <2>2, RowsUntouched
<1>1. CASE \E k \in Jobs : Request(r, k)
  <2>1. ex'[r].pc = "claiming" /\ \A s \in Executors : s # r => ex'[s] = ex[s]
    BY <1>1, <1>0 DEF Request
  <2>2. LoadedOK(r)'
    BY <2>1 DEF LoadedOK, At
  <2> QED BY <1>1, <2>1, <2>2, RowsUntouched DEF Request
<1>2. CASE ClaimRefused(r) \/ RefuseFile(r) \/ MarkNothing(r) \/ Crash(r)
  BY <1>2, <1>f DEF ClaimRefused, RefuseFile, MarkNothing, Crash
<1>3. CASE Claim(r)
  <2>1. /\ ex'[r].pc = "checking" /\ ex'[r].job = j /\ ex'[r].loaded = row[j]
        /\ \A s \in Executors : s # r => ex'[s] = ex[s]
    BY <1>3, <1>0, <1>s DEF Claim, At, Working, Active, JobOf
  <2>2. LoadedOK(r)'
    BY <1>3, <2>1 DEF Claim, LoadedOK, At, JobOf, jobVars
  <2> QED BY <1>3, <2>1, <2>2, RowsUntouched DEF Claim
<1>4. ASSUME CommitRunning(r), NEW v \in Active \cup Finished, ex' = [ex EXCEPT ![r] = v], v.job = j,
             v.pc = "finished" \/ (v.pc = "importing" /\ v.loaded = RunningRow(ex[r].loaded))
      PROVE  RowsInv'
  <2>1. ex'[r] = v /\ \A s \in Executors : s # r => ex'[s] = ex[s]
    BY <1>4, <1>0
  <2>2. row' = [row EXCEPT ![j] = StartedRow(r)] /\ jobs' = jobs /\ patch' = patch /\ file' = file
    BY <1>4 DEF CommitRunning
  <2>3. row'[j] = StartedRow(r)
    BY <1>4, <2>2, <1>0, StartedRowFacts DEF TablesOK
  <2>4. LoadedOK(r)'
    BY <1>4, <2>1, <2>3, StartedRowFacts DEF LoadedOK, At, JobOf
  <2> QED BY <1>4, <2>1, <2>2, <2>4, StartedRowFacts, RowWritten DEF Terminal
<1>5. CASE Start(r)
  <2> DEFINE v == [ex[r] EXCEPT !.pc = "importing", !.loaded = RunningRow(ex[r].loaded)]
  <2>1. ex[r] \in Active /\ RunningRow(ex[r].loaded) \in JobRow
    BY <1>5, <1>s, AssignedRows, 0 \in Nat DEF Start, CommitRunning, At, Working, Active
  <2>2. /\ v \in Active /\ v.job = j /\ v.pc = "importing" /\ v.loaded = RunningRow(ex[r].loaded)
    BY <2>1 DEF Active, Working, JobOf
  <2>3. CommitRunning(r) /\ ex' = [ex EXCEPT ![r] = v]
    BY <1>5 DEF Start
  <2> HIDE DEF v
  <2> QED BY <2>2, <2>3, <1>4
<1>6. CASE InsertBatch(r) \/ InsertRest(r)
  <2>1. /\ ex'[r].pc = "importing" /\ ex'[r].job = j /\ ex'[r].loaded = ex[r].loaded
        /\ \A s \in Executors : s # r => ex'[s] = ex[s]
    BY <1>6, <1>0, <1>s DEF InsertBatch, InsertRest, At, Working, Active, JobOf
  <2>2. LoadedOK(r)'
    BY <1>6, <1>0, <2>1 DEF InsertBatch, InsertRest, LoadedOK, At, JobOf, jobVars
  <2> QED BY <1>6, <2>1, <2>2, RowsUntouched DEF InsertBatch, InsertRest
<1>7. CASE BadRow(r) \/ JobGone(r)
  BY <1>7, <1>r DEF BadRow, JobGone, At
<1>8. ASSUME CommitCompleted(r), NEW v \in Active, ex' = [ex EXCEPT ![r] = v], v.job = j,
             v.pc \in {"refreshing", "failing"}
      PROVE  RowsInv'
  <2>1. ex'[r] = v /\ \A s \in Executors : s # r => ex'[s] = ex[s]
    BY <1>8, <1>0
  <2>2. row' = [row EXCEPT ![j] = ImportedRow(r)] /\ jobs' = jobs /\ patch' = patch /\ file' = file
    BY <1>8 DEF CommitCompleted
  <2>3. row'[j] = ImportedRow(r)
    BY <1>8, <2>2, <1>0, ImportedRowFacts DEF TablesOK
  <2>4. LoadedOK(r)'
    BY <1>8, <2>1, <2>3, ImportedRowFacts DEF LoadedOK, At, JobOf
  <2> QED BY <1>8, <2>1, <2>2, <2>4, ImportedRowFacts, RowWritten
<1>9. CASE Complete(r)
  <2> DEFINE v == [ex[r] EXCEPT !.pc = "refreshing", !.staged = 0]
  <2>1. CommitCompleted(r) /\ ex' = [ex EXCEPT ![r] = v] /\ ex[r] \in Active
    BY <1>9, <1>s DEF Complete, CommitCompleted, At, Working
  <2>2. v \in Active /\ v.job = j /\ v.pc = "refreshing"
    BY <2>1 DEF Active, Working, JobOf
  <2> HIDE DEF v
  <2> QED BY <2>1, <2>2, <1>8
<1>10. CASE Refresh(r)
  BY <1>10, <1>f, <1>r DEF Refresh, At
<1>11. CASE MarkLock(r)
  <2>1. /\ ex'[r].pc = "marking" /\ ex'[r].job = j /\ ex'[r].loaded = row[j]
        /\ \A s \in Executors : s # r => ex'[s] = ex[s]
    BY <1>11, <1>0, <1>s DEF MarkLock, At, Working, Active, JobOf
  <2>2. LoadedOK(r)'
    BY <1>11, <1>0, <2>1 DEF MarkLock, LoadedOK, At, JobOf, jobVars
  <2> QED BY <1>11, <2>1, <2>2, RowsUntouched DEF MarkLock
<1>12. CASE MarkFailed(r)
  <2>1. ex'[r].pc = "finished" /\ \A s \in Executors : s # r => ex'[s] = ex[s]
    BY <1>12, <1>0, FinishLeaves DEF MarkFailed
  <2>2. LoadedOK(r)'
    BY <2>1 DEF LoadedOK, At
  <2>3. jobs' = jobs /\ patch' = patch /\ file' = file
    BY <1>12 DEF MarkFailed
  <2> QED BY <1>12, <2>1, <2>2, <2>3, MarkedRowFacts, RowWritten
<1>13. CASE DbError(r)
  BY <1>13, <1>f, <1>r DEF DbError
<1>14. CASE LostCommit(r)
  <2>1. CASE CommitRunning(r) /\ Finish(r, "server_error")
    <3> DEFINE v == [pc |-> "finished", job |-> j, answer |-> "server_error"]
    <3>1. v \in Finished
      BY <2>1, StartedRowFacts DEF Finished, Answers
    <3>2. ex' = [ex EXCEPT ![r] = v] /\ v.job = j /\ v.pc = "finished"
      BY <2>1 DEF Finish
    <3> HIDE DEF v
    <3> QED BY <2>1, <3>1, <3>2, <1>4
  <2>2. CASE CommitCompleted(r) /\ Raise(r, FALSE)
    <3> DEFINE v == [ex[r] EXCEPT !.pc = "failing", !.staged = 0, !.withIssues = FALSE]
    <3>1. ex[r] \in Active /\ ex' = [ex EXCEPT ![r] = v]
      BY <2>2, <1>s DEF Raise, CommitCompleted, At, Working
    <3>2. v \in Active /\ v.job = j /\ v.pc = "failing"
      BY <3>1 DEF Active, Working, JobOf
    <3> HIDE DEF v
    <3> QED BY <2>2, <3>1, <3>2, <1>8
  <2> QED BY <1>14, <2>1, <2>2 DEF LostCommit
<1> QED BY <1>1, <1>2, <1>3, <1>5, <1>6, <1>7, <1>9, <1>10, <1>11, <1>12, <1>13, <1>14
        DEF ExecStep, FaultStep

\* A PATCH of a balanced row has no room for other counters.
LEMMA PatchBeginsKeepsRows ==
    ASSUME RowsInv, EInv', NEW p \in Patchers, PatchBegins(p)
    PROVE  RowsInv'
<1>1. PICK j \in Jobs, status \in Statuses, message \in Messages,
           processed \in 0..MaxTotal, failed \in 0..MaxTotal :
           PatchLoad(p, j, status, processed, failed, message)
  BY DEF PatchBegins, PatchLoads
<1> DEFINE new == Transitioned(row[j], status, processed, failed, message)
           u   == [pc |-> "updating", job |-> j, old |-> row[j], new |-> new]
<1>2. /\ CountersAccepted(row[j], status, processed, failed) /\ patch' = [patch EXCEPT ![p] = u]
      /\ row' = row /\ jobs' = jobs /\ file' = file /\ ex' = ex
  BY <1>1 DEF PatchLoad, PatchBegins, execVars
<1>3. row[j] \in JobRow /\ processed \in Nat /\ failed \in Nat /\ patch \in [Patchers -> {Idle} \cup Update]
  BY MaxTotalAssumption DEF RowsInv, EInv, TablesOK
<1>4. new.total = row[j].total /\ new.processed = processed /\ new.failed = failed
  BY <1>3 DEF Transitioned, JobRow
<1>5. file[j] # NoFile => processed = row[j].processed /\ failed = row[j].failed
  BY <1>2, <1>3 DEF RowsInv, Balanced, CountersAccepted, JobRow
<1>6. \A q \in Patchers : patch'[q] = IF q = p THEN u ELSE patch[q]
  BY <1>2, <1>3
<1>7. SendsNoCounters(p)'
  BY <1>2, <1>4, <1>5, <1>6 DEF SendsNoCounters
<1>8. ASSUME NEW q \in Patchers, q # p PROVE SendsNoCounters(q)'
  BY <1>2, <1>6, <1>8 DEF RowsInv, SendsNoCounters
<1>9. IInv'
  BY LoadPreserves DEF RowsInv, PatchBegins
<1>10. (\A k \in Jobs : Balanced(k)') /\ (\A r \in Executors : LoadedOK(r)')
  BY <1>2 DEF RowsInv, Balanced, LoadedOK, At, JobOf
<1> QED BY <1>7, <1>8, <1>9, <1>10 DEF RowsInv

\* The UPDATE of a PATCH writes none of them, whatever has been written since.
LEMMA PatchKeepsCounters ==
    ASSUME RowsInv, NEW p \in Patchers, patch[p].pc = "updating", file[patch[p].job] # NoFile
    PROVE  /\ PatchedRow(p).total = row[patch[p].job].total
           /\ PatchedRow(p).processed = row[patch[p].job].processed
           /\ PatchedRow(p).failed = row[patch[p].job].failed
<1> DEFINE d == Dirty(patch[p].old, patch[p].new, Stamped(patch[p].new.status))
<1>1. "total" \notin d /\ "processed" \notin d /\ "failed" \notin d
  BY DEF RowsInv, SendsNoCounters, Dirty, Stamped
<1>2. PatchedRow(p) = Merge(row[patch[p].job], patch[p].new, d)
  BY DEF PatchedRow
<1> HIDE DEF d
<1> QED BY <1>1, <1>2 DEF Merge

\* So a PATCH that ends leaves the rows as they should be.
LEMMA PatchEndsKeepsRows ==
    ASSUME RowsInv, EInv', NEW p \in Patchers, PatchEnds(p)
    PROVE  RowsInv'
<1>1. /\ patch[p].pc = "updating" /\ patch' = [patch EXCEPT ![p] = Idle] /\ jobs' = jobs
      /\ file' = file /\ ex' = ex
  BY DEF PatchEnds, PatchCommit, PatchRejected, execVars
<1>2. IInv'
  BY CommitPreserves, RejectPreserves DEF RowsInv, PatchEnds
<1>3. \A q \in Patchers : SendsNoCounters(q)'
  BY <1>1 DEF RowsInv, EInv, TablesOK, SendsNoCounters, Idle
<1>4. CASE PatchRejected(p)
  <2>1. row' = row
    BY <1>4 DEF PatchRejected
  <2> QED BY <1>1, <1>2, <1>3, <2>1 DEF RowsInv, Balanced, LoadedOK, At, JobOf
<1>5. CASE PatchCommit(p)
  <2> DEFINE j == patch[p].job
             x == PatchedRow(p)
  <2>1. /\ j \in jobs /\ j \in Jobs /\ row' = [row EXCEPT ![j] = x] /\ Updatable(j)
        /\ row[j] \in JobRow
    BY <1>5 DEF PatchEnds, PatchCommit, RowsInv, EInv, TablesOK
  <2>2. /\ row[j].started => x.started
        /\ x.status # "pending"
    BY <1>1, PatchedRowFacts DEF RowsInv, IInv, PatchInFlight
  <2>3. \A k \in Jobs : row'[k] = IF k = j THEN x ELSE row[k]
    BY <2>1 DEF RowsInv, EInv, TablesOK
  <2>4. ASSUME file[j] # NoFile
        PROVE  x.total = row[j].total /\ x.processed = row[j].processed /\ x.failed = row[j].failed
    BY <1>1, <2>4, PatchKeepsCounters
  <2> HIDE DEF x, j
  <2>5. ASSUME NEW k \in Jobs PROVE Balanced(k)'
    <3>1. CASE k = j
      <4>1. row'[k] = x /\ file'[k] = file[j] /\ Balanced(j)
        BY <1>1, <2>1, <2>3, <3>1 DEF RowsInv
      <4> QED BY <2>2, <2>4, <4>1, <3>1 DEF Balanced
    <3>2. CASE k # j
      BY <1>1, <2>3, <3>2 DEF RowsInv, Balanced
    <3> QED BY <3>1, <3>2
  <2>6. ASSUME NEW r \in Executors PROVE LoadedOK(r)'
    <3>1. LoadedOK(r) /\ ex'[r] = ex[r]
      BY <1>1 DEF RowsInv
    <3>2. CASE ex[r].pc \in {"checking", "importing", "refreshing", "failing", "marking"}
      <4>1. JobOf(r) \in Jobs
        BY <3>2, ActiveShape DEF RowsInv, EInv, Working
      <4>2. At(r, "checking") \/ At(r, "marking") => JobOf(r) # j
        BY <2>1 DEF Updatable, HoldsForUpdate, At
      <4>3. JobOf(r) # j => row'[JobOf(r)] = row[JobOf(r)]
        BY <2>3, <4>1
      <4>4. row[JobOf(r)].started => row'[JobOf(r)].started
        <5>1. CASE JobOf(r) = j
          BY <2>2, <2>3, <4>1, <5>1
        <5>2. CASE JobOf(r) # j
          BY <4>3, <5>2
        <5> QED BY <5>1, <5>2
      <4> QED BY <3>1, <4>2, <4>3, <4>4 DEF LoadedOK, At, JobOf
    <3>3. CASE ex[r].pc \notin {"checking", "importing", "refreshing", "failing", "marking"}
      BY <3>1, <3>3 DEF LoadedOK, At
    <3> QED BY <3>2, <3>3
  <2> QED BY <1>2, <1>3, <2>5, <2>6 DEF RowsInv
<1> QED BY <1>4, <1>5 DEF PatchEnds

\* Every step keeps the rows.
LEMMA RowsKept == RowsInv /\ [ExecNext]_vars => RowsInv'
<1> SUFFICES ASSUME RowsInv, [ExecNext]_vars PROVE RowsInv'
  OBVIOUS
<1>1. EInv'
  BY ExecNextPreserves DEF RowsInv
<1>2. CASE Delete
  <2>1. row' = row /\ patch' = patch /\ jobs' = {} /\ file' = file /\ ex' = ex
    BY <1>2 DEF Delete, DeleteDatasource
  <2>2. IInv'
    BY <2>1, QuietStep DEF RowsInv
  <2> QED BY <1>1, <2>1, <2>2 DEF RowsInv, Balanced, SendsNoCounters, LoadedOK, At, JobOf
<1>3. CASE UNCHANGED vars
  <2>1. row' = row /\ patch' = patch /\ jobs' = jobs /\ file' = file /\ ex' = ex
    BY <1>3 DEF vars, jobVars, execVars
  <2>2. IInv'
    BY <2>1, QuietStep DEF RowsInv
  <2> QED BY <1>1, <2>1, <2>2 DEF RowsInv, Balanced, SendsNoCounters, LoadedOK, At, JobOf
<1> QED BY <1>1, <1>2, <1>3, RequestKeepsRows, PatchBeginsKeepsRows, PatchEndsKeepsRows DEF ExecNext

\* No job has counted anything at first.
LEMMA RowsInitial == ExecInit => RowsInv
<1> SUFFICES ASSUME ExecInit PROVE RowsInv
  OBVIOUS
<1>1. EInv /\ IInv
  BY ExecInitEstablishes, InitEstablishes DEF ExecInit, Init
<1>2. ASSUME NEW j \in Jobs PROVE Balanced(j)
  <2>1. PICK n \in 0..MaxTotal : row[j] = NewRow(n)
    BY DEF ExecInit
  <2>2. n \in Nat /\ (file[j] # NoFile => n = 0)
    BY <2>1, MaxTotalAssumption DEF ExecInit, NewRow
  <2> QED BY <2>1, <2>2 DEF Balanced, NewRow
<1>3. \A p \in Patchers : SendsNoCounters(p)
  BY DEF ExecInit, SendsNoCounters, Idle
<1>4. \A r \in Executors : LoadedOK(r)
  BY DEF ExecInit, LoadedOK, At, Ready
<1> QED BY <1>1, <1>2, <1>3, <1>4 DEF RowsInv

\* The rows' invariant holds throughout.
LEMMA RowsInvariance == ExecSpec => []RowsInv
BY RowsInitial, RowsKept, PTL DEF ExecSpec

\* Counters stay within the total also while an import and stale PATCHes write
\* the same row: the import checks nothing, and of a PATCH only the CHECK
\* constraint counts (csv_import_execution.py:103-110, models/import_job.py:52-54).
THEOREM ExecCountersSafe == ExecSpec => []CountersWithinTotal
<1>1. RowsInv => CountersWithinTotal
  BY DEF RowsInv, IInv
<1> QED BY <1>1, RowsInvariance, PTL

\* No timestamp that the status asks for is missing, whoever wrote it last
\* (csv_import_execution.py:92-110 and 262-275, import_job.py:126-136).
THEOREM ExecTimestampsSafe == ExecSpec => []TimestampsFollowStatus
<1>1. RowsInv => TimestampsFollowStatus
  BY DEF RowsInv, IInv, TimestampsFollowStatus
<1> QED BY <1>1, RowsInvariance, PTL

-------------------------------------------------------------------------------
(* The counters of a job and its records                                     *)

\* The number of the first n rows.
LEMMA CardinalityUpTo == ASSUME NEW n \in Nat PROVE Cardinality(1..n) = n
<1>1. 1 \in Int /\ n \in Int
  OBVIOUS
<1>2. Cardinality(1..n) = IF 1 > n THEN 0 ELSE n - 1 + 1
  BY <1>1, FS_Interval, Zenon
<1> QED BY <1>2

\* An import that is to be reported as failed has left no records: it was
\* rolled back, and one whose commit succeeded fails only when the job is gone.
LeftNothing(r) ==
    ex[r].pc \in {"failing", "marking"} /\ JobOf(r) \in jobs => records[JobOf(r)] = {}

Counted(j) == file[j] # NoFile /\ j \in jobs => row[j].processed = Cardinality(records[j])

MatchInv == RowsInv /\ (\A r \in Executors : LeftNothing(r)) /\ (\A j \in Jobs : Counted(j))

\* Files do not change, and jobs are only deleted.
LEMMA JobsOnlyGo == ASSUME [ExecNext]_vars PROVE file' = file /\ jobs' \subseteq jobs
<1>1. ASSUME NEW r \in Executors, (\E k \in Jobs : Request(r, k)) \/ ExecStep(r) \/ FaultStep(r)
      PROVE  file' = file /\ jobs' = jobs
  BY <1>1 DEF Request, ExecStep, FaultStep, ClaimRefused, Claim, RefuseFile, Start, CommitRunning,
     InsertBatch, InsertRest, BadRow, JobGone, Complete, CommitCompleted, Refresh, MarkNothing,
     MarkLock, MarkFailed, DbError, LostCommit, Crash, jobVars
<1>2. ASSUME NEW p \in Patchers, PatchBegins(p) \/ PatchEnds(p) PROVE file' = file /\ jobs' = jobs
  BY <1>2 DEF PatchBegins, PatchEnds, PatchLoads, PatchLoad, PatchCommit, PatchRejected, execVars
<1>3. CASE Delete
  BY <1>3 DEF Delete, DeleteDatasource
<1>4. CASE UNCHANGED vars
  BY <1>4 DEF vars, jobVars, execVars
<1> QED BY <1>1, <1>2, <1>3, <1>4 DEF ExecNext

\* Records are only ever written by the commit of an import.
LEMMA RecordsWritten ==
    ASSUME EInv, [ExecNext]_vars, NEW j \in Jobs, j \in jobs'
    PROVE  \/ records'[j] = records[j]
           \/ \E s \in Executors :
                CommitCompleted(s) /\ JobOf(s) = j /\ (Complete(s) \/ LostCommit(s))
<1>1. ASSUME NEW s \in Executors, Complete(s) \/ (LostCommit(s) /\ CommitCompleted(s))
      PROVE  records'[j] = records[j] \/ (CommitCompleted(s) /\ JobOf(s) = j)
  BY <1>1 DEF Complete, CommitCompleted, EInv, TablesOK
<1>2. ASSUME NEW s \in Executors, (\E k \in Jobs : Request(s, k)) \/ ExecStep(s) \/ FaultStep(s),
             ~Complete(s), ~(LostCommit(s) /\ CommitCompleted(s))
      PROVE  records' = records
  BY <1>2 DEF Request, ExecStep, FaultStep, ClaimRefused, Claim, RefuseFile, Start, CommitRunning,
     InsertBatch, InsertRest, BadRow, JobGone, Refresh, MarkNothing, MarkLock, MarkFailed,
     DbError, LostCommit, Crash
<1>3. CASE Delete
  BY <1>3 DEF Delete, DeleteDatasource
<1>4. ASSUME NEW p \in Patchers, PatchBegins(p) \/ PatchEnds(p) PROVE records' = records
  BY <1>4 DEF PatchBegins, PatchEnds, execVars
<1>5. CASE UNCHANGED vars
  BY <1>5 DEF vars, execVars
<1> QED BY <1>1, <1>2, <1>3, <1>4, <1>5 DEF ExecNext

\* Unless a statement fails or an answer is lost, an import fails while it is
\* importing, or once its job is gone.
LEMMA WhenImportsFail ==
    ASSUME "db_error" \notin Faults, "lost_commit" \notin Faults,
           EInv, [ExecNext]_vars, NEW r \in Executors, ex'[r].pc \in {"failing", "marking"}
    PROVE  /\ ex'[r].job = JobOf(r)
           /\ \/ At(r, "importing") /\ ~Complete(r)
              \/ ex[r].pc \in {"failing", "marking"}
              \/ At(r, "refreshing") /\ JobOf(r) \notin jobs
<1>0. TablesOK
  BY DEF EInv
<1>s. ASSUME ex[r].pc \in Working PROVE ex[r] \in Active
  BY <1>s, <1>0, ActiveShape
<1>f. ASSUME NEW s \in Executors, NEW a, Finish(s, a)
      PROVE  ex'[r] = ex[r] /\ s # r
  BY <1>f, <1>0, FinishLeaves
<1>r. ASSUME NEW s \in Executors, NEW b, Raise(s, b), ex[s].pc \in Working
      PROVE  ex'[r].job = JobOf(r) /\ (s # r => ex'[r] = ex[r])
  BY <1>r, <1>0, RaiseLeaves DEF JobOf
<1>1. ASSUME NEW s \in Executors, (\E k \in Jobs : Request(s, k)) \/ Claim(s) \/ Start(s)
             \/ InsertBatch(s) \/ InsertRest(s) \/ Complete(s)
      PROVE  ex'[r] = ex[r] /\ s # r
  <2>1. s # r => ex'[r] = ex[r]
    BY <1>1, <1>0 DEF Request, Claim, Start, InsertBatch, InsertRest, Complete, TablesOK
  <2>2. ASSUME s = r PROVE ex'[r].pc \in {"claiming", "checking", "importing", "refreshing"}
    <3>1. CASE \E k \in Jobs : Request(s, k)
      BY <3>1, <2>2, <1>0 DEF Request, TablesOK
    <3>2. CASE Claim(s) \/ Start(s) \/ Complete(s)
      <4>1. ex[r] \in Active
        BY <3>2, <2>2, <1>s DEF Claim, Start, CommitRunning, Complete, CommitCompleted, At, Working
      <4>2. DOMAIN ex = Executors
        BY <1>0 DEF TablesOK
      <4>3. CASE Claim(s)
        BY <4>1, <4>2, <4>3, <2>2 DEF Claim, Active
      <4>4. CASE Start(s)
        BY <4>1, <4>2, <4>4, <2>2 DEF Start, Active
      <4>5. CASE Complete(s)
        BY <4>1, <4>2, <4>5, <2>2 DEF Complete, Active
      <4> QED BY <3>2, <4>3, <4>4, <4>5
    <3>3. CASE InsertBatch(s) \/ InsertRest(s)
      <4>1. ex[r] \in Active /\ ex[r].pc = "importing"
        BY <3>3, <2>2, <1>s DEF InsertBatch, InsertRest, At, Working
      <4> QED BY <3>3, <4>1, <2>2, <1>0 DEF InsertBatch, InsertRest, Active, TablesOK
    <3> QED BY <1>1, <3>1, <3>2, <3>3
  <2> QED BY <2>1, <2>2
<1>2. ASSUME NEW s \in Executors, ClaimRefused(s) \/ RefuseFile(s) \/ MarkNothing(s) \/ MarkFailed(s)
             \/ Crash(s) \/ DbError(s) \/ LostCommit(s)
      PROVE  ex'[r] = ex[r]
  BY <1>2, <1>f DEF ClaimRefused, RefuseFile, MarkNothing, MarkFailed, Crash, DbError, LostCommit
<1>3. ASSUME NEW s \in Executors, BadRow(s) \/ JobGone(s)
      PROVE  ex'[r].job = JobOf(r) /\ (ex'[r] = ex[r] \/ (At(r, "importing") /\ ~Complete(r)))
  <2>1. ex'[r].job = JobOf(r) /\ (s # r => ex'[r] = ex[r])
    BY <1>3, <1>r DEF BadRow, JobGone, At, Working
  <2>2. s = r => At(r, "importing") /\ ~Complete(r)
    BY <1>3, <1>1 DEF BadRow, JobGone
  <2> QED BY <2>1, <2>2
<1>4. ASSUME NEW s \in Executors, Refresh(s)
      PROVE  ex'[r].job = JobOf(r) /\ (ex'[r] = ex[r] \/ (At(r, "refreshing") /\ JobOf(r) \notin jobs))
  BY <1>4, <1>f, <1>r DEF Refresh, At, JobOf, Working
<1>5. ASSUME NEW s \in Executors, MarkLock(s)
      PROVE  ex'[r].job = JobOf(r) /\ (ex'[r] = ex[r] \/ At(r, "failing"))
  BY <1>5, <1>0, <1>s DEF MarkLock, At, Working, Active, JobOf, TablesOK
<1>6. CASE (\E p \in Patchers : PatchBegins(p) \/ PatchEnds(p)) \/ Delete \/ UNCHANGED vars
  BY <1>6 DEF PatchBegins, PatchEnds, Delete, vars, execVars, JobOf
<1>7. ex'[r] = ex[r] => ex'[r].job = JobOf(r) /\ ex[r].pc \in {"failing", "marking"}
  BY DEF JobOf
<1> QED BY <1>1, <1>2, <1>3, <1>4, <1>5, <1>6, <1>7 DEF ExecNext, ExecStep, FaultStep, At

\* So it has no records when it is reported.
LEMMA FailsEmptyHanded ==
    ASSUME "db_error" \notin Faults, "lost_commit" \notin Faults,
           MatchInv, [ExecNext]_vars, NEW r \in Executors
    PROVE  LeftNothing(r)'
<1>0. EInv /\ TablesOK /\ ExOK(r) /\ LeftNothing(r)
  BY DEF MatchInv, RowsInv, EInv
<1> SUFFICES ASSUME ex'[r].pc \in {"failing", "marking"}, ex'[r].job \in jobs'
             PROVE  records'[ex'[r].job] = {}
  BY DEF LeftNothing, JobOf
<1> DEFINE j == JobOf(r)
<1>1. /\ ex'[r].job = j /\ j \in jobs
      /\ ex[r].pc \in {"importing", "failing", "marking"} /\ ~Complete(r)
  BY <1>0, WhenImportsFail, JobsOnlyGo DEF Complete, CommitCompleted, At
<1>2. records[j] = {} /\ j \in Jobs /\ InImport(r, j)
  BY <1>0, <1>1 DEF ExOK, LeftNothing, At, InImport, TablesOK
<1>3. ASSUME NEW s \in Executors, CommitCompleted(s), JobOf(s) = j, Complete(s) \/ LostCommit(s)
      PROVE  FALSE
  <2>1. s = r
    BY <1>0, <1>2, <1>3 DEF EInv, SingleImporter, InImport, CommitCompleted, At
  <2> QED BY <1>1, <1>3, <2>1 DEF LostCommit
<1> QED BY <1>0, <1>1, <1>2, <1>3, RecordsWritten

\* The one commit that writes records writes their number, and no other step
\* changes what was processed while there are records.
LEMMA CountsKept ==
    ASSUME "lost_commit" \notin Faults, MatchInv, [ExecNext]_vars, NEW j \in Jobs
    PROVE  Counted(j)'
<1>0. RowsInv /\ EInv /\ TablesOK /\ Counted(j)
  BY DEF MatchInv, RowsInv, EInv
<1> SUFFICES ASSUME file[j] # NoFile, j \in jobs' PROVE row'[j].processed = Cardinality(records'[j])
  BY JobsOnlyGo DEF Counted
<1>1. j \in jobs /\ row[j].processed = Cardinality(records[j]) /\ Cardinality({}) = 0
  BY <1>0, JobsOnlyGo, FS_EmptySet DEF Counted
<1>2. ASSUME NEW s \in Executors, CommitCompleted(s)
      PROVE  row'[j].processed = Cardinality(records'[j])
  <2>1. CASE JobOf(s) = j
    <3>1. /\ ex[s].staged \in Nat /\ records[j] = {}
      BY <1>0, <1>2, <2>1, ActiveShape DEF CommitCompleted, At, Working, EInv, ExOK
    <3>2. ImportedRow(s).processed = ex[s].staged
      BY <1>0, <1>1, <1>2, <2>1, <3>1, ImportedRowFacts
    <3>3. row'[j] = ImportedRow(s) /\ records'[j] = 1..ex[s].staged
      BY <1>0, <1>2, <2>1 DEF CommitCompleted, TablesOK
    <3>4. Cardinality(1..ex[s].staged) = ex[s].staged
      BY <3>1, CardinalityUpTo
    <3> QED BY <3>2, <3>3, <3>4
  <2>2. CASE JobOf(s) # j
    BY <1>0, <1>1, <1>2, <2>2 DEF CommitCompleted, TablesOK
  <2> QED BY <2>1, <2>2
<1>3. ASSUME \A s \in Executors : ~CommitCompleted(s) PROVE records'[j] = records[j]
  BY <1>0, <1>3, RecordsWritten
<1>4. ASSUME NEW s \in Executors, CommitRunning(s)
      PROVE  row'[j].processed = row[j].processed
  <2>1. row' = [row EXCEPT ![JobOf(s)] = StartedRow(s)]
    BY <1>4 DEF CommitRunning
  <2>2. CASE JobOf(s) = j
    <3>1. row[j].processed = 0
      BY <1>0, <1>4, <2>2 DEF CommitRunning, RowsInv, EInv, ExOK, Balanced
    <3> QED BY <1>0, <1>4, <2>1, <2>2, <3>1, StartedRowFacts DEF TablesOK
  <2>3. CASE JobOf(s) # j
    BY <1>0, <2>1, <2>3 DEF TablesOK
  <2> QED BY <2>2, <2>3
<1>5. ASSUME NEW s \in Executors, MarkFailed(s)
      PROVE  row'[j].processed = row[j].processed
  <2>1. row' = [row EXCEPT ![JobOf(s)] = FailedRow(ex[s].loaded)] /\ FailedRow(ex[s].loaded).processed = 0
    BY <1>0, <1>5, MarkedRowFacts
  <2>2. CASE JobOf(s) = j
    <3>1. records[j] = {}
      BY <1>1, <1>5, <2>2 DEF MarkFailed, MatchInv, LeftNothing, At
    <3> QED BY <1>0, <1>1, <2>1, <2>2, <3>1 DEF TablesOK
  <2>3. CASE JobOf(s) # j
    BY <1>0, <2>1, <2>3 DEF TablesOK
  <2> QED BY <2>2, <2>3
<1>6. ASSUME NEW p \in Patchers, PatchEnds(p)
      PROVE  row'[j].processed = row[j].processed
  <2>1. CASE row' = row
    BY <2>1
  <2>2. CASE PatchCommit(p)
    <3>1. row' = [row EXCEPT ![patch[p].job] = PatchedRow(p)] /\ patch[p].pc = "updating"
      BY <2>2 DEF PatchCommit
    <3>2. CASE patch[p].job = j
      BY <1>0, <3>1, <3>2, PatchKeepsCounters DEF TablesOK
    <3>3. CASE patch[p].job # j
      BY <1>0, <3>1, <3>3 DEF TablesOK
    <3> QED BY <3>2, <3>3
  <2> QED BY <1>6, <2>1, <2>2 DEF PatchEnds, PatchRejected
<1>7. ASSUME NEW s \in Executors, (\E k \in Jobs : Request(s, k)) \/ ExecStep(s) \/ FaultStep(s),
             ~CommitCompleted(s), ~CommitRunning(s), ~MarkFailed(s)
      PROVE  row' = row
  BY <1>7 DEF Request, ExecStep, FaultStep, ClaimRefused, Claim, RefuseFile, Start,
     InsertBatch, InsertRest, BadRow, JobGone, Complete, Refresh, MarkNothing, MarkLock,
     DbError, LostCommit, Crash, jobVars
<1>8. ASSUME (\E p \in Patchers : PatchBegins(p)) \/ Delete \/ UNCHANGED vars
      PROVE  row' = row
  BY <1>8 DEF PatchBegins, PatchLoads, PatchLoad, Delete, DeleteDatasource, vars, jobVars
<1> QED BY <1>1, <1>2, <1>3, <1>4, <1>5, <1>6, <1>7, <1>8 DEF ExecNext

\* The counters of an imported job and its records always agree, also while
\* PATCHes race with the import, which checks nothing when it writes COMPLETED
\* (csv_import_execution.py:95-110).  A failing statement or a lost answer
\* breaks this once a stale PATCH has reopened the job (README).
THEOREM CountersTrue ==
    ASSUME "db_error" \notin Faults, "lost_commit" \notin Faults
    PROVE  ExecSpec => []CountersMatchRecords
<1>1. ExecInit => MatchInv
  <2> SUFFICES ASSUME ExecInit PROVE MatchInv
    OBVIOUS
  <2>1. \A j \in Jobs : Counted(j)
    BY FS_EmptySet DEF ExecInit, NewRow, Counted
  <2>2. \A r \in Executors : LeftNothing(r)
    BY DEF ExecInit, Ready, LeftNothing
  <2> QED BY <2>1, <2>2, RowsInitial DEF MatchInv
<1>2. MatchInv /\ [ExecNext]_vars => MatchInv'
  BY RowsKept, FailsEmptyHanded, CountsKept DEF MatchInv
<1>3. MatchInv => CountersMatchRecords
  BY DEF MatchInv, RowsInv, EInv, TablesOK, Balanced, Counted, CountersMatchRecords
<1> QED BY <1>1, <1>2, <1>3, PTL DEF ExecSpec

===============================================================================
