--------------------------- MODULE RecordPages_proofs ---------------------------
(***************************************************************************)
(* No reader sees a part of an import, for any number of requests, readers *)
(* and rows.  The three statements of a page stay consistent because the   *)
(* tables they read change once: the records and the issues of a job       *)
(* appear in one commit and disappear only with the job (TablesChange).    *)
(*                                                                         *)
(* The row of a job with a file takes one of four values (LifeRows), of    *)
(* which each goes with certain records and issues (JobLife): that is what *)
(* a reader may conclude from a status, and why the rows of all jobs       *)
(* implement JobLifecycle.                                                 *)
(***************************************************************************)
EXTENDS RecordPages, CsvImportExecution_proofs

\* All rows a job can ever have in the table a page is taken from.
AllRows(kind, j) ==
    IF kind = "issues" THEN 1..1 ELSE IF file[j] = NoFile THEN {} ELSE 1..file[j].rows

ReadOK(q) ==
    /\ read[q].pc \in {"loaded", "paged", "answered"} =>
         read[q].job \in Jobs /\ read[q].kind \in Kinds /\ read[q].offset \in Nat
    /\ read[q].pc \in {"paged", "answered"} =>
         read[q].items \in
           {{}, {i \in AllRows(read[q].kind, read[q].job) :
                   i > read[q].offset /\ i <= read[q].offset + PageLimit}}
    /\ read[q].pc = "paged" /\ read[q].items # {} =>
         read[q].job \notin jobs \/ RowsOf(read[q].kind, read[q].job) # {}
    /\ read[q].pc = "answered" =>
         /\ read[q].total \in {0, Cardinality(AllRows(read[q].kind, read[q].job))}
         /\ read[q].items # {} /\ read[q].total = 0 => read[q].job \notin jobs

PageInv == EInv /\ Outcomes /\ DOMAIN read = Readers /\ \A q \in Readers : ReadOK(q)

-------------------------------------------------------------------------------

\* OFFSET and LIMIT on rows numbered from 1 without gaps.
LEMMA SliceOfRows ==
    ASSUME NEW n \in Nat, NEW offset \in Nat
    PROVE  Slice(1..n, offset) = {i \in 1..n : i > offset /\ i <= offset + PageLimit}
<1>1. ASSUME NEW i \in 1..n PROVE Cardinality({k \in 1..n : k < i}) = i - 1
  <2>1. {k \in 1..n : k < i} = 1..(i - 1)
    OBVIOUS
  <2>2. 1 \in Int /\ i - 1 \in Int
    OBVIOUS
  <2>3. Cardinality(1..(i - 1)) = IF 1 > i - 1 THEN 0 ELSE (i - 1) - 1 + 1
    BY <2>2, FS_Interval, Zenon
  <2>4. (IF 1 > i - 1 THEN 0 ELSE (i - 1) - 1 + 1) = i - 1
    OBVIOUS
  <2> QED BY <2>1, <2>3, <2>4, Zenon
<1>2. \A i \in 1..n : i - 1 \in offset .. offset + PageLimit - 1 <=> i > offset /\ i <= offset + PageLimit
  BY PageLimitAssumption
<1> QED BY <1>1, <1>2 DEF Slice

\* Whatever is committed, a table holds none or all rows of a job.
LEMMA NoneOrAll ==
    ASSUME EInv, NEW j \in Jobs, NEW kind \in Kinds
    PROVE  /\ RowsOf(kind, j) \in {{}, AllRows(kind, j)}
           /\ \E n \in Nat : AllRows(kind, j) = 1..n
<1>1. JobOK(j) /\ file[j] \in Files \cup {NoFile}
  BY DEF EInv, TablesOK
<1>2. CASE kind = "issues"
  <2>1. {i \in {1} : issues[j]} \in {{}, 1..1}
    OBVIOUS
  <2> QED BY <1>2, <2>1 DEF RowsOf, AllRows
<1>3. CASE kind # "issues"
  <2>1. kind = "records"
    BY <1>3 DEF Kinds
  <2>2. CASE file[j] = NoFile
    <3>1. {} = 1..0
      OBVIOUS
    <3> QED BY <1>1, <2>1, <2>2, <3>1 DEF RowsOf, AllRows, JobOK
  <2>3. CASE file[j] # NoFile
    <3>1. file[j].rows \in Nat
      BY <1>1, <2>3 DEF Files
    <3> QED BY <1>1, <2>1, <2>3, <3>1 DEF RowsOf, AllRows, JobOK
  <2> QED BY <2>2, <2>3
<1> QED BY <1>2, <1>3

\* What a reader has read survives every commit.
LEMMA WritersKeepPages ==
    ASSUME PageInv, [ExecNext]_vars, UNCHANGED read PROVE PageInv'
<1>1. EInv' /\ Outcomes'
  BY ExecNextPreserves, OutcomesKept DEF PageInv
<1>2. file' = file /\ jobs' \subseteq jobs
  BY JobsOnlyGo
<1>3. ASSUME NEW q \in Readers PROVE ReadOK(q)'
  <2>0. ReadOK(q)
    BY DEF PageInv
  <2>1. ASSUME read[q].pc = "paged", read[q].items # {}, read[q].job \in jobs'
        PROVE  RowsOf(read[q].kind, read[q].job)' # {}
    <3> DEFINE j == read[q].job
               kind == read[q].kind
    <3>1. j \in Jobs /\ kind \in Kinds /\ RowsOf(kind, j) # {}
      BY <2>0, <2>1, <1>2 DEF ReadOK
    <3>2. CASE kind = "records"
      <4>1. records[j] # {}
        BY <3>1, <3>2 DEF RowsOf
      <4>2. records'[j] = records[j]
        BY <4>1, <3>1, <2>1, TablesChange DEF PageInv
      <4> QED BY <3>2, <4>1, <4>2 DEF RowsOf
    <3>3. CASE kind = "issues"
      <4>1. issues[j]
        BY <3>1, <3>3 DEF RowsOf
      <4>2. issues'[j]
        BY <4>1, <3>1, <2>1, TablesChange DEF PageInv
      <4> QED BY <3>3, <4>2 DEF RowsOf
    <3> QED BY <3>1, <3>2, <3>3 DEF Kinds
  <2>2. \A j, kind : AllRows(kind, j)' = AllRows(kind, j)
    BY <1>2 DEF AllRows
  <2> QED BY <2>0, <2>1, <2>2, <1>2 DEF ReadOK
<1> QED BY <1>1, <1>3 DEF PageInv

\* One step per statement of a reader.
LEMMA ReadersKeepPages ==
    ASSUME PageInv, NEW q \in Readers, ReadStep(q) PROVE PageInv'
<1>0. UNCHANGED vars
  BY DEF ReadStep, ReadJob, ReadPage, ReadTotal
<1>1. EInv' /\ Outcomes'
  BY <1>0, ExecNextPreserves, OutcomesKept DEF PageInv
<1>2. /\ DOMAIN read' = Readers
      /\ \A p \in Readers : p # q => read'[p] = read[p]
  BY DEF PageInv, ReadStep, ReadJob, ReadPage, ReadTotal
<1>3. file' = file /\ jobs' = jobs /\ records' = records /\ issues' = issues
  BY <1>0 DEF vars, jobVars, execVars
<1>4. ASSUME NEW p \in Readers, p # q PROVE ReadOK(p)'
  BY <1>2, <1>3, <1>4 DEF PageInv, ReadOK, AllRows, RowsOf
<1>5. ReadOK(q)'
  <2>0. ReadOK(q)
    BY DEF PageInv
  <2>1. ASSUME NEW j \in Jobs, NEW kind \in Kinds, NEW offset \in 0..MaxRows, ReadJob(q, j, kind, offset)
        PROVE  ReadOK(q)'
    BY <2>1, MaxRowsAssumption DEF ReadJob, ReadOK, PageInv
  <2>2. CASE ReadPage(q)
    <3> DEFINE j == read[q].job
               kind == read[q].kind
               o == read[q].offset
               page == Slice(RowsOf(kind, j), o)
    <3>1. /\ j \in Jobs /\ kind \in Kinds /\ o \in Nat
      BY <2>0, <2>2 DEF ReadPage, ReadOK
    <3>2. /\ read'[q].pc = "paged" /\ read'[q].job = j /\ read'[q].kind = kind
          /\ read'[q].offset = o /\ read'[q].items = page
      BY <2>2 DEF ReadPage, PageInv
    <3>3. PICK n \in Nat : AllRows(kind, j) = 1..n
      BY <3>1, NoneOrAll DEF PageInv
    <3>4. RowsOf(kind, j) \in {{}, 1..n}
      BY <3>1, <3>3, NoneOrAll DEF PageInv
    <3>5. page \in {{}, {i \in 1..n : i > o /\ i <= o + PageLimit}}
      <4>1. CASE RowsOf(kind, j) = {}
        BY <4>1 DEF Slice
      <4>2. CASE RowsOf(kind, j) = 1..n
        BY <4>2, <3>1, SliceOfRows
      <4> QED BY <3>4, <4>1, <4>2
    <3>6. page # {} => RowsOf(kind, j) # {}
      BY DEF Slice
    <3>7. RowsOf(kind, j)' = RowsOf(kind, j) /\ AllRows(kind, j)' = AllRows(kind, j)
      BY <1>3, <2>2, <3>2 DEF RowsOf, AllRows
    <3> HIDE DEF page
    <3> QED BY <1>3, <3>1, <3>2, <3>3, <3>5, <3>6, <3>7 DEF ReadOK, RowsOf, AllRows
  <2>3. CASE ReadTotal(q)
    <3> DEFINE j == read[q].job
               kind == read[q].kind
    <3>1. j \in Jobs /\ kind \in Kinds /\ read[q].offset \in Nat
      BY <2>0, <2>3 DEF ReadTotal, ReadOK
    <3>2. /\ read'[q].pc = "answered" /\ read'[q].job = j /\ read'[q].kind = kind
          /\ read'[q].offset = read[q].offset /\ read'[q].items = read[q].items
          /\ read'[q].total = Cardinality(RowsOf(kind, j))
      BY <2>3 DEF ReadTotal, PageInv
    <3>3. PICK n \in Nat : AllRows(kind, j) = 1..n
      BY <3>1, NoneOrAll DEF PageInv
    <3>4. RowsOf(kind, j) \in {{}, 1..n}
      BY <3>1, <3>3, NoneOrAll DEF PageInv
    <3>5. Cardinality({}) = 0 /\ Cardinality(1..n) = n
      BY FS_EmptySet, FS_Interval
    <3>6. /\ Cardinality(RowsOf(kind, j)) \in {0, Cardinality(AllRows(kind, j))}
          /\ Cardinality(RowsOf(kind, j)) = 0 => RowsOf(kind, j) = {}
      BY <3>3, <3>4, <3>5
    <3>7. read[q].items # {} => j \notin jobs \/ RowsOf(kind, j) # {}
      BY <2>0, <2>3 DEF ReadTotal, ReadOK
    <3>8. read[q].items \in {{}, {i \in AllRows(kind, j) : i > read[q].offset /\ i <= read[q].offset + PageLimit}}
      BY <2>0, <2>3 DEF ReadTotal, ReadOK
    <3>9. \A k, l : AllRows(l, k)' = AllRows(l, k)
      BY <1>3 DEF AllRows
    <3> QED BY <1>3, <3>1, <3>2, <3>6, <3>7, <3>8, <3>9 DEF ReadOK
  <2> QED BY <2>1, <2>2, <2>3 DEF ReadStep
<1> QED BY <1>1, <1>2, <1>4, <1>5 DEF PageInv

\* A step of PageSpec is one of ExecSpec beside idle readers, or one of a reader.
LEMMA PageStep == PageInv /\ [PageNext]_pageVars => PageInv'
<1> SUFFICES ASSUME PageInv, [PageNext]_pageVars PROVE PageInv'
  OBVIOUS
<1>1. \/ [ExecNext]_vars /\ UNCHANGED read
      \/ \E q \in Readers : ReadStep(q)
  BY DEF PageNext, PatchByHand, ExecNext, pageVars
<1> QED BY <1>1, WritersKeepPages, ReadersKeepPages

\* Nobody has read anything at first.
LEMMA PageInitial == PageInit => PageInv
<1> SUFFICES ASSUME PageInit PROVE PageInv
  OBVIOUS
<1>1. EInv
  BY ExecInitEstablishes DEF PageInit
<1>2. Outcomes
  BY DEF PageInit, ExecInit, Outcomes, OutcomeOK, At, Ready
<1>3. DOMAIN read = Readers /\ \A q \in Readers : read[q].pc = "unread"
  BY DEF PageInit, Unread
<1> QED BY <1>1, <1>2, <1>3 DEF PageInv, ReadOK

\* Pages and totals of a job's records and issues are none or whole, in whatever
\* order the statements of readers, imports and deletions fall
\* (services/imported_record.py, services/import_validation_issue.py).
THEOREM PagesWhole == PageSpec => []PagesAreWhole
<1>1. PageInv => PagesAreWhole
  <2>1. 1..1 = {1}
    OBVIOUS
  <2> QED BY <2>1 DEF PageInv, ReadOK, PagesAreWhole, AllRows
<1> QED BY <1>1, PageInitial, PageStep, PTL DEF PageSpec

-------------------------------------------------------------------------------
(* The life of a prepared job, which only the server writes                  *)

StartRow == RunningRow(NewRow(0))

\* A prepared job has one of four rows, its records come with the third and its
\* issues with the last.
JobLife(j) ==
    /\ file[j] # NoFile =>
         /\ row[j] \in {NewRow(0), StartRow, CompletedRow(StartRow, file[j].rows), FailedRow(StartRow)}
         /\ j \in jobs => IF row[j].status = "completed"
                           THEN file[j].end = "eof" /\ records[j] = 1..file[j].rows
                           ELSE records[j] = {}
    /\ issues[j] => file[j] # NoFile /\ row[j].status = "failed"

\* Nothing comes between the commit of RUNNING and the end of the import.
ImportOwnsRow(r) ==
    At(r, "importing") => ex[r].loaded = StartRow /\ row[JobOf(r)] = StartRow

\* What a PATCH may make of a row.
HandMove(old, new) ==
    /\ Lifecycle!CountersAdvance(old, new)
    /\ \/ Lifecycle!Runs(old, new) \/ Lifecycle!Completes(old, new)
       \/ Lifecycle!Fails(old, new) \/ Lifecycle!Cancels(old, new)

\* Nothing comes between the two statements of a PATCH either.
HandOwnsRow(p) ==
    patch[p].pc = "updating" =>
        /\ file[patch[p].job] = NoFile
        /\ patch[p].old = row[patch[p].job] /\ HandMove(patch[p].old, patch[p].new)
        /\ \A s \in Patchers \ {p} : patch[s].pc = "updating" => patch[s].job # patch[p].job

\* A job that was found completed is so as long as it exists.
StatusOK(q) ==
    /\ read[q].pc \in {"loaded", "paged", "answered"} /\ read[q].status = "completed"
         /\ read[q].job \in jobs /\ file[read[q].job] # NoFile => row[read[q].job].status = "completed"
    /\ read[q].pc = "answered" /\ read[q].job \in jobs =>
         /\ read[q].status = "completed" /\ file[read[q].job] # NoFile =>
              read[q].total = IF read[q].kind = "records" THEN file[read[q].job].rows ELSE 0
         /\ read[q].kind = "issues" /\ read[q].total > 0 => read[q].status # "completed"

LifeInv ==
    /\ PageInv
    /\ RowsInv
    /\ \A j \in Jobs : JobLife(j)
    /\ \A r \in Executors : ImportOwnsRow(r)
    /\ \A p \in Patchers : HandOwnsRow(p)
    /\ \A q \in Readers : StatusOK(q)

\* A step of the writers: execute requests, PATCHes by hand and the deletion.
Writers ==
    \/ \E r \in Executors : (\E j \in Jobs : Request(r, j)) \/ ExecStep(r) \/ FaultStep(r)
    \/ \E p \in Patchers : PatchByHand(p) \/ PatchEnds(p)
    \/ Delete
    \/ UNCHANGED vars

\* The writers do nothing but what CsvImportExecution describes.
LEMMA WritersAreExec == Writers => [ExecNext]_vars
BY DEF Writers, ExecNext, PatchByHand

\* The four rows of a prepared job.
LEMMA LifeRows ==
    ASSUME NEW n \in Nat
    PROVE  /\ NewRow(0) \in JobRow /\ NewRow(0).status = "pending"
           /\ NewRow(0).total = 0 /\ NewRow(0).processed = 0 /\ NewRow(0).failed = 0
           /\ NewRow(0).error = NoMessage
           /\ StartRow \in JobRow /\ StartRow.status = "running"
           /\ StartRow.total = 0 /\ StartRow.processed = 0 /\ StartRow.failed = 0
           /\ StartRow.started /\ ~StartRow.completed /\ StartRow.error = NoMessage
           /\ CompletedRow(StartRow, n) \in JobRow /\ CompletedRow(StartRow, n).status = "completed"
           /\ CompletedRow(StartRow, n).total = n /\ CompletedRow(StartRow, n).processed = n
           /\ CompletedRow(StartRow, n).failed = 0 /\ CompletedRow(StartRow, n).completed
           /\ CompletedRow(StartRow, n).started = StartRow.started
           /\ CompletedRow(StartRow, n).error = NoMessage
           /\ FailedRow(StartRow) \in JobRow /\ FailedRow(StartRow).status = "failed"
           /\ FailedRow(StartRow).total = 0 /\ FailedRow(StartRow).processed = 0
           /\ FailedRow(StartRow).failed = 0 /\ FailedRow(StartRow).completed
           /\ FailedRow(StartRow).started = StartRow.started
           /\ FailedRow(StartRow).error = ExecutionFailed
<1>1. /\ NewRow(0) \in JobRow /\ NewRow(0).status = "pending"
      /\ NewRow(0).total = 0 /\ NewRow(0).processed = 0 /\ NewRow(0).failed = 0
      /\ NewRow(0).error = NoMessage
  BY NewRowFacts, 0 \in Nat DEF NewRow
<1>2. /\ StartRow \in JobRow /\ StartRow.status = "running"
      /\ StartRow.total = 0 /\ StartRow.processed = 0 /\ StartRow.failed = 0
      /\ StartRow.started /\ ~StartRow.completed /\ StartRow.error = NoMessage
  <2>1. StartRow \in JobRow
    BY <1>1, AssignedRows, 0 \in Nat DEF StartRow
  <2> QED BY <1>1, <2>1 DEF StartRow, RunningRow, JobRow
<1>3. /\ CompletedRow(StartRow, n) \in JobRow /\ CompletedRow(StartRow, n).status = "completed"
      /\ CompletedRow(StartRow, n).total = n /\ CompletedRow(StartRow, n).processed = n
      /\ CompletedRow(StartRow, n).failed = 0 /\ CompletedRow(StartRow, n).completed
      /\ CompletedRow(StartRow, n).started = StartRow.started
      /\ CompletedRow(StartRow, n).error = NoMessage
  BY <1>2, AssignedRows DEF CompletedRow, JobRow
<1>4. /\ FailedRow(StartRow) \in JobRow /\ FailedRow(StartRow).status = "failed"
      /\ FailedRow(StartRow).total = 0 /\ FailedRow(StartRow).processed = 0
      /\ FailedRow(StartRow).failed = 0 /\ FailedRow(StartRow).completed
      /\ FailedRow(StartRow).started = StartRow.started
      /\ FailedRow(StartRow).error = ExecutionFailed
  BY <1>2, AssignedRows, 0 \in Nat DEF FailedRow, JobRow
<1> QED BY <1>1, <1>2, <1>3, <1>4

\* Which row of a prepared job has which status.
LEMMA LifeStatus ==
    ASSUME LifeInv, NEW j \in Jobs, file[j] # NoFile
    PROVE  /\ row[j].status = "pending" => row[j] = NewRow(0)
           /\ row[j].status = "running" => row[j] = StartRow
<1>1. JobLife(j) /\ file[j] \in Files
  BY DEF LifeInv, PageInv, EInv, TablesOK
<1>2. file[j].rows \in Nat
  BY <1>1 DEF Files
<1> DEFINE c == CompletedRow(StartRow, file[j].rows)
<1>3. /\ StartRow.status = "running" /\ NewRow(0).status = "pending"
      /\ c.status = "completed" /\ FailedRow(StartRow).status = "failed"
  BY <1>2, LifeRows
<1> HIDE DEF c
<1> QED BY <1>1, <1>3 DEF JobLife, c

\* What the three commits of a request write.
LEMMA StartWrites ==
    ASSUME LifeInv, NEW r \in Executors, CommitRunning(r)
    PROVE  /\ JobOf(r) \in jobs /\ JobOf(r) \in Jobs /\ FileOf(r) # NoFile
           /\ row[JobOf(r)] = NewRow(0) /\ ex[r].loaded = NewRow(0)
           /\ row' = [row EXCEPT ![JobOf(r)] = StartRow]
<1>1. /\ JobOf(r) \in jobs /\ JobOf(r) \in Jobs /\ FileOf(r) # NoFile
      /\ row[JobOf(r)].status = "pending" /\ At(r, "checking")
  BY ActiveShape DEF CommitRunning, At, Working, LifeInv, RowsInv, EInv, ExOK
<1>2. ex[r].loaded = row[JobOf(r)] /\ row[JobOf(r)] = NewRow(0)
  BY <1>1, LifeStatus DEF LifeInv, RowsInv, LoadedOK, FileOf
<1>3. StartedRow(r) = StartRow
  BY <1>2, StartedRowFacts DEF LifeInv, StartRow
<1> QED BY <1>1, <1>2, <1>3 DEF CommitRunning

\* The final commit takes it from the started to the completed row, with all
\* records.
LEMMA ImportWrites ==
    ASSUME LifeInv, NEW r \in Executors, CommitCompleted(r)
    PROVE  /\ JobOf(r) \in jobs /\ JobOf(r) \in Jobs
           /\ FileOf(r) # NoFile /\ FileOf(r).end = "eof"
           /\ row[JobOf(r)] = StartRow
           /\ row' = [row EXCEPT ![JobOf(r)] = CompletedRow(StartRow, FileOf(r).rows)]
           /\ records' = [records EXCEPT ![JobOf(r)] = 1..FileOf(r).rows]
<1>1. /\ JobOf(r) \in jobs /\ JobOf(r) \in Jobs /\ FileOf(r) # NoFile /\ FileOf(r).end = "eof"
      /\ ex[r].staged = FileOf(r).rows /\ ex[r].staged \in Nat /\ At(r, "importing")
  BY ActiveShape DEF CommitCompleted, AllStaged, At, Working, LifeInv, RowsInv, EInv, ExOK
<1>2. ex[r].loaded = StartRow /\ row[JobOf(r)] = StartRow
  BY <1>1 DEF LifeInv, ImportOwnsRow
<1> DEFINE new == CompletedRow(StartRow, FileOf(r).rows)
<1>3. StartRow \in JobRow /\ new \in JobRow
  BY <1>1, LifeRows
<1>4. ImportedRow(r) = new
  <2>1. ImportedRow(r) = Merge(StartRow, new, Dirty(StartRow, new, {"completed"}))
    BY <1>1, <1>2 DEF ImportedRow
  <2> HIDE DEF new
  <2> QED BY <1>3, <2>1, MergeOfLoaded
<1> QED BY <1>1, <1>2, <1>4 DEF CommitCompleted

\* The failure report takes it from the started to the failed row.
LEMMA FailureWrites ==
    ASSUME LifeInv, NEW r \in Executors, MarkFailed(r)
    PROVE  /\ JobOf(r) \in jobs /\ JobOf(r) \in Jobs /\ FileOf(r) # NoFile
           /\ row[JobOf(r)] = StartRow
           /\ row' = [row EXCEPT ![JobOf(r)] = FailedRow(StartRow)]
<1>1. /\ JobOf(r) \in jobs /\ JobOf(r) \in Jobs /\ FileOf(r) # NoFile
      /\ row[JobOf(r)].status = "running" /\ At(r, "marking")
  BY ActiveShape DEF MarkFailed, At, Working, LifeInv, RowsInv, EInv, ExOK
<1>2. ex[r].loaded = row[JobOf(r)] /\ row[JobOf(r)] = StartRow
  BY <1>1, LifeStatus DEF LifeInv, RowsInv, LoadedOK, FileOf
<1> QED BY <1>1, <1>2, MarkedRowFacts DEF LifeInv

\* A PATCH by hand writes the row it means to.
LEMMA HandWrites ==
    ASSUME LifeInv, NEW p \in Patchers, PatchCommit(p)
    PROVE  /\ patch[p].job \in jobs /\ patch[p].job \in Jobs /\ file[patch[p].job] = NoFile
           /\ row' = [row EXCEPT ![patch[p].job] = patch[p].new]
           /\ HandMove(row[patch[p].job], patch[p].new)
<1>1. /\ patch[p].pc = "updating" /\ patch[p] \in Update /\ patch[p].job \in jobs
      /\ row' = [row EXCEPT ![patch[p].job] = PatchedRow(p)]
  BY DEF PatchCommit, LifeInv, RowsInv, EInv, PatchMoves
<1>2. /\ patch[p].job \in Jobs /\ patch[p].old \in JobRow /\ patch[p].new \in JobRow
  BY <1>1 DEF Update
<1>3. /\ file[patch[p].job] = NoFile /\ patch[p].old = row[patch[p].job]
      /\ HandMove(row[patch[p].job], patch[p].new)
  BY <1>1 DEF LifeInv, HandOwnsRow
<1>4. PatchedRow(p) = patch[p].new
  BY <1>2, <1>3, MergeOfLoaded DEF PatchedRow
<1> QED BY <1>1, <1>2, <1>3, <1>4

\* Every other step leaves the rows and the records.
LEMMA WhoWrites ==
    ASSUME Writers
    PROVE  \/ row' = row /\ (Delete \/ (records' = records /\ issues' = issues /\ jobs' = jobs))
           \/ \E r \in Executors : Start(r) \/ Complete(r) \/ LostCommit(r) \/ MarkFailed(r)
           \/ \E p \in Patchers : PatchEnds(p) /\ PatchCommit(p)
<1>1. ASSUME NEW r \in Executors, (\E k \in Jobs : Request(r, k)) \/ ExecStep(r) \/ FaultStep(r),
             ~Start(r), ~Complete(r), ~LostCommit(r), ~MarkFailed(r)
      PROVE  row' = row /\ records' = records /\ issues' = issues /\ jobs' = jobs
  BY <1>1 DEF Request, ExecStep, FaultStep, ClaimRefused, Claim, RefuseFile,
     InsertBatch, InsertRest, BadRow, JobGone, Refresh, MarkNothing, MarkLock, DbError, Crash, jobVars
<1>2. ASSUME NEW p \in Patchers, PatchByHand(p) \/ (PatchEnds(p) /\ ~PatchCommit(p))
      PROVE  row' = row /\ records' = records /\ issues' = issues /\ jobs' = jobs
  BY <1>2 DEF PatchByHand, PatchBegins, PatchLoads, PatchLoad, PatchEnds, PatchRejected, execVars
<1>3. CASE Delete
  BY <1>3 DEF Delete, DeleteDatasource
<1>4. CASE UNCHANGED vars
  BY <1>4 DEF vars, jobVars, execVars
<1> QED BY <1>1, <1>2, <1>3, <1>4 DEF Writers

\* What one step makes of the row of one job, with its records and issues.
JobRowStep(j) ==
    \/ /\ row'[j] = row[j]
       /\ (records'[j] = records[j] /\ issues'[j] = issues[j]) \/ (j \notin jobs' /\ ~issues'[j])
    \/ /\ j \in jobs \cap jobs' /\ file[j] # NoFile /\ records'[j] = records[j] /\ issues'[j] = issues[j]
       /\ row[j] = NewRow(0) /\ row'[j] = StartRow
    \/ /\ j \in jobs \cap jobs' /\ file[j] # NoFile /\ issues'[j] = issues[j]
       /\ file[j].end = "eof" /\ records'[j] = 1..file[j].rows
       /\ row[j] = StartRow /\ row'[j] = CompletedRow(StartRow, file[j].rows)
    \/ /\ j \in jobs \cap jobs' /\ file[j] # NoFile /\ records'[j] = records[j]
       /\ row[j] = StartRow /\ row'[j] = FailedRow(StartRow)
    \/ /\ j \in jobs \cap jobs' /\ file[j] = NoFile /\ records'[j] = records[j] /\ issues'[j] = issues[j]
       /\ HandMove(row[j], row'[j])

\* There is no other step.
LEMMA RowSteps == ASSUME LifeInv, Writers, NEW j \in Jobs PROVE JobRowStep(j)
<1>0. /\ row \in [Jobs -> JobRow] /\ records \in [Jobs -> SUBSET (Nat \ {0})]
      /\ issues \in [Jobs -> BOOLEAN]
  BY DEF LifeInv, RowsInv, EInv, TablesOK
<1>1. ASSUME NEW r \in Executors, CommitRunning(r) PROVE JobRowStep(j)
  <2>1. /\ row'[j] = (IF j = JobOf(r) THEN StartRow ELSE row[j]) /\ records' = records /\ issues' = issues
        /\ jobs' = jobs
    BY <1>0, <1>1, StartWrites DEF CommitRunning
  <2> QED BY <1>1, <2>1, StartWrites DEF JobRowStep, FileOf
<1>2. ASSUME NEW r \in Executors, CommitCompleted(r) PROVE JobRowStep(j)
  <2>1. /\ row'[j] = IF j = JobOf(r) THEN CompletedRow(StartRow, file[j].rows) ELSE row[j]
        /\ records'[j] = IF j = JobOf(r) THEN 1..file[j].rows ELSE records[j]
    BY <1>0, <1>2, ImportWrites DEF FileOf
  <2>2. issues' = issues /\ jobs' = jobs
    BY <1>2 DEF CommitCompleted
  <2> QED BY <1>2, <2>1, <2>2, ImportWrites DEF JobRowStep, FileOf
<1>3. ASSUME NEW r \in Executors, MarkFailed(r) PROVE JobRowStep(j)
  <2>1. /\ row'[j] = IF j = JobOf(r) THEN FailedRow(StartRow) ELSE row[j]
        /\ records' = records /\ jobs' = jobs
        /\ j # JobOf(r) => issues'[j] = issues[j]
    BY <1>0, <1>3, FailureWrites DEF MarkFailed
  <2> QED BY <1>3, <2>1, FailureWrites DEF JobRowStep, FileOf
<1>4. ASSUME NEW p \in Patchers, PatchEnds(p), PatchCommit(p) PROVE JobRowStep(j)
  <2>1. /\ row'[j] = IF j = patch[p].job THEN patch[p].new ELSE row[j]
        /\ records' = records /\ issues' = issues /\ jobs' = jobs
    BY <1>0, <1>4, HandWrites DEF PatchCommit, PatchEnds, execVars
  <2> QED BY <1>4, <2>1, HandWrites DEF JobRowStep
<1>5. ASSUME row' = row, Delete \/ (records' = records /\ issues' = issues /\ jobs' = jobs)
      PROVE  JobRowStep(j)
  BY <1>5 DEF JobRowStep, Delete, DeleteDatasource
<1> QED BY <1>1, <1>2, <1>3, <1>4, <1>5, WhoWrites DEF Start, Complete, LostCommit

\* Every step keeps a prepared job on its way through the four rows.
LEMMA JobLifeKept == ASSUME LifeInv, Writers, NEW j \in Jobs PROVE JobLife(j)'
<1>1. /\ JobRowStep(j) /\ JobLife(j) /\ file' = file /\ jobs' \subseteq jobs
      /\ file[j] # NoFile => file[j].rows \in Nat
  BY RowSteps, WritersAreExec, JobsOnlyGo DEF LifeInv, RowsInv, EInv, TablesOK, Files
<1>2. CASE file[j] = NoFile
  BY <1>1, <1>2 DEF JobRowStep, JobLife
<1>3. CASE file[j] # NoFile
  <2> DEFINE c == CompletedRow(StartRow, file[j].rows)
             f == FailedRow(StartRow)
  <2>1. /\ NewRow(0).status = "pending" /\ StartRow.status = "running"
        /\ c.status = "completed" /\ f.status = "failed"
    BY <1>1, <1>3, LifeRows
  <2>2. CASE row'[j] = row[j] /\ records'[j] = records[j] /\ issues'[j] = issues[j]
    BY <1>1, <1>3, <2>2 DEF JobLife
  <2>3. CASE row'[j] = row[j] /\ j \notin jobs' /\ ~issues'[j]
    BY <1>1, <1>3, <2>3 DEF JobLife
  <2>4. CASE row'[j] # row[j]
    <3> HIDE DEF c, f
    <3>1. \/ /\ j \in jobs /\ row[j] = NewRow(0) /\ row'[j] = StartRow
             /\ records'[j] = records[j] /\ issues'[j] = issues[j]
          \/ /\ j \in jobs /\ row[j] = StartRow /\ row'[j] = c
             /\ file[j].end = "eof" /\ records'[j] = 1..file[j].rows /\ issues'[j] = issues[j]
          \/ /\ j \in jobs /\ row[j] = StartRow /\ row'[j] = f /\ records'[j] = records[j]
      BY <1>1, <1>3, <2>4 DEF JobRowStep, c, f
    <3>2. /\ row'[j] \in {NewRow(0), StartRow, c, f}
          /\ IF row'[j].status = "completed"
             THEN file[j].end = "eof" /\ records'[j] = 1..file[j].rows ELSE records'[j] = {}
          /\ issues'[j] => row'[j].status = "failed"
      BY <1>1, <1>3, <2>1, <3>1 DEF JobLife
    <3> QED BY <1>1, <1>3, <3>2 DEF JobLife, c, f
  <2> HIDE DEF c, f
  <2>5. CASE row'[j] = row[j]
    <3>1. NewRow(0) # StartRow /\ StartRow # c /\ StartRow # f
      BY <2>1
    <3>2. (records'[j] = records[j] /\ issues'[j] = issues[j]) \/ (j \notin jobs' /\ ~issues'[j])
      BY <1>1, <1>3, <2>5, <3>1 DEF JobRowStep, c, f
    <3> QED BY <2>2, <2>3, <2>5, <3>2
  <2> QED BY <2>4, <2>5
<1> QED BY <1>2, <1>3

\* How a request comes to be importing.
LEMMA WhenImporting ==
    ASSUME EInv, Writers, NEW r \in Executors, ex'[r].pc = "importing"
    PROVE  /\ ex'[r].job = JobOf(r)
           /\ \/ Start(r)
              \/ At(r, "importing") /\ ex'[r].loaded = ex[r].loaded
<1>0. TablesOK /\ DOMAIN ex = Executors
  BY DEF EInv, TablesOK
<1>s. ASSUME ex[r].pc \in Working PROVE ex[r] \in Active
  BY <1>s, <1>0, ActiveShape
<1>f. ASSUME NEW s \in Executors, NEW a, Finish(s, a) PROVE ex'[r] = ex[r]
  BY <1>f, <1>0, FinishLeaves
<1>r. ASSUME NEW s \in Executors, NEW b, Raise(s, b), ex[s].pc \in Working PROVE ex'[r] = ex[r]
  BY <1>r, <1>0, RaiseLeaves
<1>1. ASSUME NEW s \in Executors, (\E k \in Jobs : Request(s, k)) \/ Claim(s) \/ Complete(s) \/ MarkLock(s)
      PROVE  ex'[r] = ex[r]
  <2>1. s # r => ex'[r] = ex[r]
    BY <1>1, <1>0 DEF Request, Claim, Complete, MarkLock
  <2>2. ASSUME s = r PROVE ex'[r].pc # "importing"
    <3>1. CASE \E k \in Jobs : Request(s, k)
      BY <3>1, <2>2, <1>0 DEF Request
    <3>2. CASE Claim(s)
      BY <3>2, <2>2, <1>0, <1>s DEF Claim, At, Working, Active
    <3>3. CASE Complete(s)
      BY <3>3, <2>2, <1>0, <1>s DEF Complete, CommitCompleted, At, Working, Active
    <3>4. CASE MarkLock(s)
      BY <3>4, <2>2, <1>0, <1>s DEF MarkLock, At, Working, Active
    <3> QED BY <1>1, <3>1, <3>2, <3>3, <3>4
  <2> QED BY <2>1, <2>2
<1>2. ASSUME NEW s \in Executors, ClaimRefused(s) \/ RefuseFile(s) \/ MarkNothing(s) \/ MarkFailed(s)
             \/ Crash(s) \/ DbError(s) \/ LostCommit(s) \/ BadRow(s) \/ JobGone(s) \/ Refresh(s)
      PROVE  ex'[r] = ex[r]
  BY <1>2, <1>f, <1>r DEF ClaimRefused, RefuseFile, MarkNothing, MarkFailed, Crash, DbError, LostCommit,
     BadRow, JobGone, Refresh, CommitCompleted, At, Working
<1>3. ASSUME NEW s \in Executors, InsertBatch(s) \/ InsertRest(s)
      PROVE  ex'[r].job = JobOf(r) /\ ex'[r].loaded = ex[r].loaded /\ At(r, "importing")
  BY <1>3, <1>0, <1>s DEF InsertBatch, InsertRest, At, Working, Active, JobOf
<1>4. ASSUME NEW s \in Executors, Start(s)
      PROVE  ex'[r].job = JobOf(r) /\ (ex'[r] = ex[r] \/ Start(r))
  BY <1>4, <1>0, <1>s DEF Start, CommitRunning, At, Working, Active, JobOf
<1>5. CASE (\E p \in Patchers : PatchByHand(p) \/ PatchEnds(p)) \/ Delete \/ UNCHANGED vars
  <2>1. ex' = ex
    BY <1>5 DEF PatchByHand, PatchBegins, PatchEnds, Delete, vars, execVars
  <2> QED BY <2>1 DEF JobOf, At
<1>6. ex'[r] = ex[r] => ex'[r].job = JobOf(r) /\ At(r, "importing") /\ ex'[r].loaded = ex[r].loaded
  BY DEF JobOf, At
<1> QED BY <1>1, <1>2, <1>3, <1>4, <1>5, <1>6 DEF Writers, ExecStep, FaultStep

\* A job that an import holds is written by that import only.
LEMMA ImportOwnsRowKept ==
    ASSUME LifeInv, Writers, NEW r \in Executors PROVE ImportOwnsRow(r)'
<1> SUFFICES ASSUME ex'[r].pc = "importing"
             PROVE  ex'[r].loaded = StartRow /\ row'[ex'[r].job] = StartRow
  BY DEF ImportOwnsRow, At, JobOf
<1>0. EInv /\ TablesOK /\ ExOK(r) /\ ImportOwnsRow(r) /\ DOMAIN ex = Executors
      /\ row \in [Jobs -> JobRow]
  BY DEF LifeInv, RowsInv, EInv, TablesOK
<1> DEFINE j == JobOf(r)
<1>1. CASE Start(r)
  <2>1. CommitRunning(r) /\ ex'[r] = [ex[r] EXCEPT !.pc = "importing", !.loaded = RunningRow(ex[r].loaded)]
    BY <1>0, <1>1 DEF Start
  <2>2. ex[r] \in Active /\ ex'[r].loaded = RunningRow(ex[r].loaded) /\ ex'[r].job = j
    BY <1>0, <2>1, ActiveShape DEF CommitRunning, At, Working, Active, JobOf
  <2> QED BY <1>0, <2>1, <2>2, StartWrites DEF StartRow
<1>2. CASE ~Start(r)
  <2>1. /\ ex'[r].job = j /\ At(r, "importing") /\ ex'[r].loaded = StartRow /\ row[j] = StartRow
        /\ j \in Jobs /\ file[j] # NoFile /\ InImport(r, j)
    BY <1>0, <1>2, WhenImporting, ActiveShape DEF ImportOwnsRow, ExOK, At, Working, FileOf, InImport
  <2>2. ASSUME NEW s \in Executors, Start(s) \/ Complete(s) \/ LostCommit(s) \/ MarkFailed(s)
        PROVE  row'[j] = row[j]
    <3>1. JobOf(s) # j
      <4> SUFFICES ASSUME JobOf(s) = j PROVE FALSE
        OBVIOUS
      <4>1. InImport(s, j)
        BY <2>2 DEF InImport, Start, Complete, LostCommit, MarkFailed, CommitRunning, CommitCompleted, At
      <4>2. s = r
        BY <1>0, <2>1, <4>1 DEF EInv, SingleImporter
      <4>3. Complete(r) \/ (CommitCompleted(r) /\ Raise(r, FALSE))
        BY <1>2, <2>1, <2>2, <4>2 DEF Start, LostCommit, CommitRunning, MarkFailed, At
      <4>4. CASE Complete(r)
        <5>1. ex'[r].pc = "refreshing"
          BY <1>0, <2>1, <4>4, ActiveShape DEF Complete, At, Working, Active
        <5> QED BY <5>1
      <4>5. CASE Raise(r, FALSE)
        BY <1>0, <2>1, <4>5, RaiseLeaves DEF At, Working
      <4> QED BY <4>3, <4>4, <4>5
    <3>2. \/ row' = [row EXCEPT ![JobOf(s)] = StartRow]
          \/ row' = [row EXCEPT ![JobOf(s)] = CompletedRow(StartRow, FileOf(s).rows)]
          \/ row' = [row EXCEPT ![JobOf(s)] = FailedRow(StartRow)]
      BY <2>2, StartWrites, ImportWrites, FailureWrites DEF Start, Complete, LostCommit
    <3> QED BY <1>0, <2>1, <3>1, <3>2
  <2>3. ASSUME NEW p \in Patchers, PatchCommit(p) PROVE row'[j] = row[j]
    BY <1>0, <2>1, <2>3, HandWrites
  <2>4. row'[j] = row[j]
    BY <2>2, <2>3, WhoWrites
  <2> QED BY <2>1, <2>4
<1> QED BY <1>1, <1>2

\* The handler of a PATCH makes a permitted move.
LEMMA TransitionMoves ==
    ASSUME NEW old \in JobRow, NEW status \in Statuses, NEW message \in Messages,
           NEW processed \in Nat, NEW failed \in Nat,
           status \in Permitted(old.status), CountersAccepted(old, status, processed, failed)
    PROVE  HandMove(old, Transitioned(old, status, processed, failed, message))
<1> DEFINE new == Transitioned(old, status, processed, failed, message)
<1>1. /\ new.status = status /\ new.total = old.total /\ new.processed = processed /\ new.failed = failed
      /\ new.started = (old.started \/ status = "running") /\ new.completed = (status # "running")
      /\ new.error = IF status = "completed" THEN NoMessage
                     ELSE IF status = "failed" THEN message ELSE old.error
  BY DEF Transitioned, JobRow
<1>2. Lifecycle!CountersAdvance(old, new)
  BY <1>1 DEF CountersAccepted, Lifecycle!CountersAdvance, JobRow
<1>3. old.started \in BOOLEAN
  BY DEF JobRow
<1> SUFFICES HandMove(old, new)
  OBVIOUS
<1> HIDE DEF new
<1>4. CASE status = "running"
  BY <1>1, <1>2, <1>4 DEF Permitted, Terminal, HandMove, Lifecycle!Runs
<1>5. CASE status = "completed"
  BY <1>1, <1>2, <1>3, <1>5 DEF Permitted, Terminal, CountersAccepted, HandMove, Lifecycle!Completes, JobRow
<1>6. CASE status = "failed"
  BY <1>1, <1>2, <1>3, <1>6, MessagesAssumption DEF Permitted, Terminal, HandMove, Lifecycle!Fails
<1>7. CASE status = "cancelled"
  BY <1>1, <1>2, <1>3, <1>7 DEF Permitted, Terminal, HandMove, Lifecycle!Cancels
<1> QED BY <1>4, <1>5, <1>6, <1>7 DEF Permitted, Terminal

\* A PATCH in flight was so before, or begins.
LEMMA PatchesMove ==
    ASSUME LifeInv, Writers, NEW p \in Patchers, patch'[p].pc = "updating"
    PROVE  patch'[p] = patch[p] \/ PatchByHand(p)
<1>0. patch \in [Patchers -> {Idle} \cup Update]
  BY DEF LifeInv, RowsInv, EInv, TablesOK
<1>1. ASSUME NEW r \in Executors, (\E k \in Jobs : Request(r, k)) \/ ExecStep(r) \/ FaultStep(r)
      PROVE  patch' = patch
  BY <1>1 DEF Request, ExecStep, FaultStep, ClaimRefused, Claim, RefuseFile, Start, CommitRunning,
     InsertBatch, InsertRest, BadRow, JobGone, Complete, CommitCompleted, Refresh, MarkNothing,
     MarkLock, MarkFailed, DbError, LostCommit, Crash, jobVars
<1>2. ASSUME NEW q \in Patchers, PatchByHand(q) \/ PatchEnds(q)
      PROVE  patch'[p] = patch[p] \/ PatchByHand(p)
  <2>1. CASE PatchByHand(q)
    BY <1>0, <2>1 DEF PatchByHand, PatchBegins, PatchLoads, PatchLoad
  <2>2. CASE PatchEnds(q)
    BY <1>0, <2>2 DEF PatchEnds, PatchCommit, PatchRejected, Idle
  <2> QED BY <1>2, <2>1, <2>2
<1>3. CASE Delete \/ UNCHANGED vars
  BY <1>3 DEF Delete, DeleteDatasource, vars, jobVars
<1> QED BY <1>1, <1>2, <1>3 DEF Writers

\* A PATCH by hand stays alone with the job it read.
LEMMA HandOwnsRowKept ==
    ASSUME LifeInv, Writers, NEW p \in Patchers PROVE HandOwnsRow(p)'
<1> SUFFICES ASSUME patch'[p].pc = "updating" PROVE HandOwnsRow(p)'
  BY DEF HandOwnsRow
<1>0. /\ row \in [Jobs -> JobRow] /\ patch \in [Patchers -> {Idle} \cup Update] /\ file' = file
      /\ \A q \in Patchers : HandOwnsRow(q)
  BY WritersAreExec, JobsOnlyGo DEF LifeInv, RowsInv, EInv, TablesOK
<1>1. ASSUME NEW q \in Patchers, PatchByHand(q)
      PROVE  /\ row' = row /\ \A s \in Patchers : s # q => patch'[s] = patch[s]
             /\ file[patch'[q].job] = NoFile /\ patch'[q].old = row[patch'[q].job]
             /\ HandMove(patch'[q].old, patch'[q].new)
             /\ \A s \in Patchers \ {q} : patch[s].pc = "updating" => patch[s].job # patch'[q].job
  <2>1. PICK j \in Jobs, status \in Statuses, message \in Messages,
             processed \in 0..MaxTotal, failed \in 0..MaxTotal :
             PatchLoad(q, j, status, processed, failed, message)
    BY <1>1 DEF PatchByHand, PatchBegins, PatchLoads
  <2> DEFINE new == Transitioned(row[j], status, processed, failed, message)
             u   == [pc |-> "updating", job |-> j, old |-> row[j], new |-> new]
  <2>2. /\ status \in Permitted(row[j].status) /\ CountersAccepted(row[j], status, processed, failed)
        /\ patch' = [patch EXCEPT ![q] = u] /\ row' = row
    BY <2>1 DEF PatchLoad
  <2>3. row[j] \in JobRow /\ processed \in Nat /\ failed \in Nat
    BY <1>0, MaxTotalAssumption
  <2>4. HandMove(row[j], new)
    BY <2>2, <2>3, TransitionMoves
  <2> HIDE DEF new
  <2>5. patch'[q] = u /\ \A s \in Patchers : s # q => patch'[s] = patch[s]
    BY <1>0, <2>2
  <2> QED BY <1>1, <2>2, <2>4, <2>5 DEF PatchByHand
<1>2. CASE PatchByHand(p)
  BY <1>0, <1>1, <1>2 DEF HandOwnsRow
<1>3. CASE patch'[p] = patch[p]
  <2> DEFINE j == patch[p].job
  <2>1. /\ file[j] = NoFile /\ patch[p].pc = "updating" /\ patch[p].old = row[j]
        /\ HandMove(patch[p].old, patch[p].new) /\ j \in Jobs
    BY <1>0, <1>3 DEF HandOwnsRow, Update, Idle
  <2>2. row'[j] = row[j]
    <3>1. ASSUME NEW r \in Executors, Start(r) \/ Complete(r) \/ LostCommit(r) \/ MarkFailed(r)
          PROVE  row'[j] = row[j]
      <4>1. \/ row' = [row EXCEPT ![JobOf(r)] = StartRow]
            \/ row' = [row EXCEPT ![JobOf(r)] = CompletedRow(StartRow, FileOf(r).rows)]
            \/ row' = [row EXCEPT ![JobOf(r)] = FailedRow(StartRow)]
        BY <3>1, StartWrites, ImportWrites, FailureWrites DEF Start, Complete, LostCommit
      <4>2. FileOf(r) # NoFile
        BY <3>1, StartWrites, ImportWrites, FailureWrites DEF Start, Complete, LostCommit
      <4> QED BY <1>0, <2>1, <4>1, <4>2 DEF FileOf
    <3>2. ASSUME NEW q \in Patchers, PatchEnds(q), PatchCommit(q) PROVE row'[j] = row[j]
      <4>1. patch[q].pc = "updating" /\ patch'[q] = Idle
        BY <1>0, <3>2 DEF PatchCommit
      <4>2. patch[q].job # j
        BY <1>0, <1>3, <2>1, <4>1 DEF HandOwnsRow, Idle
      <4> QED BY <1>0, <2>1, <3>2, <4>2, HandWrites
    <3> QED BY <3>1, <3>2, WhoWrites
  <2>3. ASSUME NEW s \in Patchers, s # p, patch'[s].pc = "updating" PROVE patch'[s].job # j
    <3>1. CASE patch'[s] = patch[s]
      BY <1>0, <2>1, <2>3, <3>1 DEF HandOwnsRow
    <3>2. CASE PatchByHand(s)
      BY <1>1, <2>1, <2>3, <3>2
    <3> QED BY <2>3, <3>1, <3>2, PatchesMove
  <2> QED BY <1>0, <1>3, <2>1, <2>2, <2>3 DEF HandOwnsRow
<1> QED BY <1>2, <1>3, PatchesMove

\* The status a reader has found stays true, and so does the total.
LEMMA StatusKept == ASSUME LifeInv, Writers, UNCHANGED read, NEW q \in Readers PROVE StatusOK(q)'
<1>1. /\ ReadOK(q) /\ StatusOK(q) /\ file' = file /\ jobs' \subseteq jobs
  BY WritersAreExec, JobsOnlyGo DEF LifeInv, PageInv
<1>2. ASSUME NEW j \in Jobs, file[j] # NoFile, row[j].status = "completed"
      PROVE  row'[j] = row[j]
  <2>1. NewRow(0).status = "pending" /\ StartRow.status = "running"
    BY LifeRows, 0 \in Nat
  <2> QED BY <1>2, <2>1, RowSteps DEF JobRowStep
<1> QED BY <1>1, <1>2 DEF StatusOK, ReadOK

\* What a reader does to its own page keeps it true to the status it has read.
LEMMA StatusRead == ASSUME LifeInv, NEW p \in Readers, ReadStep(p), NEW q \in Readers PROVE StatusOK(q)'
<1>0. /\ ReadOK(q) /\ StatusOK(q) /\ DOMAIN read = Readers
      /\ file' = file /\ jobs' = jobs /\ row' = row
  BY DEF LifeInv, PageInv, ReadStep, ReadJob, ReadPage, ReadTotal, vars, jobVars, execVars
<1>1. CASE q # p
  <2>1. read'[q] = read[q]
    BY <1>0, <1>1 DEF ReadStep, ReadJob, ReadPage, ReadTotal
  <2> QED BY <1>0, <2>1 DEF StatusOK
<1>2. CASE q = p
  <2>1. ASSUME NEW j \in Jobs, NEW kind \in Kinds, NEW offset \in 0..MaxRows, ReadJob(q, j, kind, offset)
        PROVE  StatusOK(q)'
    BY <1>0, <2>1 DEF ReadJob, StatusOK
  <2>2. CASE ReadPage(q)
    <3>1. /\ read'[q].pc = "paged" /\ read'[q].job = read[q].job /\ read'[q].status = read[q].status
          /\ read[q].pc = "loaded"
      BY <1>0, <2>2 DEF ReadPage
    <3> QED BY <1>0, <3>1 DEF StatusOK
  <2>3. CASE ReadTotal(q)
    <3> DEFINE j == read[q].job
               n == Cardinality(RowsOf(read[q].kind, j))
    <3>1. /\ read'[q].pc = "answered" /\ read'[q].job = j /\ read'[q].status = read[q].status
          /\ read'[q].kind = read[q].kind /\ read'[q].total = n /\ read[q].pc = "paged"
          /\ j \in Jobs /\ read[q].kind \in Kinds
      BY <1>0, <2>3 DEF ReadTotal, ReadOK
    <3>2. JobLife(j) /\ (file[j] # NoFile => file[j].rows \in Nat)
      BY <3>1 DEF LifeInv, RowsInv, EInv, TablesOK, Files
    <3>3. ASSUME j \in jobs, read[q].status = "completed", file[j] # NoFile
          PROVE  n = IF read[q].kind = "records" THEN file[j].rows ELSE 0
      <4>1. row[j].status = "completed"
        BY <1>0, <3>1, <3>3 DEF StatusOK
      <4>2. records[j] = 1..file[j].rows /\ ~issues[j]
        BY <3>2, <3>3, <4>1 DEF JobLife
      <4> QED BY <3>1, <3>2, <3>3, <4>2, CardinalityUpTo, FS_EmptySet DEF RowsOf, Kinds
    <3>4. ASSUME read[q].kind = "issues", file[j] = NoFile PROVE n = 0
      BY <3>2, <3>4, FS_EmptySet DEF JobLife, RowsOf
    <3> HIDE DEF n
    <3> QED BY <1>0, <3>1, <3>3, <3>4 DEF StatusOK
  <2> QED BY <1>2, <2>1, <2>2, <2>3 DEF ReadStep
<1> QED BY <1>1, <1>2

\* Every step keeps all of it.
LEMMA LifeStep == LifeInv /\ [PageNext]_pageVars => LifeInv'
<1> SUFFICES ASSUME LifeInv, [PageNext]_pageVars PROVE LifeInv'
  OBVIOUS
<1>1. PageInv'
  BY PageStep DEF LifeInv
<1>2. Writers
  BY DEF PageNext, pageVars, Writers, ReadStep, ReadJob, ReadPage, ReadTotal
<1>3. RowsInv'
  BY <1>2, RowsKept, WritersAreExec DEF LifeInv
<1>4. (\A j \in Jobs : JobLife(j)') /\ (\A r \in Executors : ImportOwnsRow(r)')
      /\ (\A p \in Patchers : HandOwnsRow(p)')
  BY <1>2, JobLifeKept, ImportOwnsRowKept, HandOwnsRowKept
<1>5. UNCHANGED read \/ \E q \in Readers : ReadStep(q)
  BY DEF PageNext, pageVars
<1>6. \A q \in Readers : StatusOK(q)'
  BY <1>2, <1>5, StatusKept, StatusRead
<1> QED BY <1>1, <1>3, <1>4, <1>6 DEF LifeInv

\* Jobs are created pending.
LEMMA LifeInitial == PageInit => LifeInv
<1> SUFFICES ASSUME PageInit PROVE LifeInv
  OBVIOUS
<1>1. PageInv /\ RowsInv
  BY PageInitial, RowsInitial DEF PageInit
<1>2. ASSUME NEW j \in Jobs PROVE JobLife(j)
  <2>1. PICK n \in 0..MaxTotal : row[j] = NewRow(n)
    BY DEF PageInit, ExecInit
  <2>2. /\ records[j] = {} /\ ~issues[j] /\ NewRow(0).status = "pending"
        /\ file[j] # NoFile => n = 0
    BY <2>1, MaxTotalAssumption DEF PageInit, ExecInit, NewRow
  <2> QED BY <2>1, <2>2 DEF JobLife
<1>3. \A r \in Executors : ImportOwnsRow(r)
  BY DEF PageInit, ExecInit, Ready, ImportOwnsRow, At
<1>4. \A p \in Patchers : HandOwnsRow(p)
  BY DEF PageInit, ExecInit, Idle, HandOwnsRow
<1>5. \A q \in Readers : StatusOK(q)
  BY DEF PageInit, Unread, StatusOK
<1> QED BY <1>1, <1>2, <1>3, <1>4, <1>5 DEF LifeInv

\* The life of a job and what readers hold of it, in every state.
LEMMA LifeInvariance == PageSpec => []LifeInv
BY LifeInitial, LifeStep, PTL DEF PageSpec

\* The status of a prepared job tells whether its records are there, whatever
\* fails: the records and COMPLETED come in one commit, and a failure report
\* checks the status under the lock (csv_import_execution.py:95-114, 233-279).
THEOREM StatusTellsRecords == PageSpec => []CompletedIffImported
<1>1. LifeInv => CompletedIffImported
  BY DEF LifeInv, RowsInv, EInv, TablesOK, JobLife, CompletedIffImported
<1> QED BY <1>1, LifeInvariance, PTL

\* The status, the page and the total are three reads; what the first announces
\* the last confirms (services/imported_record.py,
\* services/import_validation_issue.py).
THEOREM StatusTrusted == PageSpec => []StatusAnnouncesRows
<1>1. LifeInv => StatusAnnouncesRows
  <2>1. ASSUME LifeInv, NEW q \in Readers PROVE StatusOK(q)
    BY <2>1 DEF LifeInv
  <2> QED BY <2>1 DEF StatusOK, StatusAnnouncesRows
<1> QED BY <1>1, LifeInvariance, PTL

\* A row that is written is written by a permitted move.
LEMMA LifecycleSteps ==
    LifeInv /\ [PageNext]_pageVars => [Lifecycle!Next]_<<jobs, row>>
<1> SUFFICES ASSUME LifeInv, [PageNext]_pageVars PROVE Lifecycle!Next
  OBVIOUS
<1>1. Writers
  BY DEF PageNext, pageVars, Writers, ReadStep, ReadJob, ReadPage, ReadTotal
<1>2. jobs' \subseteq jobs
  BY <1>1, WritersAreExec, JobsOnlyGo
<1>3. ASSUME NEW j \in Jobs, row'[j] # row[j] PROVE Lifecycle!Changes(j)
  <2>1. JobRowStep(j) /\ (file[j] # NoFile => file[j].rows \in Nat)
    BY <1>1, RowSteps DEF LifeInv, RowsInv, EInv, TablesOK, Files
  <2>2. j \in jobs \cap jobs'
    BY <1>3, <2>1 DEF JobRowStep
  <2>3. CASE file[j] # NoFile
    <3> DEFINE c == CompletedRow(StartRow, file[j].rows)
               f == FailedRow(StartRow)
    <3>1. Lifecycle!CountersAdvance(NewRow(0), StartRow) /\ Lifecycle!Runs(NewRow(0), StartRow)
      BY LifeRows, 0 \in Nat DEF Lifecycle!CountersAdvance, Lifecycle!Runs
    <3>2. Lifecycle!CountersAdvance(StartRow, c) /\ Lifecycle!Completes(StartRow, c)
      BY <2>1, <2>3, LifeRows DEF Lifecycle!CountersAdvance, Lifecycle!Completes
    <3>3. Lifecycle!CountersAdvance(StartRow, f) /\ Lifecycle!Fails(StartRow, f)
      BY LifeRows, 0 \in Nat, MessagesAssumption DEF Lifecycle!CountersAdvance, Lifecycle!Fails
    <3> HIDE DEF c, f
    <3>4. \/ row[j] = NewRow(0) /\ row'[j] = StartRow
          \/ row[j] = StartRow /\ row'[j] = c
          \/ row[j] = StartRow /\ row'[j] = f
      BY <1>3, <2>1, <2>3 DEF JobRowStep, c, f
    <3> QED BY <2>2, <3>1, <3>2, <3>3, <3>4 DEF Lifecycle!Changes
  <2>4. CASE file[j] = NoFile
    <3>1. HandMove(row[j], row'[j])
      BY <1>3, <2>1, <2>4 DEF JobRowStep
    <3> QED BY <2>2, <3>1 DEF HandMove, Lifecycle!Changes
  <2> QED BY <2>3, <2>4
<1> QED BY <1>2, <1>3 DEF Lifecycle!Next

\* Import jobs keep to their documented life cycle: execute requests, with all
\* their faults and deletions, and PATCHes on the jobs clients run themselves
\* implement JobLifecycle (csv_import_execution.py, services/import_job.py:70-149).
THEOREM RowsImplementLifecycle == PageSpec => ImplementsLifecycle
<1>1. PageInit => Lifecycle!Init
  <2> SUFFICES ASSUME PageInit PROVE Lifecycle!Init
    OBVIOUS
  <2>1. ASSUME NEW j \in Jobs
        PROVE  /\ row[j].status = "pending" /\ ~row[j].started /\ ~row[j].completed
               /\ row[j].processed = 0 /\ row[j].failed = 0 /\ row[j].error = NoMessage
    <3>1. PICK n \in 0..MaxTotal : row[j] = NewRow(n)
      BY DEF PageInit, ExecInit
    <3> QED BY <3>1 DEF NewRow
  <2> QED BY <2>1 DEF PageInit, ExecInit, Lifecycle!Init
<1> QED BY <1>1, LifecycleSteps, LifeInitial, LifeStep, PTL
        DEF PageSpec, ImplementsLifecycle, Lifecycle!Spec, Lifecycle!vars

===============================================================================
