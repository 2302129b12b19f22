-------------------------- MODULE ImportJobs_proofs --------------------------
(***************************************************************************)
(* What no interleaving of PATCHes can break, for any number of jobs, of   *)
(* PATCHes in flight and any counters.  The handler's checks are stale by  *)
(* the time it writes, so the argument cannot rest on them: it rests on    *)
(* which columns an UPDATE is certain to write (PatchInFlight).            *)
(***************************************************************************)
EXTENDS ImportJobs, TLAPS

\* What is known of a PATCH between its SELECT and its UPDATE, whatever the
\* row has become: the status changes, the stamps are those of the new status,
\* and a job seen running still has its started_at.
PatchInFlight(p) ==
    patch[p].pc = "updating" =>
        /\ patch[p] \in Update
        /\ patch[p].new.status # patch[p].old.status
        /\ patch[p].new.status # "pending"
        /\ patch[p].new.started = (patch[p].old.started \/ patch[p].new.status = "running")
        /\ patch[p].new.completed = (patch[p].new.status # "running")
        /\ patch[p].new.status = "running" \/ patch[p].new.status = "cancelled"
             \/ row[patch[p].job].started

IInv ==
    /\ TypeOK
    /\ \A p \in Patchers : PatchInFlight(p)
    /\ CountersWithinTotal
    /\ StartedOnceRun
    /\ TerminalHasCompletedAt

-------------------------------------------------------------------------------

\* A merged row is a row, whichever columns the UPDATE writes.
LEMMA MergeType ==
    ASSUME NEW current \in JobRow, NEW new \in JobRow, NEW dirty
    PROVE  Merge(current, new, dirty) \in JobRow
BY DEF Merge, JobRow

\* Types are preserved by the handler's assignments.
LEMMA TransitionedType ==
    ASSUME NEW old \in JobRow, NEW status \in Statuses, NEW processed \in Nat,
           NEW failed \in Nat, NEW message \in Messages
    PROVE  /\ Transitioned(old, status, processed, failed, message) \in JobRow
           /\ Transitioned(old, status, processed, failed, message).status = status
           /\ Transitioned(old, status, processed, failed, message).started
                = (old.started \/ status = "running")
           /\ Transitioned(old, status, processed, failed, message).completed
                = (status # "running")
BY DEF Transitioned, JobRow, Errors

\* A permitted transition leaves the status it starts from, never for pending,
\* and completes or fails only what runs.
LEMMA PermittedMoves ==
    ASSUME NEW old, NEW status \in Permitted(old)
    PROVE  /\ status # old /\ status # "pending" /\ status \in Statuses
           /\ status = "running" \/ status = "cancelled" \/ old = "running"
BY DEF Permitted, Terminal, Statuses

\* What the UPDATE of a PATCH in flight leaves behind.
LEMMA PatchedRowFacts ==
    ASSUME TypeOK, NEW p \in Patchers, PatchInFlight(p), patch[p].pc = "updating"
    PROVE  /\ patch[p] \in Update
           /\ PatchedRow(p) \in JobRow
           /\ PatchedRow(p).status = patch[p].new.status
           /\ row[patch[p].job].started => PatchedRow(p).started
           /\ PatchedRow(p).status = "running" => PatchedRow(p).started
           /\ PatchedRow(p).status # "running" => PatchedRow(p).completed
<1> DEFINE u == patch[p]
           d == Dirty(u.old, u.new, Stamped(u.new.status))
<1>1. /\ u \in Update /\ u.job \in Jobs /\ u.old \in JobRow /\ u.new \in JobRow
      /\ row[u.job] \in JobRow
  BY DEF PatchInFlight, TypeOK, Update
<1>2. PatchedRow(p) = Merge(row[u.job], u.new, d)
  BY DEF PatchedRow
<1>3. PatchedRow(p) \in JobRow
  BY <1>1, <1>2, MergeType
<1>4. "status" \in d
  BY DEF PatchInFlight, Dirty, Columns
<1>5. "started" \in d => u.new.started
  <2> SUFFICES ASSUME "started" \in d PROVE u.new.started
    OBVIOUS
  <2>1. u.old.started \in BOOLEAN
    BY <1>1 DEF JobRow
  <2>2. u.new.started # u.old.started \/ u.new.status = "running"
    BY DEF Dirty, Stamped
  <2> QED
    BY <2>1, <2>2 DEF PatchInFlight
<1>6. u.new.status = "running" => "started" \in d
  BY DEF Dirty, Stamped
<1>7. u.new.status # "running" => "completed" \in d /\ u.new.completed
  BY DEF Dirty, Stamped, PatchInFlight
<1> QED
  BY <1>1, <1>2, <1>3, <1>4, <1>5, <1>6, <1>7 DEF Merge

-------------------------------------------------------------------------------

\* A created job is pending and has counted nothing.
LEMMA NewRowFacts ==
    ASSUME NEW n \in Nat
    PROVE  /\ NewRow(n) \in JobRow /\ NewRow(n).status = "pending"
           /\ NewRow(n).processed = 0 /\ NewRow(n).failed = 0 /\ NewRow(n).total \in Nat
           /\ ~NewRow(n).started
BY DEF NewRow, JobRow, Statuses, Errors

\* The invariant holds of created jobs.
LEMMA InitEstablishes == Init => IInv
<1> SUFFICES ASSUME Init PROVE IInv
  OBVIOUS
<1>1. ASSUME NEW j \in Jobs
      PROVE  /\ row[j] \in JobRow /\ row[j].status = "pending"
             /\ row[j].processed = 0 /\ row[j].failed = 0 /\ row[j].total \in Nat
  <2>1. PICK n \in 0..MaxTotal : row[j] = NewRow(n)
    BY DEF Init
  <2>2. n \in Nat
    BY MaxTotalAssumption
  <2> QED
    BY <2>1, <2>2, NewRowFacts
<1>2. \A p \in Patchers : patch[p] = Idle /\ patch[p].pc # "updating"
  BY DEF Init, Idle
<1>3. row \in [Jobs -> JobRow] /\ patch \in [Patchers -> {Idle} \cup Update] /\ jobs \subseteq Jobs
  BY <1>1, <1>2 DEF Init
<1> QED
  BY <1>1, <1>2, <1>3
  DEF IInv, TypeOK, PatchInFlight, CountersWithinTotal, StartedOnceRun,
      TerminalHasCompletedAt, Terminal

\* A step that leaves the rows of the remaining jobs and the PATCHes alone.
LEMMA QuietStep ==
    ASSUME IInv, row' = row, patch' = patch, jobs' \subseteq jobs
    PROVE  IInv'
BY DEF IInv, TypeOK, PatchInFlight, CountersWithinTotal, StartedOnceRun,
       TerminalHasCompletedAt

\* A PATCH that passed the checks changes the status of a row that was there.
LEMMA LoadPreserves ==
    ASSUME IInv, NEW p \in Patchers, PatchLoads(p)
    PROVE  IInv'
<1>1. PICK j \in Jobs, status \in Statuses, message \in Messages,
           processed \in 0..MaxTotal, failed \in 0..MaxTotal :
           PatchLoad(p, j, status, processed, failed, message)
  BY DEF PatchLoads
<1> DEFINE new == Transitioned(row[j], status, processed, failed, message)
           u   == [pc |-> "updating", job |-> j, old |-> row[j], new |-> new]
<1>2. /\ j \in jobs /\ status \in Permitted(row[j].status)
      /\ row' = row /\ jobs' = jobs /\ patch' = [patch EXCEPT ![p] = u]
  BY <1>1 DEF PatchLoad
<1>3. processed \in Nat /\ failed \in Nat
  BY MaxTotalAssumption
<1>4. row[j] \in JobRow /\ row \in [Jobs -> JobRow] /\ jobs \subseteq Jobs
      /\ patch \in [Patchers -> {Idle} \cup Update]
  BY DEF IInv, TypeOK
<1>5. /\ new \in JobRow /\ new.status = status
      /\ new.started = (row[j].started \/ status = "running")
      /\ new.completed = (status # "running")
  BY <1>3, <1>4, TransitionedType
<1>6. /\ status # row[j].status /\ status # "pending"
      /\ status = "running" \/ status = "cancelled" \/ row[j].status = "running"
  BY <1>2, PermittedMoves
<1>7. row[j].status = "running" => row[j].started
  BY <1>2 DEF IInv, StartedOnceRun
<1>8. u \in Update
  BY <1>4, <1>5 DEF Update
<1>9. patch' \in [Patchers -> {Idle} \cup Update]
  BY <1>2, <1>4, <1>8
<1>10. \A q \in Patchers : patch'[q] = IF q = p THEN u ELSE patch[q]
  BY <1>2, <1>4
<1>11. TypeOK'
  <2>1. ASSUME NEW q \in Patchers, patch'[q].pc = "updating"
        PROVE  patch'[q].new.status \in Permitted(patch'[q].old.status) \ {"pending"}
    <3>1. CASE q = p
      BY <3>1, <1>2, <1>5, <1>6, <1>10
    <3>2. CASE q # p
      BY <2>1, <3>2, <1>10 DEF IInv, TypeOK
    <3> QED
      BY <3>1, <3>2
  <2> QED
    BY <2>1, <1>2, <1>4, <1>9 DEF TypeOK
<1>12. ASSUME NEW q \in Patchers PROVE PatchInFlight(q)'
  <2>1. CASE q = p
    BY <2>1, <1>2, <1>5, <1>6, <1>7, <1>8, <1>10 DEF PatchInFlight
  <2>2. CASE q # p
    BY <2>2, <1>2, <1>10 DEF IInv, PatchInFlight
  <2> QED
    BY <2>1, <2>2
<1>13. (CountersWithinTotal /\ StartedOnceRun /\ TerminalHasCompletedAt)'
  BY <1>2 DEF IInv, CountersWithinTotal, StartedOnceRun, TerminalHasCompletedAt
<1> QED
  BY <1>11, <1>12, <1>13 DEF IInv

\* Ending a PATCH forgets it.
LEMMA IdleType ==
    ASSUME TypeOK, NEW p \in Patchers, patch' = [patch EXCEPT ![p] = Idle]
    PROVE  /\ patch' \in [Patchers -> {Idle} \cup Update]
           /\ \A q \in Patchers : patch'[q].pc = "updating" => q # p /\ patch'[q] = patch[q]
BY DEF TypeOK, Idle

\* The UPDATE of a stale PATCH leaves a row as the invariant wants it.
LEMMA CommitPreserves ==
    ASSUME IInv, NEW p \in Patchers, PatchCommit(p)
    PROVE  IInv'
<1> DEFINE j == patch[p].job
           r == PatchedRow(p)
<1>1. /\ patch[p].pc = "updating" /\ j \in jobs /\ jobs' = jobs
      /\ row' = [row EXCEPT ![j] = r] /\ patch' = [patch EXCEPT ![p] = Idle]
      /\ r.processed + r.failed <= r.total
  BY DEF PatchCommit, SatisfiesCheck
<1>2. TypeOK /\ PatchInFlight(p) /\ jobs \subseteq Jobs /\ row \in [Jobs -> JobRow] /\ j \in Jobs
  BY <1>1 DEF IInv, TypeOK
<1>3. /\ patch[p] \in Update /\ r \in JobRow
      /\ r.status = patch[p].new.status
      /\ row[j].started => r.started
      /\ r.status = "running" => r.started
      /\ r.status # "running" => r.completed
  BY <1>1, <1>2, PatchedRowFacts
<1>4. \A k \in Jobs : row'[k] = IF k = j THEN r ELSE row[k]
  BY <1>1, <1>2
<1>5. row' \in [Jobs -> JobRow]
  BY <1>1, <1>2, <1>3
<1>6. /\ patch' \in [Patchers -> {Idle} \cup Update]
      /\ \A q \in Patchers : patch'[q].pc = "updating" => q # p /\ patch'[q] = patch[q]
  BY <1>1, <1>2, IdleType
<1>7. TypeOK'
  BY <1>1, <1>2, <1>5, <1>6 DEF TypeOK
<1>8. \A k \in Jobs : row[k].started => row'[k].started
  BY <1>3, <1>4
<1>9. ASSUME NEW q \in Patchers, patch'[q].pc = "updating"
      PROVE  PatchInFlight(q)'
  <2>1. q # p /\ patch'[q] = patch[q] /\ PatchInFlight(q)
    BY <1>6, <1>9 DEF IInv
  <2>2. patch[q] \in Update /\ patch[q].job \in Jobs
    BY <2>1, <1>9 DEF PatchInFlight, Update
  <2> QED
    BY <2>1, <2>2, <1>8 DEF PatchInFlight
<1>10. r.status \in {"completed", "failed"} => r.started
  BY <1>1, <1>2, <1>3 DEF PatchInFlight
<1>11. StartedOnceRun'
  BY <1>1, <1>3, <1>4, <1>10 DEF IInv, StartedOnceRun, TypeOK
<1>12. TerminalHasCompletedAt'
  BY <1>1, <1>3, <1>4 DEF IInv, TerminalHasCompletedAt, TypeOK, Terminal
<1>13. CountersWithinTotal'
  BY <1>1, <1>4 DEF IInv, CountersWithinTotal, TypeOK
<1> QED
  BY <1>7, <1>9, <1>11, <1>12, <1>13 DEF IInv, PatchInFlight

\* A refused UPDATE changes no row.
LEMMA RejectPreserves ==
    ASSUME IInv, NEW p \in Patchers, PatchRejected(p)
    PROVE  IInv'
<1>1. row' = row /\ jobs' = jobs /\ patch' = [patch EXCEPT ![p] = Idle]
  BY DEF PatchRejected
<1>2. TypeOK
  BY DEF IInv
<1>3. /\ patch' \in [Patchers -> {Idle} \cup Update]
      /\ \A q \in Patchers : patch'[q].pc = "updating" => q # p /\ patch'[q] = patch[q]
  BY <1>1, <1>2, IdleType
<1> QED
  BY <1>1, <1>3
  DEF IInv, TypeOK, PatchInFlight, CountersWithinTotal, StartedOnceRun, TerminalHasCompletedAt

\* The invariant is inductive.
LEMMA NextPreserves == IInv /\ [Next]_jobVars => IInv'
<1> SUFFICES ASSUME IInv, [Next]_jobVars PROVE IInv'
  OBVIOUS
<1>1. ASSUME NEW p \in Patchers, PatchLoads(p) PROVE IInv'
  BY <1>1, LoadPreserves
<1>2. ASSUME NEW p \in Patchers, PatchCommit(p) PROVE IInv'
  BY <1>2, CommitPreserves
<1>3. ASSUME NEW p \in Patchers, PatchRejected(p) PROVE IInv'
  BY <1>3, RejectPreserves
<1>4. CASE DeleteDatasource
  BY <1>4, QuietStep DEF DeleteDatasource
<1>5. CASE UNCHANGED jobVars
  BY <1>5, QuietStep DEF jobVars
<1> QED
  BY <1>1, <1>2, <1>3, <1>4, <1>5 DEF Next

-------------------------------------------------------------------------------

\* The inductive invariant holds in every reachable state.
THEOREM Invariance == Spec => []IInv
BY InitEstablishes, NextPreserves, PTL DEF Spec

\* Types, for any number of jobs and PATCHes.
THEOREM TypeCorrect == Spec => []TypeOK
<1>1. IInv => TypeOK
  BY DEF IInv
<1> QED
  BY <1>1, Invariance, PTL

\* The counters of the table never exceed the total, however stale the checks
\* of the PATCHes were (import_job.py:114-122, models/import_job.py:52-54).
THEOREM CountersSafe == Spec => []CountersWithinTotal
<1>1. IInv => CountersWithinTotal
  BY DEF IInv
<1> QED
  BY <1>1, Invariance, PTL

\* No timestamp that the status asks for is missing under any interleaving of
\* partial UPDATEs (import_job.py:126-136).
THEOREM TimestampsSafe == Spec => []TimestampsFollowStatus
<1>1. IInv => TimestampsFollowStatus
  BY DEF IInv, TimestampsFollowStatus
<1> QED
  BY <1>1, Invariance, PTL

===============================================================================
