----------------------------- MODULE JobLifecycle -----------------------------
(***************************************************************************)
(* What the row of an import job promises to its readers, as the code      *)
(* enforces it on an isolated request: the permitted transitions, the      *)
(* timestamps and the message each sets, and the rules of the counters.    *)
(* RecordPages implements it: imports that overlap and fail, and PATCHes   *)
(* of the jobs a client runs itself, one at a time for each job.           *)
(***************************************************************************)
EXTENDS Integers

CONSTANTS Jobs, NoMessage

VARIABLES
    jobs,        \* ids that have a row
    row          \* their columns

vars == <<jobs, row>>

Init ==
    /\ jobs = Jobs
    /\ \A j \in Jobs :
         /\ row[j].status = "pending"
         /\ ~row[j].started /\ ~row[j].completed
         /\ row[j].processed = 0 /\ row[j].failed = 0
         /\ row[j].error = NoMessage

\* Holds of every change: counters never go down and never exceed the total.
CountersAdvance(old, new) ==
    /\ new.total >= old.total
    /\ new.processed >= old.processed
    /\ new.failed >= old.failed
    /\ new.processed + new.failed <= new.total

Runs(old, new) ==
    /\ old.status = "pending" /\ new.status = "running"
    /\ new.started /\ ~new.completed
    /\ new.error = old.error

Completes(old, new) ==
    /\ old.status = "running" /\ new.status = "completed"
    /\ new.started = old.started /\ new.completed
    /\ new.error = NoMessage
    /\ new.processed + new.failed = new.total

Fails(old, new) ==
    /\ old.status = "running" /\ new.status = "failed"
    /\ new.started = old.started /\ new.completed
    /\ new.error # NoMessage

\* started_at stays empty when a pending job is cancelled and stays set when
\* a running one is.
Cancels(old, new) ==
    /\ old.status \in {"pending", "running"} /\ new.status = "cancelled"
    /\ new.started = old.started /\ new.completed
    /\ new.error = old.error

Changes(j) ==
    /\ j \in jobs \cap jobs'
    /\ CountersAdvance(row[j], row'[j])
    /\ \/ Runs(row[j], row'[j])
       \/ Completes(row[j], row'[j])
       \/ Fails(row[j], row'[j])
       \/ Cancels(row[j], row'[j])

Next ==
    /\ jobs' \subseteq jobs
    /\ \A j \in Jobs : row'[j] = row[j] \/ Changes(j)

Spec == Init /\ [][Next]_vars

===============================================================================
