------------------------------- MODULE Catalogue -------------------------------
(***************************************************************************)
(* Organizations, researches and datasources: POST of each, PATCH and      *)
(* DELETE of the last two (services/organization.py, research.py,          *)
(* datasource.py).                                                         *)
(*                                                                         *)
(* Every request looks up what it needs, writes and commits, and reads the *)
(* row again; another request may commit between any two of these.  What   *)
(* keeps the tree together are the unique slug, the foreign keys with      *)
(* their ON DELETE CASCADE, and the locks PostgreSQL takes for them.       *)
(***************************************************************************)
CONSTANTS
    Requests,     \* requests; an entry that is created has the id of its request
    Seeds,        \* ids of entries that are there from the start
    Initial,      \* those entries
    Slugs, Names, \* of organizations, and of researches and datasources
    Null,         \* an explicit null in a PATCH
    Absent        \* no row

VARIABLES
    row,          \* row[i]: the committed row with id i of its table, or Absent
    req           \* req[q]: the progress of request q

vars == <<row, req>>

Ids == Requests \cup Seeds

Values == Slugs \cup Names

Tree == INSTANCE ResourceTree WITH Ids <- Ids, Values <- Values, Absent <- Absent, row <- row

ASSUME CatalogueAssumption ==
    /\ Requests \cap Seeds = {}
    /\ Null \notin Values
    /\ Absent \notin Tree!Entry
    /\ Initial \in [Seeds -> Tree!Entry]

-------------------------------------------------------------------------------

Ops == {"organization", "research", "datasource", "patch", "delete"}

Creations == {"organization", "research", "datasource"}

Answers == {"none", "created", "patched", "deleted", "conflict", "not_found", "server_error"}

Request == [pc : {"idle", "begun", "checked", "open", "committed", "finished"}, op : Ops \cup {"none"},
            org : Ids, target : Ids, value : Values \cup {Null}, answer : Answers]

At(q, pc) == req[q].pc = pc

Goes(q, pc) == req' = [req EXCEPT ![q].pc = pc]

Answer(q, a) == req' = [req EXCEPT ![q].pc = "finished", ![q].answer = a]

Is(kind, i) == row[i] # Absent /\ row[i].kind = kind

MutBelongs(i, org) == Is("research", i) \/ Is("datasource", i)

\* The filters of ResearchRepository.get and DatasourceRepository.get.
Belongs(i, org) == (Is("research", i) \/ Is("datasource", i)) /\ row[i].org = org

\* The entry a creation inserts.
New(q) ==
    [kind |-> req[q].op, org |-> req[q].org, parent |-> req[q].target, value |-> req[q].value]

Open(q, op) == At(q, "open") /\ req[q].op = op

MutErased(i) == {i}

\* The rows a DELETE removes: the entry and, by ON DELETE CASCADE, the
\* datasources of a research.
Erased(i) == {i} \cup {k \in Ids : Is("datasource", k) /\ row[k].parent = i}

\* Rows an open DELETE has locked.
Locked(i) ==
    row[i] # Absent /\ \E d \in Requests : Open(d, "delete") /\ i \in Erased(req[d].target)

-------------------------------------------------------------------------------
(* Requests                                                                  *)

\* An organization is its own parent and a research hangs under the organization
\* of the header X-Organization-ID, which may be any id.  The ids of the other
\* requests are ids the client was told; any others are answered 404 at once.
Payloads(q) ==
    LET known == {i \in Ids : row[i] # Absent}
        orgs == {i \in Ids : Is("organization", i)}
    IN  [op : {"organization"}, org : {q}, target : {q}, value : Slugs]
        \cup {[op |-> "research", org |-> o, target |-> o, value |-> n] : o \in Ids, n \in Names}
        \cup [op : {"datasource"}, org : orgs, target : known, value : Names]
        \cup [op : {"patch"}, org : orgs, target : known, value : Names \cup {Null}]
        \cup [op : {"delete"}, org : orgs, target : known, value : {Null}]

Ask(q) ==
    /\ At(q, "idle")
    /\ \E asked \in Payloads(q) :
         req' = [req EXCEPT ![q] = [pc |-> IF asked.op = "research" THEN "checked" ELSE "begun",
                                    op |-> asked.op, org |-> asked.org, target |-> asked.target,
                                    value |-> asked.value, answer |-> "none"]]
    /\ UNCHANGED row

SlugFree(slug) == \A i \in Ids : Is("organization", i) => row[i].value # slug

\* get_by_slug.
LookUpSlug(q) ==
    /\ At(q, "begun") /\ req[q].op = "organization"
    /\ IF SlugFree(req[q].value) THEN Goes(q, "checked") ELSE Answer(q, "conflict")
    /\ UNCHANGED row

\* get(id, organization_id): of the research a datasource is created in, or of
\* the entry to change.  A PATCH of the value just loaded is no UPDATE at all.
LookUp(q) ==
    /\ At(q, "begun") /\ req[q].op \in {"datasource", "patch", "delete"}
    /\ IF /\ Belongs(req[q].target, req[q].org)
          /\ req[q].op = "datasource" => Is("research", req[q].target)
       THEN Goes(q, IF req[q].op = "patch" /\ row[req[q].target].value = req[q].value
                    THEN "committed" ELSE "checked")
       ELSE Answer(q, "not_found")
    /\ UNCHANGED row

\* An INSERT waits for an open one with its slug, and for the open DELETE of the
\* row its foreign key refers to.
InsertWaits(q) ==
    \/ /\ req[q].op = "organization"
       /\ \E p \in Requests : Open(p, "organization") /\ req[p].value = req[q].value
    \/ req[q].op = "datasource" /\ Locked(req[q].target)

\* The unique slug and the foreign keys; no handler maps an IntegrityError.
Admitted(q) ==
    CASE req[q].op = "organization" -> SlugFree(req[q].value)
      [] req[q].op = "research"     -> Is("organization", req[q].org)
      [] req[q].op = "datasource"   -> Is("research", req[q].target)

Insert(q) ==
    /\ At(q, "checked") /\ req[q].op \in Creations
    /\ ~InsertWaits(q)
    /\ IF Admitted(q) THEN Goes(q, "open") ELSE Answer(q, "server_error")
    /\ UNCHANGED row

\* The INSERT of a datasource holds FOR KEY SHARE on its research.
KeyShared(i) == \E p \in Requests : Open(p, "datasource") /\ req[p].target = i

\* A row that another request has deleted is matched by no DELETE, which is only
\* a warning.
Delete(q) ==
    /\ At(q, "checked") /\ req[q].op = "delete"
    /\ ~KeyShared(req[q].target)
    /\ \A i \in Erased(req[q].target) : ~Locked(i)
    /\ Goes(q, "open")
    /\ UNCHANGED row

\* UPDATE and COMMIT, both in session.commit.  A row that is gone is StaleDataError,
\* a null an IntegrityError: server errors.
Patch(q) ==
    /\ At(q, "checked") /\ req[q].op = "patch"
    /\ ~Locked(req[q].target)
    /\ IF row[req[q].target] # Absent /\ req[q].value # Null
       THEN Goes(q, "committed") /\ row' = [row EXCEPT ![req[q].target].value = req[q].value]
       ELSE Answer(q, "server_error") /\ UNCHANGED row

Applied(q) ==
    IF req[q].op = "delete"
    THEN [i \in Ids |-> IF i \in Erased(req[q].target) THEN Absent ELSE row[i]]
    ELSE [row EXCEPT ![q] = New(q)]

Commit(q) ==
    /\ At(q, "open")
    /\ row' = Applied(q)
    /\ IF req[q].op = "delete" THEN Answer(q, "deleted") ELSE Goes(q, "committed")

\* A row that has been deleted since cannot be refreshed.
Refresh(q) ==
    LET i == IF req[q].op = "patch" THEN req[q].target ELSE q IN
        /\ At(q, "committed")
        /\ Answer(q, IF row[i] = Absent THEN "server_error"
                     ELSE IF req[q].op = "patch" THEN "patched" ELSE "created")
        /\ UNCHANGED row

\* The connection fails; get_db_session rolls back what is open.
Fault(q) ==
    /\ req[q].pc \in {"checked", "open", "committed"}
    /\ Answer(q, "server_error")
    /\ UNCHANGED row

LostCommit(q) ==
    /\ At(q, "open")
    /\ row' = Applied(q)
    /\ Answer(q, "server_error")

-------------------------------------------------------------------------------

Idle(q) == [pc |-> "idle", op |-> "none", org |-> q, target |-> q, value |-> Null, answer |-> "none"]

Init ==
    /\ row = [i \in Ids |-> IF i \in Seeds THEN Initial[i] ELSE Absent]
    /\ Tree!WellFormed
    /\ req = [q \in Requests |-> Idle(q)]

Step(q) ==
    \/ Ask(q) \/ LookUpSlug(q) \/ LookUp(q) \/ Insert(q) \/ Delete(q) \/ Patch(q) \/ Commit(q) \/ Refresh(q)
    \/ Fault(q) \/ LostCommit(q)

Next == \E q \in Requests : Step(q)

Spec == Init /\ [][Next]_vars

-------------------------------------------------------------------------------
(* Properties                                                                *)

\* Whatever the look-ups missed, what is committed is a ResourceTree: every
\* commit adds an entry under a parent of its organization that is there, with a
\* free slug, or takes an entry away with all that is under it.
ImplementsTree == Tree!Spec

\* An entry whose deletion was answered is gone and so is everything that was
\* created under it, also by requests that had found it before.
DeletedMeansGone ==
    \A q \in Requests : req[q].answer = "deleted" =>
        \A i \in Ids : row[i] # Absent => i # req[q].target /\ row[i].parent # req[q].target

===============================================================================
