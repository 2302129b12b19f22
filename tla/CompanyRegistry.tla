--------------------------- MODULE CompanyRegistry ---------------------------
(***************************************************************************)
(* CompanyService: POST, PATCH and DELETE of /companies.  create and       *)
(* update look a listing (exchange, ticker) up and write it one or more    *)
(* awaits later; update completes the halves its payload does not send     *)
(* from the copy it loaded, and its UPDATE sets the changed columns alone. *)
(* Between the look-up and the commit only the constraints of the table    *)
(* hold, and rows and keys of open transactions make other writes wait.    *)
(***************************************************************************)
EXTENDS FiniteSets

CONSTANTS
    Creators,      \* POST requests; the company a request inserts has its name
    Editors,       \* PATCH and DELETE requests
    Tenants,       \* values of the X-Organization-ID header
    Organizations, \* the tenants that have a row: no code deletes one
    Payloads,      \* what a POST sends, and so the rows it can make
    Patches,       \* the columns a PATCH sends (exclude_unset) and their values
    Null,
    Faults         \* "db_error", "lost_commit"

Columns == {"exchange", "ticker", "isin"}

Strings == UNION {{p[c] : c \in DOMAIN p} : p \in Payloads \cup Patches} \ {Null}

CompanyRow == {r \in [Columns -> Strings \cup {Null}] : r.exchange # Null /\ r.ticker # Null}

\* The fields that are set, with their values.
Sent == UNION {[S -> Strings \cup {Null}] : S \in SUBSET Columns}

\* No fields: what a DELETE sends, or a copy that is not there.
Nothing == [c \in {} |-> Null]

ASSUME RegistryAssumption ==
    /\ Creators \cap Editors = {}
    /\ Organizations \subseteq Tenants
    /\ Payloads \subseteq CompanyRow
    /\ Patches \subseteq Sent

VARIABLES
    companies,     \* ids of the committed rows
    columns,       \* columns[c]: the committed columns of company c
    req            \* req[r]: the progress of request r

vars == <<companies, columns, req>>

-------------------------------------------------------------------------------

\* Program counters, before each statement:
\*   checking    the SELECT of the listing       loading   the SELECT of the row
\*   writing     the INSERT, UPDATE or DELETE
\*   locked      an UPDATE that has locked its row and now enters the indexes
\*   written     flushed, not committed
\*   refreshing  committed
Asked == {"loading", "checking", "writing", "locked", "written", "refreshing"}

CompanyAnswers ==
    {"none", "not_found", "conflict", "server_error", "created", "updated", "deleted"}

Requests == Creators \cup Editors

Request == [pc : {"idle", "finished"} \cup Asked,
            op : {"none", "create", "update", "delete"},
            tenant : Tenants \cup {Null},
            target : Creators \cup {Null},
            sent : Sent,
            loaded : CompanyRow \cup {Nothing},
            answer : CompanyAnswers]

At(r, pc) == req[r].pc = pc

Goes(r, pc) == req' = [req EXCEPT ![r].pc = pc]

\* The session closes with the request: the copy it loaded is gone.
Answers(r, answer) ==
    req' = [req EXCEPT ![r].pc = "finished", ![r].answer = answer, ![r].loaded = Nothing]

\* The company a request writes; every id is a fresh uuid4.
Target(r) == IF r \in Creators THEN r ELSE req[r].target

Overlay(old, sent) == [c \in Columns |-> IF c \in DOMAIN sent THEN sent[c] ELSE old[c]]

\* setattr of the value that was loaded leaves the column out of the UPDATE.
Changed(sent, loaded) == {c \in DOMAIN sent : sent[c] # loaded[c]}

MutUpdated(old, sent, loaded) == Overlay(loaded, sent)

\* What the UPDATE of a request that loaded one version makes of another.
Updated(old, sent, loaded) == Overlay(old, [c \in Changed(sent, loaded) |-> sent[c]])

\* The version of the row that an INSERT or UPDATE makes.
NewColumns(r) ==
    IF r \in Creators THEN req[r].sent
    ELSE Updated(columns[Target(r)], req[r].sent, req[r].loaded)

SameListing(a, b) == a.exchange = b.exchange /\ a.ticker = b.ticker

TenantOf(c) == req[c].tenant

\* The unique constraints: a listing within its organization, an ISIN in the
\* whole table, where NULLs differ from each other.
SharesKey(tenantA, a, tenantB, b) ==
    \/ tenantA = tenantB /\ SameListing(a, b)
    \/ a.isin = b.isin /\ a.isin # Null

-------------------------------------------------------------------------------
(* What open transactions make others wait for (READ COMMITTED)              *)

RowLocked(c) ==
    /\ c \in companies
    /\ \E e \in Editors : Target(e) = c /\ req[e].pc \in {"locked", "written"}

\* The versions of rows that an open transaction r removes or adds.
OpenVersions(r) ==
    (IF r \in Editors /\ req[r].pc \in {"locked", "written"} /\ Target(r) \in companies
       THEN {columns[Target(r)]} ELSE {})
    \cup (IF At(r, "written") /\ req[r].op # "delete" THEN {NewColumns(r)} ELSE {})

WaitsFor(r, s) ==
    /\ s # r
    /\ \E v \in OpenVersions(s) :
         SharesKey(TenantOf(Target(r)), NewColumns(r), TenantOf(Target(s)), v)

KeyBusy(r) == \E s \in Requests : WaitsFor(r, s)

MutViolates(r, c) ==
    /\ c \in companies /\ c # Target(r)
    /\ TenantOf(Target(r)) = TenantOf(c) /\ SameListing(NewColumns(r), columns[c])

Violates(r, c) ==
    /\ c \in companies /\ c # Target(r)
    /\ SharesKey(TenantOf(Target(r)), NewColumns(r), TenantOf(c), columns[c])

\* UPDATEs that swap a key wait for each other's row; the server aborts one.
Deadlocked(r) ==
    \E cycle \in SUBSET Editors :
        /\ r \in cycle
        /\ \A e \in cycle : At(e, "locked") /\ \E s \in cycle : WaitsFor(e, s)

-------------------------------------------------------------------------------
(* POST /companies                                                           *)

\* get_by_exchange_and_ticker as another session sees it.
Listed(tenant, listing) ==
    {c \in companies : TenantOf(c) = tenant /\ SameListing(columns[c], listing)}

AskCreate(r, tenant, payload) ==
    /\ At(r, "idle")
    /\ req' = [req EXCEPT ![r].pc = "checking", ![r].tenant = tenant, ![r].sent = payload]
    /\ UNCHANGED <<companies, columns>>

CheckNewListing(r) ==
    /\ At(r, "checking") /\ r \in Creators
    /\ IF Listed(req[r].tenant, req[r].sent) # {} THEN Answers(r, "conflict") ELSE Goes(r, "writing")
    /\ UNCHANGED <<companies, columns>>

\* A violation found by the INSERT is an IntegrityError, which nothing catches.
Insert(r) ==
    /\ At(r, "writing") /\ r \in Creators
    /\ \/ /\ \/ req[r].tenant \notin Organizations
             \/ \E c \in companies : Violates(r, c) /\ ~RowLocked(c)
          /\ Answers(r, "server_error")
       \/ /\ req[r].tenant \in Organizations
          /\ ~KeyBusy(r)
          /\ \A c \in companies : ~Violates(r, c)
          /\ Goes(r, "written")
    /\ UNCHANGED <<companies, columns>>

-------------------------------------------------------------------------------
(* PATCH and DELETE /companies/{id}                                          *)

AskEdit(r, op, tenant, target, patch) ==
    /\ At(r, "idle")
    /\ req' = [req EXCEPT ![r].pc = "loading", ![r].op = op, ![r].tenant = tenant,
                          ![r].target = target, ![r].sent = patch]
    /\ UNCHANGED <<companies, columns>>

MutVisible(r) == Target(r) \in companies

Visible(r) == Target(r) \in companies /\ TenantOf(Target(r)) = req[r].tenant

SendsListing(r) == DOMAIN req[r].sent \cap {"exchange", "ticker"} # {}

\* The statement that follows get_by_id; a PATCH that sends nothing returns
\* the row it loaded.
Load(r) ==
    /\ At(r, "loading")
    /\ \/ ~Visible(r) /\ Answers(r, "not_found")
       \/ Visible(r) /\ req[r].op = "update" /\ DOMAIN req[r].sent = {} /\ Answers(r, "updated")
       \/ /\ Visible(r)
          /\ req[r].op = "delete" \/ DOMAIN req[r].sent # {}
          /\ req' = [req EXCEPT ![r].loaded = columns[Target(r)],
                       ![r].pc = IF req[r].op = "update" /\ SendsListing(r) THEN "checking"
                                 ELSE "writing"]
    /\ UNCHANGED <<companies, columns>>

\* A half that is not sent, or sent as null, is the one that was loaded.
CheckedListing(r) ==
    [c \in Columns |-> IF c \in DOMAIN req[r].sent /\ req[r].sent[c] # Null
                       THEN req[r].sent[c] ELSE req[r].loaded[c]]

CheckEditedListing(r) ==
    /\ At(r, "checking") /\ r \in Editors
    /\ IF Listed(req[r].tenant, CheckedListing(r)) \ {Target(r)} # {}
       THEN Answers(r, "conflict") ELSE Goes(r, "writing")
    /\ UNCHANGED <<companies, columns>>

MutUpdate(r) ==
    /\ At(r, "writing") /\ r \in Editors /\ req[r].op = "update"
    /\ ~RowLocked(Target(r)) /\ NewColumns(r) \in CompanyRow
    /\ Goes(r, IF Changed(req[r].sent, req[r].loaded) = {} THEN "refreshing" ELSE "locked")
    /\ UNCHANGED <<companies, columns>>

\* The UPDATE until it holds its row.  Nothing to set: no statement is sent.
\* No row: StaleDataError.  A null in a NOT NULL column: IntegrityError.
Update(r) ==
    /\ At(r, "writing") /\ r \in Editors /\ req[r].op = "update"
    /\ \/ Changed(req[r].sent, req[r].loaded) = {} /\ Goes(r, "refreshing")
       \/ /\ Changed(req[r].sent, req[r].loaded) # {}
          /\ ~RowLocked(Target(r))
          /\ IF Target(r) \in companies /\ NewColumns(r) \in CompanyRow THEN Goes(r, "locked")
             ELSE Answers(r, "server_error")
    /\ UNCHANGED <<companies, columns>>

\* As if locks of the application stood for the keys: nothing ends a cycle.
MutEnterIndexes(r) ==
    /\ At(r, "locked")
    /\ ~KeyBusy(r)
    /\ IF \E c \in companies : Violates(r, c) THEN Answers(r, "server_error") ELSE Goes(r, "written")
    /\ UNCHANGED <<companies, columns>>

EnterIndexes(r) ==
    /\ At(r, "locked")
    /\ \/ /\ \E c \in companies : Violates(r, c) /\ ~RowLocked(c)
          /\ Answers(r, "server_error")
       \/ Deadlocked(r) /\ Answers(r, "server_error")
       \/ /\ ~KeyBusy(r)
          /\ \A c \in companies : ~Violates(r, c)
          /\ Goes(r, "written")
    /\ UNCHANGED <<companies, columns>>

\* A DELETE that matches no row is a warning: the request goes on.
Delete(r) ==
    /\ At(r, "writing") /\ r \in Editors /\ req[r].op = "delete"
    /\ ~RowLocked(Target(r))
    /\ Goes(r, "written")
    /\ UNCHANGED <<companies, columns>>

-------------------------------------------------------------------------------
(* The end of a request                                                      *)

Applied(r) ==
    IF req[r].op = "delete" THEN companies' = companies \ {Target(r)} /\ UNCHANGED columns
    ELSE /\ companies' = companies \cup {Target(r)}
         /\ columns' = [columns EXCEPT ![Target(r)] = NewColumns(r)]

Commit(r) ==
    /\ At(r, "written")
    /\ Applied(r)
    /\ IF req[r].op = "delete" THEN Answers(r, "deleted") ELSE Goes(r, "refreshing")

\* refresh raises when the row is gone.
Refresh(r) ==
    /\ At(r, "refreshing")
    /\ Answers(r, IF Target(r) \notin companies THEN "server_error"
                  ELSE IF req[r].op = "create" THEN "created" ELSE "updated")
    /\ UNCHANGED <<companies, columns>>

\* A statement fails and the transaction is rolled back, or the answer to a
\* commit that took place is lost.
Fault(r) ==
    \/ /\ "db_error" \in Faults /\ req[r].pc \in Asked
       /\ Answers(r, "server_error") /\ UNCHANGED <<companies, columns>>
    \/ /\ "lost_commit" \in Faults /\ At(r, "written")
       /\ Answers(r, "server_error") /\ Applied(r)

-------------------------------------------------------------------------------

Idle(r) == [pc |-> "idle", op |-> IF r \in Creators THEN "create" ELSE "none",
            tenant |-> Null, target |-> Null, sent |-> Nothing, loaded |-> Nothing, answer |-> "none"]

Init ==
    /\ companies = {}
    /\ columns = [c \in Creators |-> Nothing]
    /\ req = [r \in Requests |-> Idle(r)]

Step(r) ==
    \/ Load(r) \/ CheckNewListing(r) \/ CheckEditedListing(r)
    \/ Insert(r) \/ Update(r) \/ EnterIndexes(r) \/ Delete(r)
    \/ Commit(r) \/ Refresh(r)

AllAnswered == (\A r \in Requests : At(r, "finished")) /\ UNCHANGED vars

\* A PATCH or DELETE whose header names no organization finds nothing, as one
\* with the header of another organization does: it is not enumerated.
Next ==
    \/ \E r \in Creators, tenant \in Tenants, p \in Payloads : AskCreate(r, tenant, p)
    \/ \E r \in Editors, tenant \in Organizations, target \in Creators :
         \/ AskEdit(r, "delete", tenant, target, Nothing)
         \/ \E p \in Patches : AskEdit(r, "update", tenant, target, p)
    \/ \E r \in Requests : Step(r) \/ Fault(r)
    \/ AllAnswered

Spec == Init /\ [][Next]_vars

-------------------------------------------------------------------------------
(* Properties                                                                *)

\* Every committed row satisfies the NOT NULL constraints, and a request has
\* loaded a copy of such a row.
RegistryTypeOK ==
    /\ companies \subseteq Creators
    /\ columns \in [Creators -> CompanyRow \cup {Nothing}]
    /\ \A c \in companies : columns[c] \in CompanyRow
    /\ req \in [Requests -> Request]

\* No interleaving of POSTs and PATCHes, whose look-ups of the listing may all
\* be stale when they write, leaves two companies of an organization with one
\* listing, or two companies with one ISIN.
UniqueCompanies ==
    \A c, d \in companies :
        c # d => /\ TenantOf(c) = TenantOf(d) => ~SameListing(columns[c], columns[d])
                 /\ columns[c].isin = columns[d].isin => columns[c].isin = Null

\* A PATCH that was answered 200 is not undone by a PATCH of other columns that
\* had loaded the row before: the column holds what some PATCH of it sent.
PatchesKept ==
    \A e \in Editors :
        At(e, "finished") /\ req[e].answer = "updated" /\ req[e].target \in companies =>
            \A c \in DOMAIN req[e].sent :
                \E d \in Editors :
                    /\ req[d].target = req[e].target /\ c \in DOMAIN req[d].sent
                    /\ columns[req[e].target][c] = req[d].sent[c]

\* A company whose deletion was answered 204 stays gone, whatever requests had
\* loaded it before and write it now.
DeletedIsGone ==
    \A e \in Editors :
        At(e, "finished") /\ req[e].answer = "deleted" => req[e].target \notin companies

\* Requests that wait for rows and keys of each other never all wait: unless all
\* are answered or not yet sent, one has a next step that is not a fault.  An
\* UPDATE holds its row while it waits for a key, so PATCHes that swap ISINs
\* would wait for each other for ever if the server did not abort one.
SomeRequestMoves ==
    (\E r \in Requests : req[r].pc \in Asked) => \E r \in Requests : ENABLED Step(r)

\* Only a request with the header of its organization changes or deletes a
\* company, and only that company.
TenantIsolation ==
    [][\A c \in companies :
         (c \notin companies' \/ columns'[c] # columns[c]) =>
             \E e \in Editors :
                 /\ At(e, "written") /\ req'[e].pc # "written"
                 /\ Target(e) = c /\ req[e].tenant = TenantOf(c)]_vars

===============================================================================
