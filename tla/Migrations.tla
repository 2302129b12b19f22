------------------------------ MODULE Migrations ------------------------------
(***************************************************************************)
(* The seven revisions under alembic/versions and the way alembic/env.py   *)
(* runs them: an invocation takes the database from its version to any     *)
(* other, revision by revision, all in one transaction.                    *)
(*                                                                         *)
(* The schema is a set of objects, each with the objects it needs; that    *)
(* is what makes PostgreSQL refuse a statement.  Of the data only the      *)
(* companies and organizations matter to any statement.  The application   *)
(* goes on writing until a statement locks the table companies.            *)
(***************************************************************************)
EXTENDS Integers, Sequences, SequencesExt

CONSTANTS
    Companies,      \* ids of companies
    Organizations,  \* ids of organizations
    Bootstrap,      \* BOOTSTRAP_ORGANIZATION_ID
    Listings,       \* pairs of exchange and ticker
    Absent, NoOrg, NoRun

ASSUME MigrationsAssumption ==
    /\ Bootstrap \notin Organizations
    /\ NoOrg \notin Organizations \cup {Bootstrap}

VARIABLES
    version,        \* alembic_version, 0 for base
    db,             \* the committed [schema, orgs, companies]
    run,            \* the invocation that is under way, or NoRun
    outcome         \* how the last invocation ended

vars == <<version, db, run, outcome>>

Owners == Organizations \cup {Bootstrap}

-------------------------------------------------------------------------------
(* Statements                                                                *)

\* An object of the schema: of is the table it goes with.
Part(name, table, needs) == [name |-> name, of |-> table, needs |-> needs \cup {table}]

Create(objects) == [do |-> "create", objects |-> objects]

\* CREATE TABLE with the constraints and types it names.
Table(name, needs, parts) == Create({[name |-> name, of |-> name, needs |-> needs]} \cup parts)

\* postgresql.ENUM(...).create and .drop with checkfirst.
Type(name) == [do |-> "create_type", objects |-> {[name |-> name, of |-> name, needs |-> {}]}]

DropType(name) == [do |-> "drop_type", name |-> name]

Index(name, table) == Create({Part(name, table, {})})

Drop(name) == [do |-> "drop", name |-> name]

Execute(what) == [do |-> what]

-------------------------------------------------------------------------------
(* The revisions                                                             *)

MutUpgradeTenancy ==
    <<Type("membership_role"),
      Table("organizations", {}, {Part("uq_organizations_slug", "organizations", {})}),
      Table("users", {}, {Part("uq_users_email", "users", {})}),
      Table("memberships", {"organizations", "users", "membership_role"}, {}),
      Create({Part("organization_id", "companies", {})}),
      Execute("not_null"),
      Create({Part("fk_companies_organizations", "companies", {"organization_id", "organizations"})}),
      Drop("uq_companies_exchange"),
      Create({Part("uq_companies_organization_id", "companies", {"organization_id"})}),
      Index("ix_companies_organization_id", "companies")>>

UpgradeTenancy ==
    <<Type("membership_role"),
      Table("organizations", {}, {Part("uq_organizations_slug", "organizations", {})}),
      Table("users", {}, {Part("uq_users_email", "users", {})}),
      Table("memberships", {"organizations", "users", "membership_role"}, {}),
      Execute("insert_bootstrap"),
      Create({Part("organization_id", "companies", {})}),
      Execute("backfill"),
      Execute("not_null"),
      Create({Part("fk_companies_organizations", "companies", {"organization_id", "organizations"})}),
      Drop("uq_companies_exchange"),
      Create({Part("uq_companies_organization_id", "companies", {"organization_id"})}),
      Index("ix_companies_organization_id", "companies")>>

UpgradeResearch ==
    <<Type("research_status"), Type("datasource_type"), Type("datasource_status"), Type("import_job_status"),
      Table("researches", {"organizations", "research_status"}, {}),
      Index("ix_researches_organization_id", "researches"),
      Table("datasources", {"organizations", "researches", "datasource_type", "datasource_status"},
            {Part("uq_datasources_id_organization_id_research_id", "datasources", {})}),
      Index("ix_datasources_organization_id", "datasources"),
      Index("ix_datasources_research_id", "datasources"),
      Table("import_jobs", {"organizations", "researches", "import_job_status",
                            "uq_datasources_id_organization_id_research_id"}, {}),
      Index("ix_import_jobs_datasource_id", "import_jobs"),
      Index("ix_import_jobs_organization_id", "import_jobs"),
      Index("ix_import_jobs_research_id", "import_jobs"),
      Index("ix_import_jobs_status", "import_jobs"),
      Index("ix_import_jobs_organization_id_datasource_id", "import_jobs")>>

UpgradeFiles ==
    <<Type("uploaded_file_status"),
      Create({Part("uq_datasources_id_organization_id", "datasources", {})}),
      Table("uploaded_files", {"organizations", "uploaded_file_status", "uq_datasources_id_organization_id"}, {}),
      Index("ix_uploaded_files_organization_id", "uploaded_files"),
      Index("ix_uploaded_files_datasource_id", "uploaded_files")>>

UpgradeMapping ==
    <<Create({Part("uploaded_file_id", "import_jobs", {})}),
      Create({Part("configuration", "import_jobs", {})}),
      Create({Part("fk_import_jobs_uploaded_files", "import_jobs", {"uploaded_file_id", "uploaded_files"})}),
      Create({Part("ix_import_jobs_uploaded_file_id", "import_jobs", {"uploaded_file_id"})})>>

UpgradeRecords ==
    <<Table("imported_records", {"import_jobs"}, {}),
      Index("ix_imported_records_import_job_id", "imported_records"),
      Index("ix_imported_records_organization_datasource", "imported_records")>>

UpgradeCompanies ==
    <<Table("companies", {}, {Part("uq_companies_exchange", "companies", {}),
                              Part("uq_companies_isin", "companies", {})}),
      Index("ix_companies_name", "companies")>>

UpgradeIssues ==
    <<Table("import_validation_issues", {"import_jobs"}, {}),
      Index("ix_import_validation_issues_import_job_order", "import_validation_issues")>>

\* upgrade() of revisions 0001 to 0007.
Upgrade ==
    <<UpgradeCompanies, UpgradeTenancy, UpgradeResearch, UpgradeFiles, UpgradeMapping,
      UpgradeRecords, UpgradeIssues>>

DowngradeCompanies == <<Drop("ix_companies_name"), Drop("companies")>>

MutDowngradeTenancy ==
    <<Drop("ix_companies_organization_id"), Drop("uq_companies_organization_id"),
      Drop("fk_companies_organizations"), Drop("organization_id"),
      Drop("memberships"), Drop("users"), Drop("organizations"), DropType("membership_role")>>

DowngradeTenancy ==
    <<Drop("ix_companies_organization_id"), Drop("uq_companies_organization_id"),
      Create({Part("uq_companies_exchange", "companies", {})}),
      Drop("fk_companies_organizations"), Drop("organization_id"),
      Drop("memberships"), Drop("users"), Drop("organizations"), DropType("membership_role")>>

DowngradeResearch ==
    <<Drop("ix_import_jobs_organization_id_datasource_id"), Drop("ix_import_jobs_status"),
      Drop("ix_import_jobs_research_id"), Drop("ix_import_jobs_organization_id"),
      Drop("ix_import_jobs_datasource_id"), Drop("import_jobs"),
      Drop("ix_datasources_research_id"), Drop("ix_datasources_organization_id"), Drop("datasources"),
      Drop("ix_researches_organization_id"), Drop("researches"),
      DropType("import_job_status"), DropType("datasource_status"), DropType("datasource_type"),
      DropType("research_status")>>

DowngradeFiles ==
    <<Drop("ix_uploaded_files_datasource_id"), Drop("ix_uploaded_files_organization_id"),
      Drop("uploaded_files"), Drop("uq_datasources_id_organization_id"),
      DropType("uploaded_file_status")>>

DowngradeMapping ==
    <<Drop("ix_import_jobs_uploaded_file_id"), Drop("fk_import_jobs_uploaded_files"),
      Drop("configuration"), Drop("uploaded_file_id")>>

DowngradeRecords ==
    <<Drop("ix_imported_records_organization_datasource"), Drop("ix_imported_records_import_job_id"),
      Drop("imported_records")>>

DowngradeIssues ==
    <<Drop("ix_import_validation_issues_import_job_order"), Drop("import_validation_issues")>>

\* downgrade() of revisions 0001 to 0007.
Downgrade ==
    <<DowngradeCompanies, DowngradeTenancy, DowngradeResearch, DowngradeFiles, DowngradeMapping,
      DowngradeRecords, DowngradeIssues>>

-------------------------------------------------------------------------------
(* What a statement does to [schema, orgs, companies]                        *)

Names(schema) == {o.name : o \in schema}

Rows(d) == {c \in Companies : d.companies[c] # Absent}

\* The unique constraints on companies: by listing, and by owner and listing.
Admits(d, name) ==
    \A c, k \in Rows(d) :
        d.companies[c].listing = d.companies[k].listing =>
            \/ c = k
            \/ name = "uq_companies_organization_id" /\ d.companies[c].org # d.companies[k].org

\* Whether the rows satisfy the constraint of that name.
Satisfied(d, name) ==
    CASE name \in {"uq_companies_exchange", "uq_companies_organization_id"} -> Admits(d, name)
      [] name = "fk_companies_organizations" -> \A c \in Rows(d) : d.companies[c].org \in d.orgs
      [] OTHER -> TRUE

\* The objects a statement creates, and whether it drops one: a table goes with
\* its parts.
Made(s) == IF s.do \in {"create", "create_type"} THEN s.objects ELSE {}

Removes(s, o) == s.do \in {"drop", "drop_type"} /\ s.name \in {o.name, o.of}

SchemaAfter(schema, s) == {o \in schema \cup Made(s) : ~Removes(s, o)}

\* The companies of the given owners get another one.
Owned(d, owners, org) ==
    [c \in Companies |-> IF c \in Rows(d) /\ d.companies[c].org \in owners
                         THEN [d.companies[c] EXCEPT !.org = org] ELSE d.companies[c]]

\* Dropping a table drops its rows, and dropping the owner's column the owners.
After(d, s) ==
    [schema    |-> SchemaAfter(d.schema, s),
     orgs      |-> CASE s.do = "insert_bootstrap" -> d.orgs \cup {Bootstrap}
                     [] s.do = "drop" /\ s.name = "organizations" -> {}
                     [] OTHER -> d.orgs,
     companies |-> CASE s.do = "drop" /\ s.name = "companies" -> [c \in Companies |-> Absent]
                     [] s.do = "drop" /\ s.name = "organization_id" -> Owned(d, Owners, NoOrg)
                     [] s.do = "backfill" -> Owned(d, {NoOrg}, Bootstrap)
                     [] OTHER -> d.companies]

\* An object that exists, or needs what does not, cannot be created, nor a
\* constraint that the rows violate.
Creatable(d, objects) ==
    /\ Names(objects) \cap Names(d.schema) = {}
    /\ \A o \in objects : o.needs \subseteq Names(d.schema) \cup Names(objects)
    /\ \A name \in Names(objects) : Satisfied(d, name)

\* An object is dropped with its parts, unless something else needs it.
Droppable(d, name) ==
    /\ name \in Names(d.schema)
    /\ \A o \in d.schema : name \in o.needs => o.of = name

\* An INSERT or UPDATE needs its table and columns, and must leave rows that
\* satisfy the constraints there are.
Runs(d, s) ==
    CASE s.do = "create"    -> Creatable(d, s.objects)
      [] s.do = "drop"      -> Droppable(d, s.name)
      [] s.do = "drop_type" -> \A o \in d.schema : s.name \in o.needs => o.of = s.name
      [] s.do = "insert_bootstrap" -> "organizations" \in Names(d.schema)
      [] s.do = "backfill"  ->
           /\ "organization_id" \in Names(d.schema)
           /\ \A name \in Names(d.schema) : Satisfied(After(d, s), name)
      [] s.do = "not_null"  ->
           /\ "organization_id" \in Names(d.schema)
           /\ \A c \in Rows(d) : d.companies[c].org # NoOrg
      [] OTHER              -> TRUE

\* ALTER TABLE, CREATE INDEX and DROP INDEX on companies wait for open writes and
\* keep new ones out until the transaction ends.
LocksCompanies(d, s) ==
    \/ s.do = "create" /\ \E o \in s.objects : o.of = "companies"
    \/ s.do = "drop" /\ \E o \in d.schema : o.name = s.name /\ o.of = "companies"

-------------------------------------------------------------------------------
(* What the variables hold                                                   *)

Statements == UNION {Range(Upgrade[k]) \cup Range(Downgrade[k]) : k \in 1..7}

Company == [org : Owners \cup {NoOrg}, listing : Listings]

Databases ==
    [schema    : SUBSET UNION {Made(s) : s \in Statements},
     orgs      : SUBSET Owners,
     companies : [Companies -> {Absent} \cup Company]]

\* The version to reach, the one the present revision leads to, what is left of
\* that revision, and what the transaction has made of the database.
Invocations == [to : 0..7, at : 0..7, todo : Seq(Statements), work : Databases, locked : BOOLEAN]

ASSUME ValuesApart == Absent \notin Company /\ NoRun \notin Invocations

-------------------------------------------------------------------------------
(* Steps                                                                     *)

\* alembic upgrade or downgrade to any version.
Invoke(to) ==
    /\ run = NoRun /\ to # version
    /\ run' = [to |-> to, at |-> version, todo |-> <<>>, work |-> db, locked |-> FALSE]
    /\ UNCHANGED <<version, db, outcome>>

\* The next revision on the way; run.at is the version it leads to.
NextUpgrade ==
    /\ run # NoRun /\ run.todo = <<>> /\ run.at < run.to
    /\ run' = [run EXCEPT !.at = @ + 1, !.todo = Upgrade[run.at + 1]]
    /\ UNCHANGED <<version, db, outcome>>

NextDowngrade ==
    /\ run # NoRun /\ run.todo = <<>> /\ run.at > run.to
    /\ run' = [run EXCEPT !.at = @ - 1, !.todo = Downgrade[run.at]]
    /\ UNCHANGED <<version, db, outcome>>

Statement ==
    /\ run # NoRun /\ run.todo # <<>>
    /\ Runs(run.work, Head(run.todo))
    /\ run' = [run EXCEPT !.todo = Tail(@), !.work = After(@, Head(run.todo)),
                          !.locked = @ \/ LocksCompanies(run.work, Head(run.todo))]
    /\ UNCHANGED <<version, db, outcome>>

Commit ==
    /\ run # NoRun /\ run.todo = <<>> /\ run.at = run.to
    /\ version' = run.to /\ db' = run.work
    /\ run' = NoRun /\ outcome' = "done"

RolledBack(why) ==
    /\ run' = NoRun /\ outcome' = why
    /\ UNCHANGED <<version, db>>

Fails ==
    /\ run # NoRun /\ run.todo # <<>>
    /\ ~Runs(run.work, Head(run.todo))
    /\ RolledBack("failed")

\* The process or its connection dies.
Dies == run # NoRun /\ RolledBack("died")

-------------------------------------------------------------------------------
(* The application                                                           *)

Writable == run # NoRun => ~run.locked

\* New organizations and companies; new maps the ids of companies to their rows.
Inserted(d, orgs, new) ==
    [d EXCEPT !.orgs = @ \cup orgs,
              !.companies = [c \in Companies |-> IF c \in DOMAIN new THEN new[c] ELSE d.companies[c]]]

\* What is committed is seen by the next statement of the migration.
Writes(orgs, new) ==
    /\ Writable
    /\ db' = Inserted(db, orgs, new)
    /\ run' = IF run = NoRun THEN NoRun ELSE [run EXCEPT !.work = Inserted(@, orgs, new)]
    /\ UNCHANGED <<version, outcome>>

AddOrganization(o) == version >= 2 /\ Writes({o}, <<>>)

\* Before revision 0002 companies have no owner.
AddCompany(c, org, listing) ==
    LET company == [org |-> org, listing |-> listing] IN
        /\ version >= 1 /\ db.companies[c] = Absent
        /\ IF version >= 2 THEN org \in db.orgs ELSE org = NoOrg
        /\ \A k \in Rows(db) : db.companies[k] # company
        /\ Writes({}, [k \in {c} |-> company])

-------------------------------------------------------------------------------

Empty == [schema |-> {}, orgs |-> {}, companies |-> [c \in Companies |-> Absent]]

Init ==
    /\ version = 0
    /\ db = Empty
    /\ run = NoRun /\ outcome = "none"

Next ==
    \/ \E to \in 0..7 : Invoke(to)
    \/ NextUpgrade \/ NextDowngrade
    \/ Statement \/ Commit \/ Fails \/ Dies
    \/ \E o \in Organizations : AddOrganization(o)
    \/ \E c \in Companies, org \in Owners \cup {NoOrg}, l \in Listings : AddCompany(c, org, l)

Spec == Init /\ [][Next]_vars

-------------------------------------------------------------------------------
(* Properties                                                                *)

\* The schema of a database that was only ever upgraded: what the revisions up to
\* v make and none of them drops.
Built(v) ==
    LET statements == UNION {Range(Upgrade[k]) : k \in 1..v}
    IN  {o \in UNION {Made(s) : s \in statements} : \A s \in statements : ~Removes(s, o)}

\* Whatever upgrades, downgrades and failures came before, the schema is the one
\* the version stands for: every downgrade takes back what its upgrade did.  From
\* 0002 on every company has an owner that exists, and no owner has a listing twice.
DatabaseFollowsVersion ==
    /\ db.schema = Built(version)
    /\ version >= 2 =>
         /\ \A c \in Rows(db) : db.companies[c].org \in db.orgs
         /\ Admits(db, "uq_companies_organization_id")
    /\ version = 1 => Admits(db, "uq_companies_exchange")

SharedListing ==
    \E c, k \in Rows(db) : c # k /\ db.companies[c].listing = db.companies[k].listing

\* An invocation that runs to its end keeps every company, gives those without an
\* owner to the bootstrap organization and changes no other owner.  Only one is
\* refused: the way back past 0002 when two organizations share a listing.
KeepsOrRefuses ==
    [][run # NoRun /\ run' = NoRun =>
        /\ outcome' = "failed" => version >= 2 /\ run.to < 2 /\ SharedListing
        /\ outcome' = "done" /\ run.to >= 1 =>
             \A c \in Companies :
                db'.companies[c] =
                    IF db.companies[c] = Absent THEN Absent
                    ELSE [org |-> IF run.to = 1 THEN NoOrg
                                  ELSE IF version = 1 THEN Bootstrap ELSE db.companies[c].org,
                          listing |-> db.companies[c].listing]]_vars

===============================================================================
