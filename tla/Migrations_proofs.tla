--------------------------- MODULE Migrations_proofs ---------------------------
(***************************************************************************)
(* Proofs about the revisions: whatever upgrades, downgrades, failures and *)
(* writes of the application came before, the schema is the one its        *)
(* version stands for and the rows satisfy the constraints it has; what an *)
(* invocation commits keeps the companies, and one thing alone refuses it. *)
(*                                                                         *)
(* The first part reads off the scripts what the first theorem needs of    *)
(* them: which names a revision brings in and which its downgrade takes    *)
(* out.  The second theorem needs more: that each statement finds in the   *)
(* schema what it asks for, and what the rows have become by then.         *)
(***************************************************************************)
EXTENDS Migrations, TLAPS

-------------------------------------------------------------------------------
(* The names each revision brings in                                         *)

NewCompanies == {"companies", "uq_companies_exchange", "uq_companies_isin", "ix_companies_name"}

NewTenancy ==
    {"membership_role", "organizations", "uq_organizations_slug", "users", "uq_users_email", "memberships",
     "organization_id", "fk_companies_organizations", "uq_companies_organization_id",
     "ix_companies_organization_id"}

NewResearch ==
    {"research_status", "datasource_type", "datasource_status", "import_job_status",
     "researches", "ix_researches_organization_id",
     "datasources", "uq_datasources_id_organization_id_research_id", "ix_datasources_organization_id",
     "ix_datasources_research_id",
     "import_jobs", "ix_import_jobs_datasource_id", "ix_import_jobs_organization_id",
     "ix_import_jobs_research_id", "ix_import_jobs_status", "ix_import_jobs_organization_id_datasource_id"}

NewFiles ==
    {"uploaded_file_status", "uq_datasources_id_organization_id", "uploaded_files",
     "ix_uploaded_files_organization_id", "ix_uploaded_files_datasource_id"}

NewMapping ==
    {"uploaded_file_id", "configuration", "fk_import_jobs_uploaded_files", "ix_import_jobs_uploaded_file_id"}

NewRecords ==
    {"imported_records", "ix_imported_records_import_job_id", "ix_imported_records_organization_datasource"}

NewIssues == {"import_validation_issues", "ix_import_validation_issues_import_job_order"}

New == <<NewCompanies, NewTenancy, NewResearch, NewFiles, NewMapping, NewRecords, NewIssues>>

\* The names known once revision k has run, and those its downgrade drops.
Known(k) == UNION {New[m] : m \in 1..k}

Taken(k) ==
    {name \in New[k] : \E j \in DOMAIN Downgrade[k] : Downgrade[k][j] \in {Drop(name), DropType(name)}}

\* The objects of the table companies, by name.
CompanyParts ==
    {"companies", "uq_companies_exchange", "uq_companies_isin", "ix_companies_name", "organization_id",
     "fk_companies_organizations", "uq_companies_organization_id", "ix_companies_organization_id"}

WellNamed(o) ==
    /\ o.of = "companies" <=> o.name \in CompanyParts
    /\ o.of # "uq_companies_exchange"
    /\ o.name \in {"fk_companies_organizations", "uq_companies_organization_id"} => "organization_id" \in o.needs
    /\ o.name = "fk_companies_organizations" => "organizations" \in o.needs

\* An object of revision k, which its downgrade drops, with its table if not alone.
PartOf(o, k) ==
    /\ WellNamed(o)
    /\ o.name \in New[k] /\ o.of \in Known(k)
    /\ o.name \in Taken(k) \/ o.of \in Taken(k)

MadeBy(s, k) ==
    /\ s.do \in {"create", "create_type"}
    /\ \A o \in s.objects : PartOf(o, k)
    /\ s.do = "create_type" => \A o \in s.objects : o.name \notin CompanyParts

DroppedBy(s, k) ==
    \E name \in New[k] :
        \/ s = Drop(name)
        \/ s = DropType(name) /\ name \notin CompanyParts

\* The one constraint that is dropped on the way up, and made again on the way down.
Exchange == Part("uq_companies_exchange", "companies", {})

-------------------------------------------------------------------------------
(* What the scripts say                                                      *)

LEMMA NewAre ==
    /\ New[1] = NewCompanies /\ New[2] = NewTenancy /\ New[3] = NewResearch /\ New[4] = NewFiles
    /\ New[5] = NewMapping /\ New[6] = NewRecords /\ New[7] = NewIssues
BY DEF New

LEMMA ScriptsAre ==
    /\ Upgrade[1] = UpgradeCompanies /\ Upgrade[2] = UpgradeTenancy /\ Upgrade[3] = UpgradeResearch
    /\ Upgrade[4] = UpgradeFiles /\ Upgrade[5] = UpgradeMapping /\ Upgrade[6] = UpgradeRecords
    /\ Upgrade[7] = UpgradeIssues
    /\ Downgrade[1] = DowngradeCompanies /\ Downgrade[2] = DowngradeTenancy /\ Downgrade[3] = DowngradeResearch
    /\ Downgrade[4] = DowngradeFiles /\ Downgrade[5] = DowngradeMapping /\ Downgrade[6] = DowngradeRecords
    /\ Downgrade[7] = DowngradeIssues
BY DEF Upgrade, Downgrade

\* No two revisions bring in the same name, and after 0002 none touches companies.
LEMMA NewOnce == \A k \in 1..7, m \in 1..7 : m < k => New[m] \cap New[k] = {}
<1>1. New[1] \cap New[2] = {}
  BY NewAre DEF NewCompanies, NewTenancy
<1>2. (New[1] \cup New[2]) \cap New[3] = {}
  BY NewAre DEF NewCompanies, NewTenancy, NewResearch
<1>3. (New[1] \cup New[2] \cup New[3]) \cap New[4] = {}
  BY NewAre DEF NewCompanies, NewTenancy, NewResearch, NewFiles
<1>4. (New[1] \cup New[2] \cup New[3] \cup New[4]) \cap New[5] = {}
  BY NewAre DEF NewCompanies, NewTenancy, NewResearch, NewFiles, NewMapping
<1>5. (New[1] \cup New[2] \cup New[3] \cup New[4] \cup New[5]) \cap New[6] = {}
  BY NewAre DEF NewCompanies, NewTenancy, NewResearch, NewFiles, NewMapping, NewRecords
<1>6. (New[1] \cup New[2] \cup New[3] \cup New[4] \cup New[5] \cup New[6]) \cap New[7] = {}
  BY NewAre DEF NewCompanies, NewTenancy, NewResearch, NewFiles, NewMapping, NewRecords, NewIssues
<1> QED
  BY <1>1, <1>2, <1>3, <1>4, <1>5, <1>6

LEMMA CompanyPartsAre == CompanyParts \subseteq New[1] \cup New[2]
BY NewAre DEF CompanyParts, NewCompanies, NewTenancy

LEMMA KnownGrows == \A k \in 1..7 : New[k] \subseteq Known(k)
BY DEF Known

\* So what revision k drops was there before it only if it is its own.
LEMMA KnownElsewhere == \A k \in 1..7 : Known(k - 1) \cap New[k] = {}
BY NewOnce DEF Known

\* The objects of a revision that are not of companies.
LEMMA PartMade ==
    ASSUME NEW k \in 1..7, NEW name \in New[k], name \notin CompanyParts,
           NEW table \in Known(k), table \notin CompanyParts, NEW needs,
           name \in Taken(k) \/ table \in Taken(k)
    PROVE  PartOf(Part(name, table, needs), k)
BY DEF PartOf, Part, WellNamed, CompanyParts

LEMMA CreateMade ==
    ASSUME NEW k \in 1..7, NEW objects, \A o \in objects : PartOf(o, k)
    PROVE  MadeBy(Create(objects), k)
BY DEF MadeBy, Create

LEMMA TableMade ==
    ASSUME NEW k \in 1..7, NEW name \in Taken(k), name \notin CompanyParts, NEW needs,
           NEW parts, \A o \in parts : PartOf(o, k)
    PROVE  MadeBy(Table(name, needs, parts), k)
<1>1. PartOf([name |-> name, of |-> name, needs |-> needs], k)
  BY KnownGrows DEF PartOf, WellNamed, CompanyParts, Taken
<1> QED
  BY <1>1, CreateMade DEF Table

LEMMA IndexMade ==
    ASSUME NEW k \in 1..7, NEW name \in Taken(k), name \notin CompanyParts,
           NEW table \in Known(k), table \notin CompanyParts
    PROVE  MadeBy(Index(name, table), k)
<1>1. PartOf(Part(name, table, {}), k)
  BY PartMade DEF Taken
<1> QED
  BY <1>1, CreateMade DEF Index

LEMMA TypeMade ==
    ASSUME NEW k \in 1..7, NEW name \in Taken(k), name \notin CompanyParts
    PROVE  MadeBy(Type(name), k)
BY KnownGrows DEF MadeBy, PartOf, Type, WellNamed, CompanyParts, Taken

\* What the downgrades drop, all but what goes with a table they drop.
LEMMA TakenAre ==
    /\ New[1] \ {"uq_companies_exchange", "uq_companies_isin"} \subseteq Taken(1)
    /\ New[2] \ {"uq_organizations_slug", "uq_users_email"} \subseteq Taken(2)
    /\ New[3] \ {"uq_datasources_id_organization_id_research_id"} \subseteq Taken(3)
    /\ \A k \in 4..7 : New[k] \subseteq Taken(k)
<1>1. New[1] \ {"uq_companies_exchange", "uq_companies_isin"} \subseteq Taken(1)
  BY NewAre, ScriptsAre DEF Taken, NewCompanies, DowngradeCompanies
<1>2. New[2] \ {"uq_organizations_slug", "uq_users_email"} \subseteq Taken(2)
  BY NewAre, ScriptsAre DEF Taken, NewTenancy, DowngradeTenancy
<1>3. New[3] \ {"uq_datasources_id_organization_id_research_id"} \subseteq Taken(3)
  BY NewAre, ScriptsAre DEF Taken, NewResearch, DowngradeResearch
<1>4. New[4] \subseteq Taken(4)
  BY NewAre, ScriptsAre DEF Taken, NewFiles, DowngradeFiles
<1>5. New[5] \subseteq Taken(5)
  BY NewAre, ScriptsAre DEF Taken, NewMapping, DowngradeMapping
<1>6. New[6] \subseteq Taken(6)
  BY NewAre, ScriptsAre DEF Taken, NewRecords, DowngradeRecords
<1>7. New[7] \subseteq Taken(7)
  BY NewAre, ScriptsAre DEF Taken, NewIssues, DowngradeIssues
<1> QED
  BY <1>1, <1>2, <1>3, <1>4, <1>5, <1>6, <1>7

\* A downgrade only drops what its upgrade made, but for the constraint on listings.
LEMMA DowngradesDrop ==
    \A k \in 1..7 : \A i \in DOMAIN Downgrade[k] :
        DroppedBy(Downgrade[k][i], k) \/ (k = 2 /\ i = 3)
<1>1. \A i \in DOMAIN Downgrade[1] : DroppedBy(Downgrade[1][i], 1)
  BY NewAre, ScriptsAre DEF DroppedBy, NewCompanies, DowngradeCompanies
<1>2. \A i \in DOMAIN Downgrade[2] : DroppedBy(Downgrade[2][i], 2) \/ i = 3
  BY NewAre, ScriptsAre DEF DroppedBy, NewTenancy, DowngradeTenancy, CompanyParts
<1>3. \A i \in DOMAIN Downgrade[3] : DroppedBy(Downgrade[3][i], 3)
  BY NewAre, ScriptsAre DEF DroppedBy, NewResearch, DowngradeResearch, CompanyParts
<1>4. \A i \in DOMAIN Downgrade[4] : DroppedBy(Downgrade[4][i], 4)
  BY NewAre, ScriptsAre DEF DroppedBy, NewFiles, DowngradeFiles, CompanyParts
<1>5. \A i \in DOMAIN Downgrade[5] : DroppedBy(Downgrade[5][i], 5)
  BY NewAre, ScriptsAre DEF DroppedBy, NewMapping, DowngradeMapping
<1>6. \A i \in DOMAIN Downgrade[6] : DroppedBy(Downgrade[6][i], 6)
  BY NewAre, ScriptsAre DEF DroppedBy, NewRecords, DowngradeRecords
<1>7. \A i \in DOMAIN Downgrade[7] : DroppedBy(Downgrade[7][i], 7)
  BY NewAre, ScriptsAre DEF DroppedBy, NewIssues, DowngradeIssues
<1> QED
  BY <1>1, <1>2, <1>3, <1>4, <1>5, <1>6, <1>7

LEMMA ListingsAgain == 3 \in DOMAIN Downgrade[2] /\ Downgrade[2][3] = Create({Exchange})
BY ScriptsAre DEF DowngradeTenancy, Exchange

LEMMA Elsewhere == \A k \in 3..7 : New[k] \cap CompanyParts = {}
BY NewOnce, CompanyPartsAre

LEMMA CompaniesMade == \A i \in DOMAIN Upgrade[1] : MadeBy(Upgrade[1][i], 1)
<1>1. DOMAIN Upgrade[1] = 1..2
  BY ScriptsAre DEF UpgradeCompanies
<1> DEFINE table == [name |-> "companies", of |-> "companies", needs |-> {}]
<1>2. /\ Upgrade[1][1] = Create({table, Exchange, Part("uq_companies_isin", "companies", {})})
      /\ Upgrade[1][2] = Create({Part("ix_companies_name", "companies", {})})
  BY ScriptsAre DEF UpgradeCompanies, Table, Index, Create, Exchange
<1>3. "companies" \in Known(1) /\ "companies" \in Taken(1)
  BY KnownGrows, TakenAre, NewAre DEF NewCompanies
<1>4. PartOf(table, 1)
  BY <1>3, NewAre DEF PartOf, WellNamed, CompanyParts, NewCompanies
<1>5. \A name \in {"uq_companies_exchange", "uq_companies_isin", "ix_companies_name"} :
          PartOf(Part(name, "companies", {}), 1)
  BY <1>3, NewAre DEF PartOf, Part, WellNamed, CompanyParts, NewCompanies
<1> HIDE DEF table
<1>6. MadeBy(Upgrade[1][1], 1)
  BY <1>2, <1>4, <1>5, CreateMade DEF Exchange
<1>7. MadeBy(Upgrade[1][2], 1)
  BY <1>2, <1>5, CreateMade
<1> QED
  BY <1>1, <1>6, <1>7

LEMMA ResearchMade == \A i \in DOMAIN Upgrade[3] : MadeBy(Upgrade[3][i], 3)
<1>1. DOMAIN Upgrade[3] = 1..15
  BY ScriptsAre DEF UpgradeResearch
<1>2. \A i \in 1..4 : \E name \in Taken(3) : Upgrade[3][i] = Type(name)
  BY ScriptsAre, TakenAre, NewAre DEF UpgradeResearch, NewResearch
<1>3. \A i \in {6, 8, 9} \cup 11..15 :
          \E name \in Taken(3), table \in {"researches", "datasources", "import_jobs"} :
              Upgrade[3][i] = Index(name, table)
  BY ScriptsAre, TakenAre, NewAre DEF UpgradeResearch, NewResearch
<1>4. /\ Upgrade[3][5] = Table("researches", {"organizations", "research_status"}, {})
      /\ Upgrade[3][7] = Table("datasources",
                               {"organizations", "researches", "datasource_type", "datasource_status"},
                               {Part("uq_datasources_id_organization_id_research_id", "datasources", {})})
      /\ Upgrade[3][10] = Table("import_jobs", {"organizations", "researches", "import_job_status",
                                                "uq_datasources_id_organization_id_research_id"}, {})
  BY ScriptsAre DEF UpgradeResearch
<1>5. {"researches", "datasources", "import_jobs"} \subseteq Taken(3) \cap Known(3)
  BY KnownGrows, TakenAre, NewAre DEF NewResearch
<1>6. Taken(3) \cap CompanyParts = {}
  BY Elsewhere DEF Taken
<1>7. PartOf(Part("uq_datasources_id_organization_id_research_id", "datasources", {}), 3)
  BY <1>5, Elsewhere, PartMade, NewAre DEF NewResearch
<1>8. \A i \in 1..4 : MadeBy(Upgrade[3][i], 3)
  BY <1>2, <1>6, TypeMade
<1>9. \A i \in {6, 8, 9} \cup 11..15 : MadeBy(Upgrade[3][i], 3)
  BY <1>3, <1>5, <1>6, IndexMade
<1>10. MadeBy(Upgrade[3][5], 3) /\ MadeBy(Upgrade[3][7], 3) /\ MadeBy(Upgrade[3][10], 3)
  BY <1>4, <1>5, <1>6, <1>7, TableMade
<1> QED
  BY <1>1, <1>8, <1>9, <1>10

LEMMA FilesMade == \A i \in DOMAIN Upgrade[4] : MadeBy(Upgrade[4][i], 4)
<1>1. DOMAIN Upgrade[4] = 1..5
  BY ScriptsAre DEF UpgradeFiles
<1>2. /\ Upgrade[4][1] = Type("uploaded_file_status")
      /\ Upgrade[4][2] = Create({Part("uq_datasources_id_organization_id", "datasources", {})})
      /\ Upgrade[4][3] = Table("uploaded_files", {"organizations", "uploaded_file_status",
                                                  "uq_datasources_id_organization_id"}, {})
      /\ Upgrade[4][4] = Index("ix_uploaded_files_organization_id", "uploaded_files")
      /\ Upgrade[4][5] = Index("ix_uploaded_files_datasource_id", "uploaded_files")
  BY ScriptsAre DEF UpgradeFiles
<1>3. New[4] \subseteq Taken(4) /\ New[4] \cap CompanyParts = {}
  BY TakenAre, Elsewhere
<1>4. /\ {"datasources", "uploaded_files"} \subseteq Known(4)
      /\ "datasources" \notin CompanyParts
  BY NewAre DEF Known, NewResearch, NewFiles, CompanyParts
<1>5. PartOf(Part("uq_datasources_id_organization_id", "datasources", {}), 4)
  BY <1>3, <1>4, PartMade, NewAre DEF NewFiles
<1> QED
  BY <1>1, <1>2, <1>3, <1>4, <1>5, TypeMade, CreateMade, TableMade, IndexMade, NewAre DEF NewFiles

LEMMA MappingMade == \A i \in DOMAIN Upgrade[5] : MadeBy(Upgrade[5][i], 5)
<1>1. DOMAIN Upgrade[5] = 1..4
  BY ScriptsAre DEF UpgradeMapping
<1>2. /\ Upgrade[5][1] = Create({Part("uploaded_file_id", "import_jobs", {})})
      /\ Upgrade[5][2] = Create({Part("configuration", "import_jobs", {})})
      /\ Upgrade[5][3] = Create({Part("fk_import_jobs_uploaded_files", "import_jobs",
                                      {"uploaded_file_id", "uploaded_files"})})
      /\ Upgrade[5][4] = Create({Part("ix_import_jobs_uploaded_file_id", "import_jobs", {"uploaded_file_id"})})
  BY ScriptsAre DEF UpgradeMapping
<1>3. New[5] \subseteq Taken(5) /\ New[5] \cap CompanyParts = {}
  BY TakenAre, Elsewhere
<1>4. "import_jobs" \in Known(5) /\ "import_jobs" \notin CompanyParts
  BY NewAre DEF Known, NewResearch, CompanyParts
<1>5. \A name \in New[5] : \A needs : PartOf(Part(name, "import_jobs", needs), 5)
  BY <1>3, <1>4, PartMade
<1>6. {"uploaded_file_id", "configuration", "fk_import_jobs_uploaded_files",
       "ix_import_jobs_uploaded_file_id"} \subseteq New[5]
  BY NewAre DEF NewMapping
<1> QED
  BY <1>1, <1>2, <1>5, <1>6, CreateMade

LEMMA RecordsMade == \A i \in DOMAIN Upgrade[6] : MadeBy(Upgrade[6][i], 6)
<1>1. DOMAIN Upgrade[6] = 1..3
  BY ScriptsAre DEF UpgradeRecords
<1>2. /\ Upgrade[6][1] = Table("imported_records", {"import_jobs"}, {})
      /\ Upgrade[6][2] = Index("ix_imported_records_import_job_id", "imported_records")
      /\ Upgrade[6][3] = Index("ix_imported_records_organization_datasource", "imported_records")
  BY ScriptsAre DEF UpgradeRecords
<1>3. New[6] \subseteq Taken(6) /\ New[6] \subseteq Known(6) /\ New[6] \cap CompanyParts = {}
  BY TakenAre, Elsewhere, KnownGrows
<1> QED
  BY <1>1, <1>2, <1>3, TableMade, IndexMade, NewAre DEF NewRecords

LEMMA IssuesMade == \A i \in DOMAIN Upgrade[7] : MadeBy(Upgrade[7][i], 7)
<1>1. DOMAIN Upgrade[7] = 1..2
  BY ScriptsAre DEF UpgradeIssues
<1>2. /\ Upgrade[7][1] = Table("import_validation_issues", {"import_jobs"}, {})
      /\ Upgrade[7][2] = Index("ix_import_validation_issues_import_job_order", "import_validation_issues")
  BY ScriptsAre DEF UpgradeIssues
<1>3. New[7] \subseteq Taken(7) /\ New[7] \subseteq Known(7) /\ New[7] \cap CompanyParts = {}
  BY TakenAre, Elsewhere, KnownGrows
<1> QED
  BY <1>1, <1>2, <1>3, TableMade, IndexMade, NewAre DEF NewIssues

\* Revision 0002 also moves rows, and drops the constraint on listings.
LEMMA TenancyMade ==
    /\ 10 \in DOMAIN Upgrade[2] /\ Upgrade[2][10] = Drop("uq_companies_exchange")
    /\ \A i \in DOMAIN Upgrade[2] \ {10} :
           \/ MadeBy(Upgrade[2][i], 2)
           \/ Upgrade[2][i].do \in {"insert_bootstrap", "backfill", "not_null"}
<1>1. DOMAIN UpgradeTenancy = 1..12
  BY DEF UpgradeTenancy
<1>2. /\ UpgradeTenancy[1] = Type("membership_role")
      /\ UpgradeTenancy[2] = Table("organizations", {}, {Part("uq_organizations_slug", "organizations", {})})
      /\ UpgradeTenancy[3] = Table("users", {}, {Part("uq_users_email", "users", {})})
      /\ UpgradeTenancy[4] = Table("memberships", {"organizations", "users", "membership_role"}, {})
  BY DEF UpgradeTenancy
<1>3. /\ UpgradeTenancy[6] = Create({Part("organization_id", "companies", {})})
      /\ UpgradeTenancy[9] = Create({Part("fk_companies_organizations", "companies",
                                      {"organization_id", "organizations"})})
      /\ UpgradeTenancy[11] = Create({Part("uq_companies_organization_id", "companies", {"organization_id"})})
      /\ UpgradeTenancy[12] = Create({Part("ix_companies_organization_id", "companies", {})})
  BY DEF UpgradeTenancy, Index
<1>4. \A i \in {5, 7, 8} : UpgradeTenancy[i].do \in {"insert_bootstrap", "backfill", "not_null"}
  BY DEF UpgradeTenancy, Execute
<1>5. UpgradeTenancy[10] = Drop("uq_companies_exchange")
  BY DEF UpgradeTenancy
<1>6. /\ {"membership_role", "organizations", "users", "memberships"} \subseteq Taken(2) \cap Known(2)
      /\ {"organization_id", "fk_companies_organizations", "uq_companies_organization_id",
          "ix_companies_organization_id"} \subseteq Taken(2)
      /\ "companies" \in Known(2)
  BY KnownGrows, TakenAre, NewAre DEF NewCompanies, NewTenancy, Known
<1>7. /\ PartOf(Part("uq_organizations_slug", "organizations", {}), 2)
      /\ PartOf(Part("uq_users_email", "users", {}), 2)
  BY <1>6, PartMade, NewAre DEF NewTenancy, CompanyParts
<1>8. \A i \in 1..4 : MadeBy(UpgradeTenancy[i], 2)
  BY <1>2, <1>6, <1>7, TypeMade, TableMade DEF CompanyParts
<1>9. /\ PartOf(Part("organization_id", "companies", {}), 2)
      /\ PartOf(Part("fk_companies_organizations", "companies", {"organization_id", "organizations"}), 2)
      /\ PartOf(Part("uq_companies_organization_id", "companies", {"organization_id"}), 2)
      /\ PartOf(Part("ix_companies_organization_id", "companies", {}), 2)
  BY <1>6 DEF PartOf, Part, WellNamed, CompanyParts, Taken
<1>10. \A i \in {6, 9, 11, 12} : MadeBy(UpgradeTenancy[i], 2)
  BY <1>3, <1>9, CreateMade
<1>11. \A i \in DOMAIN UpgradeTenancy \ {10} :
           \/ MadeBy(UpgradeTenancy[i], 2)
           \/ UpgradeTenancy[i].do \in {"insert_bootstrap", "backfill", "not_null"}
  BY <1>1, <1>4, <1>8, <1>10
<1> QED
  BY <1>1, <1>5, <1>11, ScriptsAre

LEMMA UpgradesMake ==
    \A k \in 1..7 : \A i \in DOMAIN Upgrade[k] :
        \/ MadeBy(Upgrade[k][i], k)
        \/ k = 2 /\ i = 10
        \/ k = 2 /\ Upgrade[k][i].do \in {"insert_bootstrap", "backfill", "not_null"}
<1> SUFFICES ASSUME NEW k \in 1..7, NEW i \in DOMAIN Upgrade[k]
             PROVE  \/ MadeBy(Upgrade[k][i], k)
                    \/ k = 2 /\ i = 10
                    \/ k = 2 /\ Upgrade[k][i].do \in {"insert_bootstrap", "backfill", "not_null"}
  OBVIOUS
<1>1. CASE k = 2
  BY <1>1, TenancyMade
<1>2. CASE k # 2
  BY <1>2, CompaniesMade, ResearchMade, FilesMade, MappingMade, RecordsMade, IssuesMade
<1> QED
  BY <1>1, <1>2

-------------------------------------------------------------------------------
(* What a script makes of a schema                                           *)

\* No statement of the script from the i-th on removes the object.
Spared(script, i, o) == \A j \in DOMAIN script : j >= i => ~Removes(script[j], o)

\* The schema after the script: what was there or was made on the way, and spared.
Result(schema, script) ==
    {o \in schema : Spared(script, 1, o)}
        \cup UNION {{o \in Made(script[i]) : Spared(script, i, o)} : i \in DOMAIN script}

LEMMA ResultOfNothing == \A schema : Result(schema, <<>>) = schema
BY DEF Result, Spared

\* Running the first statement, then the rest, is running the script.
LEMMA ResultStep ==
    ASSUME NEW X, NEW script \in Seq(X), script # <<>>, NEW schema
    PROVE  Result(SchemaAfter(schema, Head(script)), Tail(script)) = Result(schema, script)
<1> DEFINE first == Head(script)
           rest == Tail(script)
<1>1. /\ 1 \in DOMAIN script /\ script[1] = first
      /\ \A i \in DOMAIN rest : i + 1 \in DOMAIN script /\ rest[i] = script[i + 1]
      /\ \A i \in DOMAIN script : i \in Nat /\ i >= 1
      /\ \A i \in DOMAIN script : i # 1 => i - 1 \in DOMAIN rest
      /\ \A i \in DOMAIN rest : i \in Nat /\ i >= 1
  OBVIOUS
<1> HIDE DEF first, rest
<1>2. ASSUME NEW i \in DOMAIN rest, NEW o
      PROVE  Spared(rest, i, o) <=> Spared(script, i + 1, o)
  <2>1. ASSUME Spared(rest, i, o), NEW j \in DOMAIN script, j >= i + 1
        PROVE  ~Removes(script[j], o)
    <3>1. j # 1 /\ j - 1 \in DOMAIN rest /\ j - 1 >= i
      BY <1>1, <2>1
    <3>2. rest[j - 1] = script[j]
      BY <1>1, <3>1
    <3> QED
      BY <2>1, <3>1, <3>2 DEF Spared
  <2>2. ASSUME Spared(script, i + 1, o), NEW j \in DOMAIN rest, j >= i
        PROVE  ~Removes(rest[j], o)
    <3>1. j + 1 \in DOMAIN script /\ j + 1 >= i + 1 /\ rest[j] = script[j + 1]
      BY <1>1, <2>2
    <3> QED
      BY <2>2, <3>1 DEF Spared
  <2> QED
    BY <2>1, <2>2 DEF Spared
<1>3. ASSUME NEW o
      PROVE  Spared(script, 1, o) <=> ~Removes(first, o) /\ Spared(rest, 1, o)
  <2>1. ASSUME Spared(rest, 1, o), ~Removes(first, o), NEW j \in DOMAIN script
        PROVE  ~Removes(script[j], o)
    <3>1. CASE j = 1
      BY <1>1, <2>1, <3>1
    <3>2. CASE j # 1
      <4>1. j - 1 \in DOMAIN rest
        BY <1>1, <3>2
      <4>2. rest[j - 1] = script[j] /\ j - 1 >= 1
        BY <1>1, <4>1
      <4> QED
        BY <2>1, <4>1, <4>2 DEF Spared
    <3> QED
      BY <3>1, <3>2
  <2>2. ASSUME Spared(script, 1, o), NEW j \in DOMAIN rest
        PROVE  ~Removes(rest[j], o)
    BY <1>1, <2>2 DEF Spared
  <2> QED
    BY <1>1, <2>1, <2>2 DEF Spared
<1>4. ASSUME NEW o \in Result(SchemaAfter(schema, first), rest)
      PROVE  o \in Result(schema, script)
  <2>1. CASE o \in SchemaAfter(schema, first) /\ Spared(rest, 1, o)
    BY <1>1, <1>3, <2>1 DEF SchemaAfter, Result
  <2>2. ASSUME NEW i \in DOMAIN rest, o \in Made(rest[i]), Spared(rest, i, o)
        PROVE  o \in Result(schema, script)
    <3>1. i + 1 \in DOMAIN script /\ o \in Made(script[i + 1]) /\ Spared(script, i + 1, o)
      BY <1>1, <1>2, <2>2
    <3> QED
      BY <3>1 DEF Result
  <2> QED
    BY <1>4, <2>1, <2>2 DEF Result
<1>5. ASSUME NEW o \in Result(schema, script)
      PROVE  o \in Result(SchemaAfter(schema, first), rest)
  <2>1. CASE o \in schema /\ Spared(script, 1, o)
    BY <1>3, <2>1 DEF SchemaAfter, Result
  <2>2. ASSUME NEW i \in DOMAIN script, o \in Made(script[i]), Spared(script, i, o)
        PROVE  o \in Result(SchemaAfter(schema, first), rest)
    <3>1. CASE i = 1
      BY <1>1, <1>3, <2>2, <3>1 DEF SchemaAfter, Result
    <3>2. CASE i # 1
      <4>1. i - 1 \in DOMAIN rest
        BY <1>1, <3>2
      <4>2. rest[i - 1] = script[i] /\ (i - 1) + 1 = i
        BY <1>1, <4>1
      <4>3. o \in Made(rest[i - 1]) /\ Spared(rest, i - 1, o)
        BY <1>2, <2>2, <4>1, <4>2
      <4> QED
        BY <4>1, <4>3 DEF Result
    <3> QED
      BY <3>1, <3>2
  <2> QED
    BY <1>5, <2>1, <2>2 DEF Result
<1> QED
  BY <1>4, <1>5 DEF first, rest

-------------------------------------------------------------------------------
(* Upgrades and downgrades undo each other                                   *)

\* The objects revision k makes.
Creates(k) == UNION {Made(Upgrade[k][i]) : i \in DOMAIN Upgrade[k]}

AllCreated(v) == UNION {Creates(k) : k \in 1..v}

LEMMA CreatesPartsOf == \A k \in 1..7 : \A o \in Creates(k) : PartOf(o, k)
BY UpgradesMake, TenancyMade DEF Creates, Made, MadeBy, Drop

\* Of everything made on the way up, only the constraint on listings goes again.
LEMMA Removed ==
    \A k \in 1..7 : \A i \in DOMAIN Upgrade[k] :
        \A o : Removes(Upgrade[k][i], o) <=> k = 2 /\ i = 10 /\ "uq_companies_exchange" \in {o.name, o.of}
<1>1. ASSUME NEW k \in 1..7, NEW i \in DOMAIN Upgrade[k], ~(k = 2 /\ i = 10)
      PROVE  Upgrade[k][i].do \notin {"drop", "drop_type"}
  BY <1>1, UpgradesMake DEF MadeBy
<1>2. \A o : Removes(Upgrade[2][10], o) <=> "uq_companies_exchange" \in {o.name, o.of}
  BY TenancyMade DEF Removes, Drop
<1> QED
  BY <1>1, <1>2 DEF Removes

LEMMA BuiltIs ==
    \A v \in 0..7 :
        Built(v) = {o \in AllCreated(v) : v >= 2 => o.name # "uq_companies_exchange"}
<1> SUFFICES ASSUME NEW v \in 0..7
             PROVE  Built(v) = {o \in AllCreated(v) : v >= 2 => o.name # "uq_companies_exchange"}
  OBVIOUS
<1> DEFINE statements == UNION {Range(Upgrade[k]) : k \in 1..v}
<1>1. \A s : s \in statements <=> \E k \in 1..v : \E i \in DOMAIN Upgrade[k] : s = Upgrade[k][i]
  BY DEF Range
<1>2. \A o : o \in UNION {Made(s) : s \in statements} <=> o \in AllCreated(v)
  BY <1>1 DEF Creates, AllCreated
<1>3. ASSUME NEW k \in 1..v, NEW o \in Creates(k)
      PROVE  (\A s \in statements : ~Removes(s, o)) <=> (v >= 2 => o.name # "uq_companies_exchange")
  <2>1. o.of # "uq_companies_exchange"
    BY CreatesPartsOf DEF PartOf, WellNamed
  <2>2. (\A s \in statements : ~Removes(s, o)) <=>
            \A m \in 1..v : \A i \in DOMAIN Upgrade[m] : ~Removes(Upgrade[m][i], o)
    BY <1>1
  <2>3. (\A m \in 1..v : \A i \in DOMAIN Upgrade[m] : ~Removes(Upgrade[m][i], o)) <=>
            (v >= 2 => o.name # "uq_companies_exchange")
    <3>1. CASE v >= 2
      <4>1. 2 \in 1..v /\ 10 \in DOMAIN Upgrade[2]
        BY <3>1, TenancyMade
      <4>2. Removes(Upgrade[2][10], o) <=> o.name = "uq_companies_exchange"
        BY <2>1, <4>1, Removed
      <4>3. ASSUME NEW m \in 1..v, NEW i \in DOMAIN Upgrade[m], Removes(Upgrade[m][i], o)
            PROVE  o.name = "uq_companies_exchange"
        <5>1. m \in 1..7
          OBVIOUS
        <5> QED
          BY <2>1, <4>3, <5>1, Removed
      <4> QED
        BY <3>1, <4>1, <4>2, <4>3
    <3>2. CASE v < 2
      BY <3>2, Removed
    <3> QED
      BY <3>1, <3>2
  <2> QED
    BY <2>2, <2>3
<1> HIDE DEF statements
<1>4. Built(v) = {o \in UNION {Made(s) : s \in statements} : \A s \in statements : ~Removes(s, o)}
  BY DEF Built, statements
<1> QED
  BY <1>2, <1>3, <1>4 DEF AllCreated

LEMMA BuiltFirst == Built(0) = {} /\ Built(1) = Creates(1)
<1>1. AllCreated(0) = {} /\ AllCreated(1) = Creates(1)
  BY DEF AllCreated
<1> QED
  BY <1>1, BuiltIs

\* What revision 0001 makes that the constraint on listings does not.
LEMMA ExchangeIsFirst ==
    /\ Exchange \in Creates(1)
    /\ \A o \in Creates(1) : o.name = "uq_companies_exchange" => o = Exchange
    /\ \A k \in 2..7 : \A o \in Creates(k) : o.name # "uq_companies_exchange"
<1>1. DOMAIN Upgrade[1] = 1..2
  BY ScriptsAre DEF UpgradeCompanies
<1>2. /\ Made(Upgrade[1][1]) = {[name |-> "companies", of |-> "companies", needs |-> {}], Exchange,
                                Part("uq_companies_isin", "companies", {})}
      /\ Made(Upgrade[1][2]) = {Part("ix_companies_name", "companies", {})}
  BY ScriptsAre DEF UpgradeCompanies, Made, Table, Index, Create, Exchange
<1>3. Creates(1) = {[name |-> "companies", of |-> "companies", needs |-> {}], Exchange,
                    Part("uq_companies_isin", "companies", {}), Part("ix_companies_name", "companies", {})}
  BY <1>1, <1>2 DEF Creates
<1>4. \A k \in 2..7 : "uq_companies_exchange" \notin New[k]
  BY NewOnce, NewAre DEF NewCompanies
<1> QED
  BY <1>3, <1>4, CreatesPartsOf DEF PartOf, Part, Exchange

\* upgrade() of revision k.
LEMMA UpOne == \A k \in 1..7 : Result(Built(k - 1), Upgrade[k]) = Built(k)
<1>1. ASSUME NEW k \in 1..7, k # 2, NEW schema
      PROVE  Result(schema, Upgrade[k]) = schema \cup Creates(k)
  <2>1. \A i, o : Spared(Upgrade[k], i, o)
    BY <1>1, Removed DEF Spared
  <2> QED
    BY <2>1 DEF Result, Creates
<1>2. ASSUME NEW schema
      PROVE  Result(schema, Upgrade[2]) =
                 {o \in schema : "uq_companies_exchange" \notin {o.name, o.of}} \cup Creates(2)
  <2>1. \A o : Spared(Upgrade[2], 1, o) <=> "uq_companies_exchange" \notin {o.name, o.of}
    BY Removed, TenancyMade DEF Spared
  <2>2. \A o \in Creates(2) : \A i : Spared(Upgrade[2], i, o)
    BY Removed, ExchangeIsFirst, CreatesPartsOf DEF Spared, PartOf, WellNamed
  <2>3. \A i \in DOMAIN Upgrade[2] : \A o \in Made(Upgrade[2][i]) : o \in Creates(2)
    BY DEF Creates
  <2>4. UNION {{o \in Made(Upgrade[2][i]) : Spared(Upgrade[2], i, o)} : i \in DOMAIN Upgrade[2]} = Creates(2)
    BY <2>2, <2>3 DEF Creates
  <2> QED
    BY <2>1, <2>4 DEF Result
<1> TAKE k \in 1..7
<1>3. CASE k = 1
  <2>1. Result(Built(0), Upgrade[1]) = Built(0) \cup Creates(1)
    BY <1>1
  <2>2. Result(Built(0), Upgrade[1]) = Built(1)
    BY <2>1, BuiltFirst
  <2> QED
    BY <1>3, <2>2
<1>4. CASE k = 2
  <2>1. \A o \in Creates(1) : o.of # "uq_companies_exchange"
    BY CreatesPartsOf DEF PartOf, WellNamed
  <2>2. Built(2) = {o \in Creates(1) \cup Creates(2) : o.name # "uq_companies_exchange"}
    BY BuiltIs DEF AllCreated
  <2>3. Built(2) = {o \in Creates(1) : o.name # "uq_companies_exchange"} \cup Creates(2)
    BY <2>2, ExchangeIsFirst
  <2>4. Result(Built(1), Upgrade[2]) =
            {o \in Built(1) : "uq_companies_exchange" \notin {o.name, o.of}} \cup Creates(2)
    BY <1>2
  <2>5. Result(Built(1), Upgrade[2]) = Built(2)
    BY <2>1, <2>3, <2>4, BuiltFirst
  <2> QED
    BY <1>4, <2>5
<1>5. CASE k > 2
  <2>1. \A o \in Creates(k) : o.name # "uq_companies_exchange"
    BY <1>5, ExchangeIsFirst
  <2>2. AllCreated(k) = AllCreated(k - 1) \cup Creates(k)
    BY DEF AllCreated
  <2>3. Built(k) = Built(k - 1) \cup Creates(k)
    BY <1>5, <2>1, <2>2, BuiltIs
  <2> QED
    BY <1>1, <1>5, <2>3
<1> QED
  BY <1>3, <1>4, <1>5

LEMMA KnownMonotone == \A k \in 1..7 : \A m \in 1..k : New[m] \subseteq Known(k) /\ Known(m) \subseteq Known(k)
BY DEF Known

\* A downgrade drops all its revision made, or the table it went with, ...
LEMMA TakesOut == \A k \in 1..7 : \A o \in Creates(k) : ~Spared(Downgrade[k], 1, o)
<1> SUFFICES ASSUME NEW k \in 1..7, NEW o \in Creates(k)
             PROVE  \E j \in DOMAIN Downgrade[k] : j >= 1 /\ Removes(Downgrade[k][j], o)
  BY DEF Spared
<1>1. PICK name \in {o.name, o.of} : name \in Taken(k)
  BY CreatesPartsOf DEF PartOf
<1>2. PICK j \in DOMAIN Downgrade[k] : Downgrade[k][j] \in {Drop(name), DropType(name)}
  BY <1>1 DEF Taken
<1>3. Removes(Downgrade[k][j], o)
  BY <1>1, <1>2 DEF Removes, Drop, DropType
<1>4. j \in Nat /\ j >= 1
  BY ScriptsAre DEF DowngradeCompanies, DowngradeTenancy, DowngradeResearch, DowngradeFiles,
                    DowngradeMapping, DowngradeRecords, DowngradeIssues
<1> QED
  BY <1>3, <1>4

\* ... and nothing older.
LEMMA Keeps == \A k \in 1..7 : \A o \in AllCreated(k - 1) : \A i : Spared(Downgrade[k], i, o)
<1> SUFFICES ASSUME NEW k \in 1..7, NEW o \in AllCreated(k - 1), NEW j \in DOMAIN Downgrade[k]
             PROVE  ~Removes(Downgrade[k][j], o)
  BY DEF Spared
<1>1. PICK m \in 1..(k - 1) : o \in Creates(m)
  BY DEF AllCreated
<1>2. m \in 1..7 /\ k - 1 \in 1..7
  OBVIOUS
<1>3. o.name \in Known(k - 1) /\ o.of \in Known(k - 1)
  BY <1>1, <1>2, CreatesPartsOf, KnownMonotone DEF PartOf
<1>4. o.name \notin New[k] /\ o.of \notin New[k]
  BY <1>3, KnownElsewhere
<1>5. CASE DroppedBy(Downgrade[k][j], k)
  BY <1>4, <1>5 DEF DroppedBy, Removes, Drop, DropType
<1>6. CASE k = 2 /\ j = 3
  BY <1>6, ListingsAgain DEF Removes, Create
<1> QED
  BY <1>5, <1>6, DowngradesDrop

LEMMA MadeOnTheWayDown ==
    /\ \A k \in 1..7 : \A i \in DOMAIN Downgrade[k] : (k = 2 /\ i = 3) \/ Made(Downgrade[k][i]) = {}
    /\ Made(Downgrade[2][3]) = {Exchange}
<1>1. ASSUME NEW k \in 1..7, NEW i \in DOMAIN Downgrade[k], ~(k = 2 /\ i = 3)
      PROVE  Made(Downgrade[k][i]) = {}
  <2>1. PICK name \in New[k] : Downgrade[k][i] = Drop(name) \/ Downgrade[k][i] = DropType(name)
    BY <1>1, DowngradesDrop DEF DroppedBy
  <2> QED
    BY <2>1 DEF Made, Drop, DropType
<1>2. Made(Create({Exchange})) = {Exchange}
  BY DEF Made, Create
<1> QED
  BY <1>1, <1>2, ListingsAgain

\* downgrade() of revision k.
LEMMA DownOne == \A k \in 1..7 : Result(Built(k), Downgrade[k]) = Built(k - 1)
<1> TAKE k \in 1..7
<1>1. AllCreated(k) = AllCreated(k - 1) \cup Creates(k)
  BY DEF AllCreated
<1>2. {o \in Built(k) : Spared(Downgrade[k], 1, o)} =
          {o \in AllCreated(k - 1) : k >= 2 => o.name # "uq_companies_exchange"}
  <2>1. \A o \in AllCreated(k) : Spared(Downgrade[k], 1, o) <=> o \in AllCreated(k - 1)
    BY <1>1, TakesOut, Keeps
  <2> QED
    BY <1>1, <2>1, BuiltIs
<1>3. CASE k # 2
  <2>1. UNION {{o \in Made(Downgrade[k][i]) : Spared(Downgrade[k], i, o)} : i \in DOMAIN Downgrade[k]} = {}
    BY <1>3, MadeOnTheWayDown
  <2>2. Built(k - 1) = {o \in AllCreated(k - 1) : k >= 2 => o.name # "uq_companies_exchange"}
    <3>1. CASE k = 1
      <4>1. AllCreated(0) = {}
        BY DEF AllCreated
      <4> QED
        BY <3>1, <4>1, BuiltIs
    <3>2. CASE k >= 3
      BY <3>2, BuiltIs
    <3> QED
      BY <1>3, <3>1, <3>2
  <2> QED
    BY <1>2, <2>1, <2>2 DEF Result
<1>4. CASE k = 2
  <2>1. AllCreated(1) = Creates(1)
    BY DEF AllCreated
  <2>2. {o \in Built(2) : Spared(Downgrade[2], 1, o)} = {o \in Creates(1) : o.name # "uq_companies_exchange"}
    BY <1>2, <1>4, <2>1
  <2>3. \A i : Spared(Downgrade[2], i, Exchange)
    <3>1. Exchange \in AllCreated(2 - 1)
      BY <2>1, ExchangeIsFirst
    <3> QED
      BY <3>1, Keeps
  <2>4. UNION {{o \in Made(Downgrade[2][i]) : Spared(Downgrade[2], i, o)} : i \in DOMAIN Downgrade[2]} = {Exchange}
    BY <2>3, MadeOnTheWayDown, ListingsAgain
  <2>5. {o \in Creates(1) : o.name # "uq_companies_exchange"} \cup {Exchange} = Creates(1)
    BY ExchangeIsFirst DEF Exchange, Part
  <2>6. Result(Built(2), Downgrade[2]) = Built(1)
    BY <2>2, <2>4, <2>5, BuiltFirst DEF Result
  <2> QED
    BY <1>4, <2>6
<1> QED
  BY <1>3, <1>4

-------------------------------------------------------------------------------
(* What any statement of any revision does                                   *)

WellFormed(s) ==
    /\ s.do \in {"create", "create_type", "drop", "drop_type", "insert_bootstrap", "backfill", "not_null"}
    /\ \A o \in Made(s) : WellNamed(o)
    /\ s.do = "create_type" => \A o \in s.objects : o.name \notin CompanyParts
    /\ s.do = "drop_type" => s.name \notin CompanyParts

LEMMA StatementsWellFormed == \A s \in Statements : WellFormed(s)
<1>1. ASSUME NEW k \in 1..7, NEW s, MadeBy(s, k)
      PROVE  WellFormed(s)
  BY <1>1 DEF MadeBy, PartOf, WellFormed, Made
<1>2. ASSUME NEW name
      PROVE  /\ WellFormed(Drop(name))
             /\ name \notin CompanyParts => WellFormed(DropType(name))
  BY DEF WellFormed, Made, Drop, DropType
<1>3. WellFormed(Create({Exchange}))
  BY ExchangeIsFirst, CreatesPartsOf DEF WellFormed, Made, Create, PartOf
<1>4. ASSUME NEW k \in 1..7, NEW i \in DOMAIN Upgrade[k]
      PROVE  WellFormed(Upgrade[k][i])
  <2>1. CASE MadeBy(Upgrade[k][i], k)
    BY <1>1, <2>1
  <2>2. CASE k = 2 /\ i = 10
    BY <1>2, <2>2, TenancyMade
  <2>3. CASE Upgrade[k][i].do \in {"insert_bootstrap", "backfill", "not_null"}
    BY <2>3 DEF WellFormed, Made
  <2> QED
    BY <2>1, <2>2, <2>3, UpgradesMake
<1>5. ASSUME NEW k \in 1..7, NEW i \in DOMAIN Downgrade[k]
      PROVE  WellFormed(Downgrade[k][i])
  <2>1. CASE DroppedBy(Downgrade[k][i], k)
    BY <1>2, <2>1 DEF DroppedBy
  <2>2. CASE k = 2 /\ i = 3
    BY <1>3, <2>2, ListingsAgain
  <2> QED
    BY <2>1, <2>2, DowngradesDrop
<1> QED
  BY <1>4, <1>5 DEF Statements, Range

LEMMA ScriptsOfStatements == \A k \in 1..7 : Upgrade[k] \in Seq(Statements) /\ Downgrade[k] \in Seq(Statements)
<1>1. \A k \in 1..7 : Range(Upgrade[k]) \subseteq Statements /\ Range(Downgrade[k]) \subseteq Statements
  BY DEF Statements
<1>2. ASSUME NEW A, NEW B, A \subseteq B, NEW script \in Seq(A)
      PROVE  script \in Seq(B)
  BY <1>2
<1>3. UpgradeCompanies \in Seq(Range(UpgradeCompanies)) /\ DowngradeCompanies \in Seq(Range(DowngradeCompanies))
  BY DEF UpgradeCompanies, DowngradeCompanies, Range
<1>4. UpgradeTenancy \in Seq(Range(UpgradeTenancy)) /\ DowngradeTenancy \in Seq(Range(DowngradeTenancy))
  BY DEF UpgradeTenancy, DowngradeTenancy, Range
<1>5. UpgradeResearch \in Seq(Range(UpgradeResearch)) /\ DowngradeResearch \in Seq(Range(DowngradeResearch))
  BY DEF UpgradeResearch, DowngradeResearch, Range
<1>6. UpgradeFiles \in Seq(Range(UpgradeFiles)) /\ DowngradeFiles \in Seq(Range(DowngradeFiles))
  BY DEF UpgradeFiles, DowngradeFiles, Range
<1>7. UpgradeMapping \in Seq(Range(UpgradeMapping)) /\ DowngradeMapping \in Seq(Range(DowngradeMapping))
  BY DEF UpgradeMapping, DowngradeMapping, Range
<1>8. UpgradeRecords \in Seq(Range(UpgradeRecords)) /\ DowngradeRecords \in Seq(Range(DowngradeRecords))
  BY DEF UpgradeRecords, DowngradeRecords, Range
<1>9. UpgradeIssues \in Seq(Range(UpgradeIssues)) /\ DowngradeIssues \in Seq(Range(DowngradeIssues))
  BY DEF UpgradeIssues, DowngradeIssues, Range
<1>10. ASSUME NEW k \in 1..7
       PROVE  Upgrade[k] \in Seq(Range(Upgrade[k])) /\ Downgrade[k] \in Seq(Range(Downgrade[k]))
  <2>1. CASE k \in 1..3
    BY <1>3, <1>4, <1>5, <2>1, ScriptsAre
  <2>2. CASE k \in 4..7
    BY <1>6, <1>7, <1>8, <1>9, <2>2, ScriptsAre
  <2> QED
    BY <2>1, <2>2
<1> QED
  BY <1>1, <1>2, <1>10

\* The schema has only its own objects, the rows satisfy its constraints, and there
\* are no rows without the table and no owners without the column.
Constrained(d) ==
    /\ \A o \in d.schema : WellNamed(o)
    /\ "companies" \notin Names(d.schema) => Rows(d) = {}
    /\ "organization_id" \notin Names(d.schema) => \A c \in Rows(d) : d.companies[c].org = NoOrg
    /\ \A name \in Names(d.schema) : Satisfied(d, name)

LEMMA SatisfiedIs ==
    ASSUME NEW d, NEW name
    PROVE  Satisfied(d, name) <=>
               /\ name \in {"uq_companies_exchange", "uq_companies_organization_id"} => Admits(d, name)
               /\ name = "fk_companies_organizations" => \A c \in Rows(d) : d.companies[c].org \in d.orgs
BY DEF Satisfied

\* More owners, or the same rows, violate nothing that was satisfied.
LEMMA SatisfiedGrows ==
    ASSUME NEW d, NEW e, d.companies = e.companies, d.orgs \subseteq e.orgs, NEW name, Satisfied(d, name)
    PROVE  Satisfied(e, name)
<1>1. Rows(d) = Rows(e)
  BY DEF Rows
<1>2. Admits(d, name) => Admits(e, name)
  BY <1>1 DEF Admits
<1> QED
  BY <1>1, <1>2, SatisfiedIs

\* Moving companies to another owner leaves the others, and every listing, alone.
LEMMA OwnedIs ==
    ASSUME NEW d \in Databases, NEW owners, NEW org \in Owners \cup {NoOrg}
    PROVE  /\ Owned(d, owners, org) \in [Companies -> {Absent} \cup Company]
           /\ \A c \in Companies :
                  Owned(d, owners, org)[c] # Absent =>
                      /\ c \in Rows(d)
                      /\ Owned(d, owners, org)[c].listing = d.companies[c].listing
                      /\ Owned(d, owners, org)[c].org =
                             IF d.companies[c].org \in owners THEN org ELSE d.companies[c].org
BY DEF Owned, Rows, Databases, Company

LEMMA AfterTyped ==
    ASSUME NEW d \in Databases, NEW s \in Statements
    PROVE  After(d, s) \in Databases
<1> DEFINE e == After(d, s)
<1>1. e.schema \in SUBSET UNION {Made(t) : t \in Statements}
  BY DEF After, SchemaAfter, Databases
<1>2. e.orgs \in SUBSET Owners
  BY DEF After, Databases, Owners
<1>3. e.companies \in [Companies -> {Absent} \cup Company]
  <2>1. Bootstrap \in Owners
    BY DEF Owners
  <2> QED
    BY <2>1, OwnedIs DEF After, Databases
<1> QED
  BY <1>1, <1>2, <1>3 DEF After, Databases

\* Creating objects changes no row, and is refused if the rows violate them.
LEMMA CreateKeeps ==
    ASSUME NEW d \in Databases, Constrained(d), NEW s, WellFormed(s),
           s.do \in {"create", "create_type"}, Runs(d, s)
    PROVE  Constrained(After(d, s))
<1> DEFINE e == After(d, s)
<1>1. e.schema = d.schema \cup s.objects /\ e.orgs = d.orgs /\ e.companies = d.companies
  BY DEF After, SchemaAfter, Removes, Made
<1>2. Names(e.schema) = Names(d.schema) \cup Names(s.objects)
  BY <1>1 DEF Names
<1>3. \A name \in Names(s.objects) : Satisfied(d, name)
  <2>1. CASE s.do = "create"
    BY <2>1 DEF Runs, Creatable
  <2>2. CASE s.do = "create_type"
    <3>1. \A name \in Names(s.objects) : name \notin CompanyParts
      BY <2>2 DEF WellFormed, Names
    <3> QED
      BY <3>1, SatisfiedIs DEF CompanyParts
  <2> QED
    BY <2>1, <2>2
<1>4. \A name \in Names(e.schema) : Satisfied(e, name)
  BY <1>1, <1>2, <1>3, SatisfiedGrows DEF Constrained
<1>5. Rows(e) = Rows(d)
  BY <1>1 DEF Rows
<1>6. \A o \in e.schema : WellNamed(o)
  BY <1>1 DEF Constrained, WellFormed, Made
<1> QED
  BY <1>1, <1>2, <1>4, <1>5, <1>6 DEF Constrained

\* A statement that changes no company, nor whether the table and the owner's
\* column are there, and takes no owner that a company needs.
LEMMA RowsStay ==
    ASSUME NEW d, NEW e, Constrained(d), e.companies = d.companies, e.schema \subseteq d.schema,
           {"companies", "organization_id"} \cap Names(d.schema) \subseteq Names(e.schema),
           "fk_companies_organizations" \in Names(e.schema) => d.orgs \subseteq e.orgs
    PROVE  Constrained(e)
<1>1. Rows(e) = Rows(d)
  BY DEF Rows
<1>2. Names(e.schema) \subseteq Names(d.schema)
  BY DEF Names
<1>3. ASSUME NEW name \in Names(e.schema)
      PROVE  Satisfied(e, name)
  <2>1. Satisfied(d, name)
    BY <1>2 DEF Constrained
  <2>2. Admits(d, name) => Admits(e, name)
    BY <1>1 DEF Admits
  <2> QED
    BY <1>1, <2>1, <2>2, SatisfiedIs
<1> QED
  BY <1>1, <1>2, <1>3 DEF Constrained

LEMMA DropKeeps ==
    ASSUME NEW d \in Databases, Constrained(d), NEW s, WellFormed(s), s.do = "drop", Runs(d, s)
    PROVE  Constrained(After(d, s))
<1> DEFINE e == After(d, s)
<1>1. /\ e.schema = {o \in d.schema : s.name \notin {o.name, o.of}}
      /\ e.orgs = IF s.name = "organizations" THEN {} ELSE d.orgs
      /\ e.companies = CASE s.name = "companies" -> [c \in Companies |-> Absent]
                         [] s.name = "organization_id" -> Owned(d, Owners, NoOrg)
                         [] OTHER -> d.companies
  BY DEF After, SchemaAfter, Removes, Made
<1>2. s.name \in Names(d.schema) /\ \A o \in d.schema : s.name \in o.needs => o.of = s.name
  BY DEF Runs, Droppable
<1>3. \A o \in d.schema : WellNamed(o)
  BY DEF Constrained
<1>4. \A o \in e.schema : WellNamed(o)
  BY <1>1, <1>3
<1>5. CASE s.name = "companies"
  <2>1. Rows(e) = {}
    BY <1>1, <1>5 DEF Rows
  <2>2. \A name : Satisfied(e, name)
    BY <2>1, SatisfiedIs DEF Admits
  <2> QED
    BY <1>4, <2>1, <2>2 DEF Constrained
<1>6. CASE s.name = "organization_id"
  <2>1. \A c \in Rows(e) : /\ c \in Rows(d) /\ e.companies[c].listing = d.companies[c].listing
                           /\ e.companies[c].org = NoOrg
    BY <1>1, <1>6, OwnedIs DEF Rows, Databases, Company
  <2>2. \A o \in e.schema : o.name \notin {"fk_companies_organizations", "uq_companies_organization_id"}
    BY <1>1, <1>2, <1>3, <1>6 DEF WellNamed, CompanyParts
  <2>3. "companies" \notin Names(e.schema) => "companies" \notin Names(d.schema)
    BY <1>1, <1>3, <1>6 DEF Names, WellNamed, CompanyParts
  <2>4. "uq_companies_exchange" \in Names(e.schema) => Admits(e, "uq_companies_exchange")
    <3>1. SUFFICES ASSUME "uq_companies_exchange" \in Names(e.schema)
                   PROVE  Admits(e, "uq_companies_exchange")
      OBVIOUS
    <3>2. Satisfied(d, "uq_companies_exchange")
      BY <1>1, <3>1 DEF Names, Constrained
    <3>3. Admits(d, "uq_companies_exchange")
      BY <3>2, SatisfiedIs
    <3> QED
      BY <2>1, <3>3 DEF Admits
  <2>5. \A name \in Names(e.schema) : Satisfied(e, name)
    BY <2>2, <2>4, SatisfiedIs DEF Names
  <2> QED
    BY <1>4, <2>1, <2>3, <2>5 DEF Constrained
<1>7. CASE s.name \notin {"companies", "organization_id"}
  <2>1. e.companies = d.companies
    BY <1>1, <1>7
  <2>2. {"companies", "organization_id"} \cap Names(d.schema) \subseteq Names(e.schema)
    BY <1>1, <1>3, <1>7 DEF Names, WellNamed, CompanyParts
  <2>3. "fk_companies_organizations" \in Names(e.schema) => e.orgs = d.orgs
    BY <1>1, <1>2, <1>3 DEF Names, WellNamed, CompanyParts
  <2> QED
    BY <1>1, <2>1, <2>2, <2>3, RowsStay
<1> QED
  BY <1>5, <1>6, <1>7

LEMMA DropTypeKeeps ==
    ASSUME NEW d \in Databases, Constrained(d), NEW s, WellFormed(s), s.do = "drop_type"
    PROVE  Constrained(After(d, s))
<1> DEFINE e == After(d, s)
<1>1. /\ e.schema = {o \in d.schema : s.name \notin {o.name, o.of}}
      /\ e.orgs = d.orgs /\ e.companies = d.companies
  BY DEF After, SchemaAfter, Removes, Made
<1>2. {"companies", "organization_id"} \cap Names(d.schema) \subseteq Names(e.schema)
  BY <1>1 DEF Names, Constrained, WellNamed, WellFormed, CompanyParts
<1> QED
  BY <1>1, <1>2, RowsStay

LEMMA ExecuteKeeps ==
    ASSUME NEW d \in Databases, Constrained(d), NEW s,
           s.do \in {"insert_bootstrap", "backfill", "not_null"}, Runs(d, s)
    PROVE  Constrained(After(d, s))
<1> DEFINE e == After(d, s)
<1>1. e.schema = d.schema
  BY DEF After, SchemaAfter, Removes, Made
<1>2. CASE s.do # "backfill"
  <2>1. e.companies = d.companies /\ d.orgs \subseteq e.orgs
    BY <1>2 DEF After
  <2> QED
    BY <1>1, <2>1, RowsStay
<1>3. CASE s.do = "backfill"
  <2>1. /\ "organization_id" \in Names(d.schema)
        /\ \A name \in Names(d.schema) : Satisfied(e, name)
    BY <1>3 DEF Runs
  <2>2. Rows(e) \subseteq Rows(d)
    <3>1. Bootstrap \in Owners
      BY DEF Owners
    <3>2. e.companies = Owned(d, {NoOrg}, Bootstrap)
      BY <1>3 DEF After
    <3> QED
      BY <3>1, <3>2, OwnedIs DEF Rows
  <2> QED
    BY <1>1, <2>1, <2>2 DEF Constrained
<1> QED
  BY <1>2, <1>3

LEMMA StatementKeeps ==
    ASSUME NEW d \in Databases, Constrained(d), NEW s \in Statements, Runs(d, s)
    PROVE  Constrained(After(d, s))
BY CreateKeeps, DropKeeps, DropTypeKeeps, ExecuteKeeps, StatementsWellFormed DEF WellFormed

\* A statement that does not wait for the writes to companies does not change the
\* table, nor any company once each has an owner, and takes no owner in use.
LEMMA UnlockedKeeps ==
    ASSUME NEW d \in Databases, Constrained(d), NEW s \in Statements, Runs(d, s), ~LocksCompanies(d, s),
           "organization_id" \in Names(d.schema) => \A c \in Rows(d) : d.companies[c].org # NoOrg
    PROVE  /\ After(d, s).companies = d.companies
           /\ "fk_companies_organizations" \in Names(d.schema) => d.orgs \subseteq After(d, s).orgs
           /\ Names(After(d, s).schema) \cap CompanyParts = Names(d.schema) \cap CompanyParts
<1> DEFINE e == After(d, s)
<1>1. WellFormed(s) /\ \A o \in d.schema : WellNamed(o)
  BY StatementsWellFormed DEF Constrained
<1>2. CASE s.do = "create"
  <2>1. e.schema = d.schema \cup s.objects /\ e.orgs = d.orgs /\ e.companies = d.companies
    BY <1>2 DEF After, SchemaAfter, Removes, Made
  <2>2. \A o \in s.objects : o.name \notin CompanyParts
    BY <1>1, <1>2 DEF LocksCompanies, WellFormed, WellNamed, Made
  <2> QED
    BY <2>1, <2>2 DEF Names
<1>3. CASE s.do = "create_type"
  <2>1. e.schema = d.schema \cup s.objects /\ e.orgs = d.orgs /\ e.companies = d.companies
    BY <1>3 DEF After, SchemaAfter, Removes, Made
  <2>2. \A o \in s.objects : o.name \notin CompanyParts
    BY <1>1, <1>3 DEF WellFormed
  <2> QED
    BY <2>1, <2>2 DEF Names
<1>4. CASE s.do = "drop"
  <2>1. s.name \notin CompanyParts
    BY <1>1, <1>4 DEF Runs, Droppable, LocksCompanies, Names, WellNamed
  <2>2. /\ e.schema = {o \in d.schema : s.name \notin {o.name, o.of}}
        /\ e.companies = d.companies
        /\ s.name # "organizations" => e.orgs = d.orgs
    BY <1>4, <2>1 DEF After, SchemaAfter, Removes, Made, CompanyParts
  <2>3. "fk_companies_organizations" \in Names(d.schema) => s.name # "organizations"
    BY <1>1, <1>4 DEF Runs, Droppable, Names, WellNamed, CompanyParts
  <2>4. Names(e.schema) \cap CompanyParts = Names(d.schema) \cap CompanyParts
    BY <1>1, <2>1, <2>2 DEF Names, WellNamed, CompanyParts
  <2> QED
    BY <2>2, <2>3, <2>4
<1>5. CASE s.do = "drop_type"
  <2>1. /\ e.schema = {o \in d.schema : s.name \notin {o.name, o.of}}
        /\ e.orgs = d.orgs /\ e.companies = d.companies
    BY <1>5 DEF After, SchemaAfter, Removes, Made
  <2>2. Names(e.schema) \cap CompanyParts = Names(d.schema) \cap CompanyParts
    BY <1>1, <1>5, <2>1 DEF Names, WellNamed, WellFormed, CompanyParts
  <2> QED
    BY <2>1, <2>2
<1>6. CASE s.do \in {"insert_bootstrap", "not_null"}
  BY <1>6 DEF After, SchemaAfter, Removes, Made
<1>7. CASE s.do = "backfill"
  <2>1. e.schema = d.schema /\ e.orgs = d.orgs /\ e.companies = Owned(d, {NoOrg}, Bootstrap)
    BY <1>7 DEF After, SchemaAfter, Removes, Made
  <2>2. \A c \in Rows(d) : d.companies[c].org # NoOrg
    BY <1>7 DEF Runs
  <2>3. Owned(d, {NoOrg}, Bootstrap) = d.companies
    BY <2>2 DEF Owned, Databases
  <2> QED
    BY <2>1, <2>3
<1> QED
  BY <1>1, <1>2, <1>3, <1>4, <1>5, <1>6, <1>7 DEF WellFormed

-------------------------------------------------------------------------------
(* What the application writes                                               *)

\* The names that say whether companies have owners, by version.
LEMMA BuiltNames ==
    /\ Names(Built(0)) = {}
    /\ \A v \in 1..7 : "companies" \in Names(Built(v))
    /\ "uq_companies_exchange" \in Names(Built(1))
    /\ {"organization_id", "fk_companies_organizations", "uq_companies_organization_id"} \cap Names(Built(1)) = {}
    /\ \A v \in 2..7 :
           /\ {"organization_id", "fk_companies_organizations", "uq_companies_organization_id"}
                  \subseteq Names(Built(v))
           /\ "uq_companies_exchange" \notin Names(Built(v))
<1>1. \E o \in Creates(1) : o.name = "companies"
  <2> DEFINE table == [name |-> "companies", of |-> "companies", needs |-> {}]
  <2>1. 1 \in DOMAIN UpgradeCompanies /\ table \in UpgradeCompanies[1].objects
    BY DEF UpgradeCompanies, Table, Create
  <2>2. UpgradeCompanies[1].do = "create"
    BY DEF UpgradeCompanies, Table, Create
  <2> QED
    BY <2>1, <2>2, ScriptsAre DEF Creates, Made
<1>2. \A name \in {"organization_id", "fk_companies_organizations", "uq_companies_organization_id"} :
          \E o \in Creates(2) : o.name = name
  <2>1. {6, 9, 11} \subseteq DOMAIN UpgradeTenancy
    BY DEF UpgradeTenancy
  <2>2. /\ UpgradeTenancy[6] = Create({Part("organization_id", "companies", {})})
        /\ UpgradeTenancy[9] = Create({Part("fk_companies_organizations", "companies",
                                            {"organization_id", "organizations"})})
        /\ UpgradeTenancy[11] = Create({Part("uq_companies_organization_id", "companies", {"organization_id"})})
    BY DEF UpgradeTenancy
  <2>3. /\ \E o \in Made(UpgradeTenancy[6]) : o.name = "organization_id"
        /\ \E o \in Made(UpgradeTenancy[9]) : o.name = "fk_companies_organizations"
        /\ \E o \in Made(UpgradeTenancy[11]) : o.name = "uq_companies_organization_id"
    <3>1. ASSUME NEW name, NEW needs
          PROVE  \E o \in Made(Create({Part(name, "companies", needs)})) : o.name = name
      BY DEF Made, Create, Part
    <3> QED
      BY <2>2, <3>1
  <2> QED
    BY <2>1, <2>3, ScriptsAre DEF Creates
<1>3. \A v \in 1..7 : Creates(1) \subseteq AllCreated(v) /\ (v >= 2 => Creates(2) \subseteq AllCreated(v))
  BY DEF AllCreated
<1>4. \A v \in 1..7 : "companies" \in Names(Built(v))
  BY <1>1, <1>3, BuiltIs DEF Names
<1>5. "uq_companies_exchange" \in Names(Built(1))
  BY BuiltFirst, ExchangeIsFirst DEF Names, Exchange, Part
<1>6. {"organization_id", "fk_companies_organizations", "uq_companies_organization_id"} \cap Names(Built(1)) = {}
  <2>1. \A o \in Creates(1) : o.name \in NewCompanies
    BY CreatesPartsOf, NewAre DEF PartOf
  <2> QED
    BY <2>1, BuiltFirst DEF Names, NewCompanies
<1>7. \A v \in 2..7 :
          /\ {"organization_id", "fk_companies_organizations", "uq_companies_organization_id"}
                 \subseteq Names(Built(v))
          /\ "uq_companies_exchange" \notin Names(Built(v))
  BY <1>2, <1>3, BuiltIs DEF Names
<1> QED
  BY <1>4, <1>5, <1>6, <1>7, BuiltFirst DEF Names

\* A new row satisfies the constraints: INSERT checks its owner, and that no row has
\* its owner and its listing; where no owners are kept, that is its listing.
LEMMA CompanyAdded ==
    ASSUME NEW d \in Databases, Constrained(d), NEW c \in Companies,
           NEW company \in Company,
           NEW row, row = [k \in {c} |-> company],
           \A k \in Rows(d) : d.companies[k] # company,
           "companies" \in Names(d.schema),
           "organization_id" \notin Names(d.schema) => company.org = NoOrg,
           "fk_companies_organizations" \in Names(d.schema) => company.org \in d.orgs,
           "uq_companies_exchange" \in Names(d.schema) => "organization_id" \notin Names(d.schema)
    PROVE  LET e == Inserted(d, {}, row)
           IN  /\ e \in Databases /\ Constrained(e)
               /\ e.schema = d.schema /\ e.orgs = d.orgs
               /\ e.companies = [d.companies EXCEPT ![c] = company]
<1> DEFINE e == Inserted(d, {}, row)
<1>1. e \in Databases /\ e.schema = d.schema /\ e.orgs = d.orgs
  BY DEF Inserted, Databases
<1>11. e.companies = [d.companies EXCEPT ![c] = company]
  BY DEF Inserted, Databases
<1>2. /\ e.companies[c] = company
      /\ \A k \in Rows(e) : k # c => k \in Rows(d) /\ e.companies[k] = d.companies[k]
  BY <1>11 DEF Databases, Rows
<1>3. \A k \in Rows(d) : d.companies[k] = [org |-> d.companies[k].org, listing |-> d.companies[k].listing]
  BY DEF Databases, Company, Rows
<1>4. company = [org |-> company.org, listing |-> company.listing]
  BY DEF Company
<1>5. ASSUME NEW k \in Rows(d), d.companies[k].listing = company.listing
      PROVE  d.companies[k].org # company.org
  BY <1>3, <1>4, <1>5
<1> HIDE DEF e
<1>6. "organization_id" \notin Names(d.schema) => \A k \in Rows(e) : e.companies[k].org = NoOrg
  BY <1>2 DEF Constrained
<1>7. ASSUME "uq_companies_organization_id" \in Names(d.schema)
      PROVE  Admits(e, "uq_companies_organization_id")
  <2>1. Admits(d, "uq_companies_organization_id")
    BY <1>7, SatisfiedIs DEF Constrained
  <2> QED
    BY <1>2, <1>5, <2>1 DEF Admits
<1>8. ASSUME "uq_companies_exchange" \in Names(d.schema)
      PROVE  Admits(e, "uq_companies_exchange")
  <2>1. Admits(d, "uq_companies_exchange")
    BY <1>8, SatisfiedIs DEF Constrained
  <2>2. company.org = NoOrg /\ \A k \in Rows(d) : d.companies[k].org = NoOrg
    BY <1>8 DEF Constrained
  <2> QED
    BY <1>2, <1>5, <2>1, <2>2 DEF Admits
<1>9. ASSUME "fk_companies_organizations" \in Names(d.schema)
      PROVE  \A k \in Rows(e) : e.companies[k].org \in e.orgs
  <2>1. \A k \in Rows(d) : d.companies[k].org \in d.orgs
    BY <1>9, SatisfiedIs DEF Constrained
  <2> QED
    BY <1>1, <1>2, <1>9, <2>1
<1>10. \A name \in Names(e.schema) : Satisfied(e, name)
  BY <1>1, <1>7, <1>8, <1>9, SatisfiedIs
<1> QED
  BY <1>1, <1>11, <1>6, <1>10 DEF Constrained, e

LEMMA OrganizationsAdded ==
    ASSUME NEW d \in Databases, Constrained(d), NEW orgs \in SUBSET Owners
    PROVE  LET e == Inserted(d, orgs, <<>>)
           IN  /\ e \in Databases /\ Constrained(e)
               /\ e.schema = d.schema /\ e.companies = d.companies /\ e.orgs = d.orgs \cup orgs
<1> DEFINE e == Inserted(d, orgs, <<>>)
           none == <<>>
<1>1. \A c \in Companies : c \notin DOMAIN none
  OBVIOUS
<1> HIDE DEF none
<1>2. [c \in Companies |-> IF c \in DOMAIN none THEN none[c] ELSE d.companies[c]] = d.companies
  BY <1>1 DEF Databases
<1>3. e \in Databases /\ e.schema = d.schema /\ e.companies = d.companies /\ e.orgs = d.orgs \cup orgs
  BY <1>2 DEF Inserted, Databases, none
<1> QED
  BY <1>3, RowsStay

-------------------------------------------------------------------------------
(* The invariant                                                             *)

\* As long as the migration has locked nothing, what it sees of the companies is what
\* is committed: the rows, their owners and which constraints the table has.
Unlocked(r) ==
    /\ r.work.companies = db.companies
    /\ version >= 2 => db.orgs \subseteq r.work.orgs
    /\ Names(r.work.schema) \cap CompanyParts = Names(db.schema) \cap CompanyParts

\* Running the rest of the revision makes the schema that the next version stands for.
RunOK(r) ==
    /\ r \in Invocations
    /\ Result(r.work.schema, r.todo) = Built(r.at)
    /\ Constrained(r.work)
    /\ ~r.locked => Unlocked(r)

MigrationsInv ==
    /\ version \in 0..7 /\ db \in Databases
    /\ db.schema = Built(version)
    /\ Constrained(db)
    /\ run # NoRun => RunOK(run)

LEMMA OwnedOnceTenant ==
    ASSUME MigrationsInv, "organization_id" \in Names(db.schema)
    PROVE  /\ version >= 2
           /\ "fk_companies_organizations" \in Names(db.schema)
           /\ \A c \in Rows(db) : db.companies[c].org \in db.orgs /\ db.companies[c].org # NoOrg
<1>1. version >= 2
  BY BuiltNames DEF MigrationsInv
<1>2. "fk_companies_organizations" \in Names(db.schema)
  BY <1>1, BuiltNames DEF MigrationsInv
<1>3. \A c \in Rows(db) : db.companies[c].org \in db.orgs
  BY <1>2, SatisfiedIs DEF MigrationsInv, Constrained
<1>4. db.orgs \subseteq Owners /\ NoOrg \notin Owners
  BY MigrationsAssumption DEF MigrationsInv, Databases, Owners
<1> QED
  BY <1>1, <1>2, <1>3, <1>4

LEMMA MigrationsInit == Init => MigrationsInv
<1> SUFFICES ASSUME Init PROVE MigrationsInv
  OBVIOUS
<1>1. db \in Databases /\ db.schema = {} /\ Rows(db) = {}
  BY DEF Init, Empty, Databases, Rows
<1>2. Constrained(db)
  BY <1>1 DEF Constrained, Names
<1> QED
  BY <1>1, <1>2, BuiltFirst DEF Init, MigrationsInv

LEMMA InvokeKeeps ==
    ASSUME MigrationsInv, NEW to \in 0..7, Invoke(to)
    PROVE  MigrationsInv' /\ RunOK(run)'
<1>1. Result(db.schema, <<>>) = Built(version) /\ <<>> \in Seq(Statements)
  BY ResultOfNothing DEF MigrationsInv
<1>2. /\ run' = [to |-> to, at |-> version, todo |-> <<>>, work |-> db, locked |-> FALSE]
      /\ UNCHANGED <<version, db>>
  BY DEF Invoke
<1>3. RunOK(run)'
  BY <1>1, <1>2 DEF MigrationsInv, RunOK, Unlocked, Invocations
<1> QED
  BY <1>2, <1>3 DEF MigrationsInv

LEMMA NextRevisionKeeps ==
    ASSUME MigrationsInv, NextUpgrade \/ NextDowngrade
    PROVE  MigrationsInv' /\ RunOK(run)'
<1>1. RunOK(run) /\ run.todo = <<>> /\ UNCHANGED <<version, db>>
  BY DEF MigrationsInv, NextUpgrade, NextDowngrade
<1>2. run.work.schema = Built(run.at)
  BY <1>1, ResultOfNothing DEF RunOK
<1>3. CASE NextUpgrade
  <2> DEFINE at == run.at + 1
             todo == Upgrade[run.at + 1]
  <2>1. at \in 0..7 /\ at \in 1..7 /\ at - 1 = run.at
    BY <1>1, <1>3 DEF NextUpgrade, RunOK, Invocations
  <2>2. Result(run.work.schema, todo) = Built(at) /\ todo \in Seq(Statements)
    BY <1>2, <2>1, UpOne, ScriptsOfStatements
  <2>3. run' = [run EXCEPT !.at = at, !.todo = todo]
    BY <1>3 DEF NextUpgrade
  <2> HIDE DEF at, todo
  <2>4. /\ run' \in Invocations
        /\ run'.at = at /\ run'.todo = todo /\ run'.work = run.work /\ run'.locked = run.locked
    BY <1>1, <2>1, <2>2, <2>3 DEF RunOK, Invocations
  <2>5. RunOK(run)'
    BY <1>1, <2>2, <2>4 DEF RunOK, Unlocked
  <2> QED
    BY <1>1, <2>5 DEF MigrationsInv
<1>4. CASE NextDowngrade
  <2> DEFINE at == run.at - 1
             todo == Downgrade[run.at]
  <2>1. at \in 0..7 /\ run.at \in 1..7
    BY <1>1, <1>4 DEF NextDowngrade, RunOK, Invocations
  <2>2. Result(run.work.schema, todo) = Built(at) /\ todo \in Seq(Statements)
    BY <1>2, <2>1, DownOne, ScriptsOfStatements
  <2>3. run' = [run EXCEPT !.at = at, !.todo = todo]
    BY <1>4 DEF NextDowngrade
  <2> HIDE DEF at, todo
  <2>4. /\ run' \in Invocations
        /\ run'.at = at /\ run'.todo = todo /\ run'.work = run.work /\ run'.locked = run.locked
    BY <1>1, <2>1, <2>2, <2>3 DEF RunOK, Invocations
  <2>5. RunOK(run)'
    BY <1>1, <2>2, <2>4 DEF RunOK, Unlocked
  <2> QED
    BY <1>1, <2>5 DEF MigrationsInv
<1> QED
  BY <1>3, <1>4

LEMMA StatementStepKeeps ==
    ASSUME MigrationsInv, Statement
    PROVE  MigrationsInv' /\ RunOK(run)'
<1> DEFINE s == Head(run.todo)
<1>1. RunOK(run) /\ run.todo # <<>> /\ Runs(run.work, s) /\ UNCHANGED <<version, db>>
  BY DEF MigrationsInv, Statement
<1>2. s \in Statements /\ Tail(run.todo) \in Seq(Statements) /\ run.todo \in Seq(Statements)
  BY <1>1 DEF RunOK, Invocations
<1>3. /\ run' = [run EXCEPT !.todo = Tail(@), !.work = After(@, s), !.locked = @ \/ LocksCompanies(run.work, s)]
      /\ run.work \in Databases /\ Constrained(run.work) /\ run.locked \in BOOLEAN
  BY <1>1 DEF RunOK, Statement, Invocations
<1>4. After(run.work, s) \in Databases /\ Constrained(After(run.work, s))
  BY <1>1, <1>2, <1>3, AfterTyped, StatementKeeps
<1>5. After(run.work, s).schema = SchemaAfter(run.work.schema, s)
  BY DEF After
<1>6. Result(SchemaAfter(run.work.schema, s), Tail(run.todo)) = Built(run.at)
  BY <1>1, <1>2, ResultStep DEF RunOK
<1> HIDE DEF s
<1>7. /\ run' \in Invocations
      /\ run'.at = run.at /\ run'.todo = Tail(run.todo) /\ run'.work = After(run.work, s)
      /\ ~run'.locked => ~run.locked /\ ~LocksCompanies(run.work, s)
  <2>1. (run.locked \/ LocksCompanies(run.work, s)) \in BOOLEAN
    BY <1>3
  <2> QED
    BY <1>1, <1>2, <1>3, <1>4, <2>1 DEF RunOK, Invocations
<1>8. ASSUME ~run'.locked
      PROVE  Unlocked(run)'
  <2>1. Unlocked(run) /\ ~LocksCompanies(run.work, s)
    BY <1>1, <1>7, <1>8 DEF RunOK
  <2>2. Rows(run.work) = Rows(db)
    BY <2>1 DEF Rows, Unlocked
  <2>3. "organization_id" \in Names(run.work.schema) => \A c \in Rows(run.work) : run.work.companies[c].org # NoOrg
    BY <2>1, <2>2, OwnedOnceTenant DEF Unlocked, CompanyParts
  <2>4. /\ After(run.work, s).companies = run.work.companies
        /\ "fk_companies_organizations" \in Names(run.work.schema) => run.work.orgs \subseteq After(run.work, s).orgs
        /\ Names(After(run.work, s).schema) \cap CompanyParts = Names(run.work.schema) \cap CompanyParts
    BY <1>1, <1>2, <1>3, <2>1, <2>3, UnlockedKeeps
  <2>5. version >= 2 => "fk_companies_organizations" \in Names(run.work.schema)
    BY <2>1, BuiltNames DEF MigrationsInv, Unlocked, CompanyParts
  <2> QED
    BY <1>1, <1>7, <2>1, <2>4, <2>5 DEF Unlocked
<1>9. RunOK(run)'
  BY <1>4, <1>5, <1>6, <1>7, <1>8 DEF RunOK
<1> QED
  BY <1>1, <1>9 DEF MigrationsInv

LEMMA CommitKeeps ==
    ASSUME MigrationsInv, Commit
    PROVE  MigrationsInv'
<1>1. RunOK(run) /\ run.todo = <<>> /\ run.at = run.to
  BY DEF MigrationsInv, Commit
<1>2. version' = run.to /\ db' = run.work /\ run' = NoRun
  BY DEF Commit
<1>3. run.work.schema = Built(run.to)
  BY <1>1, ResultOfNothing DEF RunOK
<1> QED
  BY <1>1, <1>2, <1>3 DEF MigrationsInv, RunOK, Invocations

\* The application writes only while the migration has locked nothing, so that what
\* it writes satisfies the constraints both have.
LEMMA AddOrganizationKeeps ==
    ASSUME MigrationsInv, NEW o \in Organizations, AddOrganization(o)
    PROVE  MigrationsInv' /\ (run # NoRun => RunOK(run)')
<1>1. {o} \in SUBSET Owners
  BY DEF Owners
<1>2. /\ Writable /\ UNCHANGED version
      /\ db' = Inserted(db, {o}, <<>>)
      /\ run' = IF run = NoRun THEN NoRun ELSE [run EXCEPT !.work = Inserted(@, {o}, <<>>)]
  BY DEF AddOrganization, Writes
<1>3. db \in Databases /\ Constrained(db)
  BY DEF MigrationsInv
<1>4. /\ db' \in Databases /\ Constrained(db')
      /\ db'.schema = db.schema /\ db'.companies = db.companies /\ db'.orgs = db.orgs \cup {o}
  BY <1>1, <1>2, <1>3, OrganizationsAdded
<1>5. ASSUME run # NoRun
      PROVE  RunOK(run)'
  <2>1. run # NoRun /\ RunOK(run) /\ ~run.locked /\ Unlocked(run)
    BY <1>2, <1>5 DEF MigrationsInv, Writable, RunOK
  <2>2. run \in Invocations /\ run.work \in Databases /\ Constrained(run.work)
    BY <2>1 DEF RunOK, Invocations
  <2> DEFINE new == Inserted(run.work, {o}, <<>>)
  <2>3. /\ new \in Databases /\ Constrained(new)
        /\ new.schema = run.work.schema /\ new.companies = run.work.companies
        /\ new.orgs = run.work.orgs \cup {o}
    BY <1>1, <2>2, OrganizationsAdded
  <2>4. run' = [run EXCEPT !.work = new]
    BY <1>2, <2>1
  <2> HIDE DEF new
  <2>5. /\ run' \in Invocations
        /\ run'.at = run.at /\ run'.todo = run.todo /\ run'.work = new /\ run'.locked = run.locked
    BY <2>2, <2>3, <2>4 DEF Invocations
  <2>6. Unlocked(run)'
    BY <1>2, <1>4, <2>1, <2>3, <2>5 DEF Unlocked
  <2> QED
    BY <2>1, <2>3, <2>5, <2>6 DEF RunOK
<1> QED
  BY <1>2, <1>4, <1>5 DEF MigrationsInv

LEMMA AddCompanyKeeps ==
    ASSUME MigrationsInv, NEW c \in Companies, NEW org \in Owners \cup {NoOrg}, NEW l \in Listings,
           AddCompany(c, org, l)
    PROVE  MigrationsInv' /\ (run # NoRun => RunOK(run)')
<1> DEFINE company == [org |-> org, listing |-> l]
           row == [k \in {c} |-> company]
<1>1. /\ version >= 1
      /\ IF version >= 2 THEN org \in db.orgs ELSE org = NoOrg
      /\ \A k \in Rows(db) : db.companies[k] # company
      /\ Writable /\ UNCHANGED version
      /\ db' = Inserted(db, {}, row)
      /\ run' = IF run = NoRun THEN NoRun ELSE [run EXCEPT !.work = Inserted(@, {}, row)]
  BY DEF AddCompany, Writes
<1>2. db \in Databases /\ Constrained(db) /\ version \in 1..7
  BY <1>1 DEF MigrationsInv
<1>3. /\ company \in Company
      /\ company.org = org /\ row = [k \in {c} |-> company]
  BY DEF Company
<1>4. /\ "companies" \in Names(db.schema)
      /\ "organization_id" \notin Names(db.schema) => version = 1
      /\ "fk_companies_organizations" \in Names(db.schema) => version >= 2
      /\ "uq_companies_exchange" \in Names(db.schema) => "organization_id" \notin Names(db.schema)
  BY <1>2, BuiltNames DEF MigrationsInv
<1> HIDE DEF company, row
<1>5. /\ db' \in Databases /\ Constrained(db')
      /\ db'.schema = db.schema /\ db'.companies = [db.companies EXCEPT ![c] = company] /\ db'.orgs = db.orgs
  BY <1>1, <1>2, <1>3, <1>4, CompanyAdded
<1>6. ASSUME run # NoRun
      PROVE  RunOK(run)'
  <2>1. run # NoRun /\ RunOK(run) /\ ~run.locked /\ Unlocked(run)
    BY <1>1, <1>6 DEF MigrationsInv, Writable, RunOK
  <2>2. run \in Invocations /\ run.work \in Databases /\ Constrained(run.work)
    BY <2>1 DEF RunOK, Invocations
  <2>3. /\ Rows(run.work) = Rows(db) /\ run.work.companies = db.companies
        /\ version >= 2 => db.orgs \subseteq run.work.orgs
        /\ \A name \in CompanyParts : name \in Names(run.work.schema) <=> name \in Names(db.schema)
    BY <2>1 DEF Unlocked, Rows
  <2>4. /\ "companies" \in Names(run.work.schema)
        /\ "organization_id" \notin Names(run.work.schema) => company.org = NoOrg
        /\ "fk_companies_organizations" \in Names(run.work.schema) => company.org \in run.work.orgs
        /\ "uq_companies_exchange" \in Names(run.work.schema) => "organization_id" \notin Names(run.work.schema)
    BY <1>1, <1>3, <1>4, <2>3 DEF CompanyParts
  <2> DEFINE new == Inserted(run.work, {}, row)
  <2>5. /\ new \in Databases /\ Constrained(new)
        /\ new.schema = run.work.schema /\ new.orgs = run.work.orgs
        /\ new.companies = [run.work.companies EXCEPT ![c] = company]
    BY <1>1, <1>3, <2>2, <2>3, <2>4, CompanyAdded
  <2>6. run' = [run EXCEPT !.work = new]
    BY <1>1, <2>1
  <2> HIDE DEF new
  <2>7. /\ run' \in Invocations
        /\ run'.at = run.at /\ run'.todo = run.todo /\ run'.work = new /\ run'.locked = run.locked
    BY <2>2, <2>5, <2>6 DEF Invocations
  <2>8. Unlocked(run)'
    BY <1>1, <1>5, <2>1, <2>5, <2>7 DEF Unlocked
  <2> QED
    BY <2>1, <2>5, <2>7, <2>8 DEF RunOK
<1> QED
  BY <1>1, <1>5, <1>6 DEF MigrationsInv

LEMMA MigrationsNext == MigrationsInv /\ [Next]_vars => MigrationsInv'
<1> SUFFICES ASSUME MigrationsInv, [Next]_vars
             PROVE  MigrationsInv'
  OBVIOUS
<1>1. CASE \E to \in 0..7 : Invoke(to)
  BY <1>1, InvokeKeeps
<1>2. CASE NextUpgrade \/ NextDowngrade
  BY <1>2, NextRevisionKeeps
<1>3. CASE Statement
  BY <1>3, StatementStepKeeps
<1>4. CASE Commit
  BY <1>4, CommitKeeps
<1>5. CASE Fails \/ Dies
  BY <1>5 DEF Fails, Dies, RolledBack, MigrationsInv
<1>6. CASE \E o \in Organizations : AddOrganization(o)
  BY <1>6, AddOrganizationKeeps
<1>7. CASE \E c \in Companies, org \in Owners \cup {NoOrg}, l \in Listings : AddCompany(c, org, l)
  BY <1>7, AddCompanyKeeps
<1>8. CASE UNCHANGED vars
  BY <1>8 DEF vars, MigrationsInv, RunOK, Unlocked
<1> QED
  BY <1>1, <1>2, <1>3, <1>4, <1>5, <1>6, <1>7, <1>8 DEF Next

\* Whatever upgrades, downgrades, failures and writes of the application came before,
\* the schema is what the revisions up to the version make; from 0002 on every company
\* has an owner that exists and no owner has a listing twice.
THEOREM SchemaFollowsVersion == Spec => []DatabaseFollowsVersion
<1>1. MigrationsInv => DatabaseFollowsVersion
  <2> SUFFICES ASSUME MigrationsInv
               PROVE  DatabaseFollowsVersion
    OBVIOUS
  <2>1. \A name \in Names(Built(version)) : Satisfied(db, name)
    BY DEF MigrationsInv, Constrained
  <2>2. ASSUME version >= 2
        PROVE  /\ \A c \in Rows(db) : db.companies[c].org \in db.orgs
               /\ Admits(db, "uq_companies_organization_id")
    BY <2>1, <2>2, BuiltNames, SatisfiedIs DEF MigrationsInv
  <2>3. ASSUME version = 1
        PROVE  Admits(db, "uq_companies_exchange")
    BY <2>1, <2>3, BuiltNames, SatisfiedIs DEF MigrationsInv
  <2> QED
    BY <2>2, <2>3 DEF MigrationsInv, DatabaseFollowsVersion
<1> QED
  BY <1>1, MigrationsInit, MigrationsNext, PTL DEF Spec

-------------------------------------------------------------------------------
(* Scripts that the schema lets run                                          *)

\* What Runs asks of the schema, not of the rows.
Fits(schema, s) ==
    CASE s.do = "create" ->
           /\ Names(s.objects) \cap Names(schema) = {}
           /\ \A o \in s.objects : o.needs \subseteq Names(schema) \cup Names(s.objects)
      [] s.do = "drop" ->
           /\ s.name \in Names(schema)
           /\ \A o \in schema : s.name \in o.needs => o.of = s.name
      [] s.do = "drop_type" -> \A o \in schema : s.name \in o.needs => o.of = s.name
      [] s.do = "insert_bootstrap" -> "organizations" \in Names(schema)
      [] s.do \in {"backfill", "not_null"} -> "organization_id" \in Names(schema)
      [] OTHER -> TRUE

\* No statement from the m-th on and before the i-th removes the object.
Lasts(script, m, i, o) == \A j \in DOMAIN script : m <= j /\ j < i => ~Removes(script[j], o)

\* The schema that the i-th statement of the script meets.
Before(schema, script, i) ==
    {o \in schema : Lasts(script, 1, i, o)}
        \cup UNION {{o \in Made(script[m]) : Lasts(script, m, i, o)} : m \in {n \in DOMAIN script : n < i}}

Runnable(schema, script) == \A i \in DOMAIN script : Fits(Before(schema, script, i), script[i])

LEMMA RunnableNothing == \A schema : Runnable(schema, <<>>)
BY DEF Runnable

\* The first statement fits, and so does the rest after it.
LEMMA RunnableStep ==
    ASSUME NEW X, NEW script \in Seq(X), script # <<>>, NEW schema, Runnable(schema, script)
    PROVE  /\ Fits(schema, Head(script))
           /\ Runnable(SchemaAfter(schema, Head(script)), Tail(script))
<1> DEFINE first == Head(script)
           rest == Tail(script)
<1>1. /\ 1 \in DOMAIN script /\ script[1] = first
      /\ \A i \in DOMAIN rest : i + 1 \in DOMAIN script /\ rest[i] = script[i + 1]
      /\ \A i \in DOMAIN script : i \in Nat /\ i >= 1
      /\ \A i \in DOMAIN script : i # 1 => i - 1 \in DOMAIN rest
      /\ \A i \in DOMAIN rest : i \in Nat /\ i >= 1
  OBVIOUS
<1> HIDE DEF first, rest
<1>2. Before(schema, script, 1) = schema
  <2>1. \A o : Lasts(script, 1, 1, o)
    BY <1>1 DEF Lasts
  <2>2. {n \in DOMAIN script : n < 1} = {}
    BY <1>1
  <2> QED
    BY <2>1, <2>2 DEF Before
<1>3. ASSUME NEW m \in Nat, m >= 1, NEW i \in Nat, NEW o
      PROVE  Lasts(rest, m, i, o) <=> Lasts(script, m + 1, i + 1, o)
  <2>1. ASSUME Lasts(rest, m, i, o), NEW j \in DOMAIN script, m + 1 <= j, j < i + 1
        PROVE  ~Removes(script[j], o)
    <3>1. j \in Nat /\ j # 1 /\ j - 1 \in DOMAIN rest /\ m <= j - 1 /\ j - 1 < i
      BY <1>1, <1>3, <2>1
    <3>2. rest[j - 1] = script[j]
      BY <1>1, <3>1
    <3> QED
      BY <2>1, <3>1, <3>2 DEF Lasts
  <2>2. ASSUME Lasts(script, m + 1, i + 1, o), NEW j \in DOMAIN rest, m <= j, j < i
        PROVE  ~Removes(rest[j], o)
    <3>1. j + 1 \in DOMAIN script /\ m + 1 <= j + 1 /\ j + 1 < i + 1 /\ rest[j] = script[j + 1]
      BY <1>1, <2>2
    <3> QED
      BY <2>2, <3>1 DEF Lasts
  <2> QED
    BY <2>1, <2>2 DEF Lasts
<1>4. ASSUME NEW i \in Nat, i >= 1, NEW o
      PROVE  Lasts(script, 1, i + 1, o) <=> ~Removes(first, o) /\ Lasts(script, 2, i + 1, o)
  BY <1>1, <1>4 DEF Lasts
<1>5. ASSUME NEW i \in DOMAIN rest
      PROVE  Before(SchemaAfter(schema, first), rest, i) = Before(schema, script, i + 1)
  <2>1. i \in Nat /\ i >= 1
    BY <1>1
  <2>2. ASSUME NEW o \in Before(SchemaAfter(schema, first), rest, i)
        PROVE  o \in Before(schema, script, i + 1)
    <3>1. CASE o \in SchemaAfter(schema, first) /\ Lasts(rest, 1, i, o)
      <4>1. ~Removes(first, o) /\ Lasts(script, 2, i + 1, o)
        BY <1>3, <2>1, <3>1 DEF SchemaAfter
      <4>2. Lasts(script, 1, i + 1, o)
        BY <1>4, <2>1, <4>1
      <4>3. o \in schema \/ o \in Made(script[1])
        BY <1>1, <3>1 DEF SchemaAfter
      <4>4. 1 \in {n \in DOMAIN script : n < i + 1}
        BY <1>1, <2>1
      <4> QED
        BY <4>2, <4>3, <4>4 DEF Before
    <3>2. ASSUME NEW m \in DOMAIN rest, m < i, o \in Made(rest[m]), Lasts(rest, m, i, o)
          PROVE  o \in Before(schema, script, i + 1)
      <4>1. m \in Nat /\ m >= 1 /\ m + 1 \in {n \in DOMAIN script : n < i + 1}
        BY <1>1, <2>1, <3>2
      <4>2. o \in Made(script[m + 1]) /\ Lasts(script, m + 1, i + 1, o)
        BY <1>1, <1>3, <2>1, <3>2, <4>1
      <4> QED
        BY <4>1, <4>2 DEF Before
    <3> QED
      BY <2>2, <3>1, <3>2 DEF Before
  <2>3. ASSUME NEW o \in Before(schema, script, i + 1)
        PROVE  o \in Before(SchemaAfter(schema, first), rest, i)
    <3>1. CASE o \in schema /\ Lasts(script, 1, i + 1, o)
      <4>1. o \in SchemaAfter(schema, first) /\ Lasts(rest, 1, i, o)
        BY <1>3, <1>4, <2>1, <3>1 DEF SchemaAfter
      <4> QED
        BY <4>1 DEF Before
    <3>2. ASSUME NEW m \in DOMAIN script, m < i + 1, o \in Made(script[m]), Lasts(script, m, i + 1, o)
          PROVE  o \in Before(SchemaAfter(schema, first), rest, i)
      <4>1. CASE m = 1
        <5>1. o \in Made(first) /\ ~Removes(first, o) /\ Lasts(rest, 1, i, o)
          BY <1>1, <1>3, <1>4, <2>1, <3>2, <4>1
        <5> QED
          BY <5>1 DEF Before, SchemaAfter
      <4>2. CASE m # 1
        <5>1. m \in Nat /\ m - 1 \in DOMAIN rest /\ m - 1 >= 1 /\ m - 1 < i /\ m - 1 \in Nat
          BY <1>1, <2>1, <3>2, <4>2
        <5>2. rest[m - 1] = script[m] /\ (m - 1) + 1 = m
          BY <1>1, <5>1
        <5>3. o \in Made(rest[m - 1]) /\ Lasts(rest, m - 1, i, o)
          BY <1>3, <2>1, <3>2, <5>1, <5>2
        <5> QED
          BY <5>1, <5>3 DEF Before
      <4> QED
        BY <4>1, <4>2
    <3> QED
      BY <2>3, <3>1, <3>2 DEF Before
  <2> QED
    BY <2>2, <2>3
<1>6. Fits(schema, first)
  BY <1>1, <1>2 DEF Runnable
<1>7. ASSUME NEW i \in DOMAIN rest
      PROVE  Fits(Before(SchemaAfter(schema, first), rest, i), rest[i])
  BY <1>1, <1>5, <1>7 DEF Runnable
<1>8. Runnable(SchemaAfter(schema, first), rest)
  BY <1>7 DEF Runnable
<1> QED
  BY <1>6, <1>8 DEF first, rest

-------------------------------------------------------------------------------
(* What the statements make, object by object                                *)

\* An object that stands for itself: a table or a type.
Whole(name, needs) == [name |-> name, of |-> name, needs |-> needs]

CompaniesMakes ==
    <<{Whole("companies", {}), Exchange, Part("uq_companies_isin", "companies", {})},
      {Part("ix_companies_name", "companies", {})}>>

TenancyMakes ==
    <<{Whole("membership_role", {})},
      {Whole("organizations", {}), Part("uq_organizations_slug", "organizations", {})},
      {Whole("users", {}), Part("uq_users_email", "users", {})},
      {Whole("memberships", {"organizations", "users", "membership_role"})},
      {},
      {Part("organization_id", "companies", {})},
      {}, {},
      {Part("fk_companies_organizations", "companies", {"organization_id", "organizations"})},
      {},
      {Part("uq_companies_organization_id", "companies", {"organization_id"})},
      {Part("ix_companies_organization_id", "companies", {})}>>

ResearchMakes ==
    <<{Whole("research_status", {})}, {Whole("datasource_type", {})}, {Whole("datasource_status", {})},
      {Whole("import_job_status", {})},
      {Whole("researches", {"organizations", "research_status"})},
      {Part("ix_researches_organization_id", "researches", {})},
      {Whole("datasources", {"organizations", "researches", "datasource_type", "datasource_status"}),
       Part("uq_datasources_id_organization_id_research_id", "datasources", {})},
      {Part("ix_datasources_organization_id", "datasources", {})},
      {Part("ix_datasources_research_id", "datasources", {})},
      {Whole("import_jobs", {"organizations", "researches", "import_job_status",
                             "uq_datasources_id_organization_id_research_id"})},
      {Part("ix_import_jobs_datasource_id", "import_jobs", {})},
      {Part("ix_import_jobs_organization_id", "import_jobs", {})},
      {Part("ix_import_jobs_research_id", "import_jobs", {})},
      {Part("ix_import_jobs_status", "import_jobs", {})},
      {Part("ix_import_jobs_organization_id_datasource_id", "import_jobs", {})}>>

FilesMakes ==
    <<{Whole("uploaded_file_status", {})},
      {Part("uq_datasources_id_organization_id", "datasources", {})},
      {Whole("uploaded_files", {"organizations", "uploaded_file_status", "uq_datasources_id_organization_id"})},
      {Part("ix_uploaded_files_organization_id", "uploaded_files", {})},
      {Part("ix_uploaded_files_datasource_id", "uploaded_files", {})}>>

MappingMakes ==
    <<{Part("uploaded_file_id", "import_jobs", {})},
      {Part("configuration", "import_jobs", {})},
      {Part("fk_import_jobs_uploaded_files", "import_jobs", {"uploaded_file_id", "uploaded_files"})},
      {Part("ix_import_jobs_uploaded_file_id", "import_jobs", {"uploaded_file_id"})}>>

RecordsMakes ==
    <<{Whole("imported_records", {"import_jobs"})},
      {Part("ix_imported_records_import_job_id", "imported_records", {})},
      {Part("ix_imported_records_organization_datasource", "imported_records", {})}>>

IssuesMakes ==
    <<{Whole("import_validation_issues", {"import_jobs"})},
      {Part("ix_import_validation_issues_import_job_order", "import_validation_issues", {})}>>

\* makes[i] is what the i-th statement of the script makes.
Describes(makes, script) ==
    /\ DOMAIN makes = DOMAIN script
    /\ \A i \in DOMAIN script : Made(script[i]) = makes[i]

LEMMA MadeBySort ==
    /\ \A name, table : Made(Index(name, table)) = {Part(name, table, {})}
    /\ \A name : Made(Type(name)) = {Whole(name, {})}
    /\ \A name, needs : Made(Table(name, needs, {})) = {Whole(name, needs)}
    /\ \A name, needs, p : Made(Table(name, needs, {p})) = {Whole(name, needs), p}
    /\ \A objects : Made(Create(objects)) = objects
    /\ \A name : Made(Drop(name)) = {} /\ Made(DropType(name)) = {}
    /\ \A what : what \notin {"create", "create_type"} => Made(Execute(what)) = {}
BY DEF Made, Index, Type, Table, Create, Drop, DropType, Execute, Whole

LEMMA CompaniesDescribed == Describes(CompaniesMakes, UpgradeCompanies)
<1>1. DOMAIN UpgradeCompanies = 1..2 /\ DOMAIN CompaniesMakes = 1..2
  BY DEF UpgradeCompanies, CompaniesMakes
<1>2. /\ Made(UpgradeCompanies[1]) = CompaniesMakes[1]
      /\ Made(UpgradeCompanies[2]) = CompaniesMakes[2]
  BY DEF UpgradeCompanies, CompaniesMakes, Exchange, Made, Table, Index, Create, Whole
<1> QED
  BY <1>1, <1>2 DEF Describes

LEMMA TenancyDescribed == Describes(TenancyMakes, UpgradeTenancy)
<1>1. DOMAIN UpgradeTenancy = 1..12 /\ DOMAIN TenancyMakes = 1..12
  BY DEF UpgradeTenancy, TenancyMakes
<1>2. /\ Made(UpgradeTenancy[1]) = TenancyMakes[1]
      /\ Made(UpgradeTenancy[4]) = TenancyMakes[4]
  BY MadeBySort DEF UpgradeTenancy, TenancyMakes
<1>5. /\ Made(UpgradeTenancy[2]) = TenancyMakes[2]
      /\ Made(UpgradeTenancy[3]) = TenancyMakes[3]
  BY DEF UpgradeTenancy, TenancyMakes, Made, Table, Create, Whole
<1>3. /\ Made(UpgradeTenancy[5]) = TenancyMakes[5]
      /\ Made(UpgradeTenancy[7]) = TenancyMakes[7]
      /\ Made(UpgradeTenancy[8]) = TenancyMakes[8]
      /\ Made(UpgradeTenancy[10]) = TenancyMakes[10]
  BY MadeBySort DEF UpgradeTenancy, TenancyMakes
<1>4. /\ Made(UpgradeTenancy[6]) = TenancyMakes[6]
      /\ Made(UpgradeTenancy[9]) = TenancyMakes[9]
      /\ Made(UpgradeTenancy[11]) = TenancyMakes[11]
      /\ Made(UpgradeTenancy[12]) = TenancyMakes[12]
  BY MadeBySort DEF UpgradeTenancy, TenancyMakes
<1> QED
  BY <1>1, <1>2, <1>3, <1>4, <1>5 DEF Describes

LEMMA ResearchDescribed == Describes(ResearchMakes, UpgradeResearch)
<1>1. DOMAIN UpgradeResearch = 1..15 /\ DOMAIN ResearchMakes = 1..15
  BY DEF UpgradeResearch, ResearchMakes
<1>2. /\ Made(UpgradeResearch[1]) = ResearchMakes[1]
      /\ Made(UpgradeResearch[2]) = ResearchMakes[2]
      /\ Made(UpgradeResearch[3]) = ResearchMakes[3]
      /\ Made(UpgradeResearch[4]) = ResearchMakes[4]
  BY MadeBySort DEF UpgradeResearch, ResearchMakes
<1>3. /\ Made(UpgradeResearch[5]) = ResearchMakes[5]
      /\ Made(UpgradeResearch[7]) = ResearchMakes[7]
      /\ Made(UpgradeResearch[10]) = ResearchMakes[10]
  BY DEF UpgradeResearch, ResearchMakes, Made, Table, Create, Whole
<1>4. /\ Made(UpgradeResearch[6]) = ResearchMakes[6]
      /\ Made(UpgradeResearch[8]) = ResearchMakes[8]
      /\ Made(UpgradeResearch[9]) = ResearchMakes[9]
      /\ Made(UpgradeResearch[11]) = ResearchMakes[11]
      /\ Made(UpgradeResearch[12]) = ResearchMakes[12]
      /\ Made(UpgradeResearch[13]) = ResearchMakes[13]
      /\ Made(UpgradeResearch[14]) = ResearchMakes[14]
      /\ Made(UpgradeResearch[15]) = ResearchMakes[15]
  BY MadeBySort DEF UpgradeResearch, ResearchMakes
<1> QED
  BY <1>1, <1>2, <1>3, <1>4 DEF Describes

LEMMA FilesDescribed == Describes(FilesMakes, UpgradeFiles)
<1>1. DOMAIN UpgradeFiles = 1..5 /\ DOMAIN FilesMakes = 1..5
  BY DEF UpgradeFiles, FilesMakes
<1>2. /\ Made(UpgradeFiles[1]) = FilesMakes[1]
      /\ Made(UpgradeFiles[2]) = FilesMakes[2]
      /\ Made(UpgradeFiles[3]) = FilesMakes[3]
      /\ Made(UpgradeFiles[4]) = FilesMakes[4]
      /\ Made(UpgradeFiles[5]) = FilesMakes[5]
  BY MadeBySort DEF UpgradeFiles, FilesMakes
<1> QED
  BY <1>1, <1>2 DEF Describes

LEMMA MappingDescribed == Describes(MappingMakes, UpgradeMapping)
<1>1. DOMAIN UpgradeMapping = 1..4 /\ DOMAIN MappingMakes = 1..4
  BY DEF UpgradeMapping, MappingMakes
<1>2. /\ Made(UpgradeMapping[1]) = MappingMakes[1]
      /\ Made(UpgradeMapping[2]) = MappingMakes[2]
      /\ Made(UpgradeMapping[3]) = MappingMakes[3]
      /\ Made(UpgradeMapping[4]) = MappingMakes[4]
  BY MadeBySort DEF UpgradeMapping, MappingMakes
<1> QED
  BY <1>1, <1>2 DEF Describes

LEMMA RecordsDescribed == Describes(RecordsMakes, UpgradeRecords)
<1>1. DOMAIN UpgradeRecords = 1..3 /\ DOMAIN RecordsMakes = 1..3
  BY DEF UpgradeRecords, RecordsMakes
<1>2. /\ Made(UpgradeRecords[1]) = RecordsMakes[1]
      /\ Made(UpgradeRecords[2]) = RecordsMakes[2]
      /\ Made(UpgradeRecords[3]) = RecordsMakes[3]
  BY MadeBySort DEF UpgradeRecords, RecordsMakes
<1> QED
  BY <1>1, <1>2 DEF Describes

LEMMA IssuesDescribed == Describes(IssuesMakes, UpgradeIssues)
<1>1. DOMAIN UpgradeIssues = 1..2 /\ DOMAIN IssuesMakes = 1..2
  BY DEF UpgradeIssues, IssuesMakes
<1>2. /\ Made(UpgradeIssues[1]) = IssuesMakes[1]
      /\ Made(UpgradeIssues[2]) = IssuesMakes[2]
  BY MadeBySort DEF UpgradeIssues, IssuesMakes
<1> QED
  BY <1>1, <1>2 DEF Describes

-------------------------------------------------------------------------------
(* Each statement finds what it needs                                        *)

LEMMA PartsAre ==
    /\ \A name, table, needs : /\ Part(name, table, needs).name = name
                               /\ Part(name, table, needs).of = table
                               /\ Part(name, table, needs).needs = needs \cup {table}
    /\ \A name, needs : /\ Whole(name, needs).name = name
                        /\ Whole(name, needs).of = name
                        /\ Whole(name, needs).needs = needs
BY DEF Part, Whole

\* No two statements make objects of the same name.
Distinct(makes) ==
    \A i, j \in DOMAIN makes : \A o \in makes[i], p \in makes[j] : o.name = p.name => i = j

\* What an object needs is there already, or comes with it.
Supplied(makes, old) ==
    \A i \in DOMAIN makes : \A o \in makes[i] : \A name \in o.needs :
        name \in old \/ \E j \in DOMAIN makes : j <= i /\ \E p \in makes[j] : p.name = name

\* The script drops the object before its i-th statement.
Gone(script, i, o) == \E j \in DOMAIN script : j < i /\ Removes(script[j], o)

\* What needs an object that is dropped went before it, or goes with it.
Released(makes, script) ==
    \A i \in DOMAIN makes : \A o \in makes[i] : \A j \in DOMAIN script :
        script[j].do \in {"drop", "drop_type"} /\ script[j].name \in o.needs =>
            o.of = script[j].name \/ Gone(script, j, o)

\* An object that a downgrade drops has not gone with its table.
Standing(makes, script) ==
    \A i \in DOMAIN makes : \A o \in makes[i] : \A j \in DOMAIN script :
        script[j].do = "drop" /\ o.name = script[j].name => ~Gone(script, j, o)

\* There is an object of each name.
Complete(makes, new) == \A name \in new : \E i \in DOMAIN makes : \E o \in makes[i] : o.name = name

\* What a revision needs of those before it.
Old == <<{}, {"companies"}, {"organizations"}, {"organizations", "datasources"}, {"import_jobs", "uploaded_files"},
         {"import_jobs"}, {"import_jobs"}>>

Consistent(makes, old, new, script) ==
    /\ Distinct(makes) /\ Supplied(makes, old) /\ Complete(makes, new)
    /\ Released(makes, script) /\ Standing(makes, script)

LEMMA CompaniesConsistent == Consistent(CompaniesMakes, {}, NewCompanies, DowngradeCompanies)
<1>1. DOMAIN CompaniesMakes = 1..2
  BY DEF CompaniesMakes
<1>2. Distinct(CompaniesMakes)
  BY <1>1, PartsAre DEF Distinct, CompaniesMakes, Exchange
<1>3. Supplied(CompaniesMakes, {})
  BY <1>1, PartsAre DEF Supplied, CompaniesMakes, Exchange
<1>4. Released(CompaniesMakes, DowngradeCompanies)
  BY <1>1 DEF Released, Gone, Removes, CompaniesMakes, DowngradeCompanies, Whole, Part, Drop, DropType, Exchange
<1>5. Standing(CompaniesMakes, DowngradeCompanies)
  BY <1>1 DEF Standing, Gone, Removes, CompaniesMakes, DowngradeCompanies, Whole, Part, Drop, DropType, Exchange
<1>6. Complete(CompaniesMakes, NewCompanies)
  BY <1>1, PartsAre DEF Complete, NewCompanies, CompaniesMakes, Exchange
<1> QED
  BY <1>2, <1>3, <1>4, <1>5, <1>6 DEF Consistent

LEMMA TenancyConsistent == Consistent(TenancyMakes, {"companies"}, NewTenancy, DowngradeTenancy)
<1>1. DOMAIN TenancyMakes = 1..12
  BY DEF TenancyMakes
<1>2. Distinct(TenancyMakes)
  BY <1>1, PartsAre DEF Distinct, TenancyMakes
<1>3. Supplied(TenancyMakes, {"companies"})
  BY <1>1, PartsAre DEF Supplied, TenancyMakes
<1>4. Released(TenancyMakes, DowngradeTenancy)
  BY <1>1 DEF Released, Gone, Removes, TenancyMakes, DowngradeTenancy, Whole, Part, Drop, DropType, Create
<1>5. Standing(TenancyMakes, DowngradeTenancy)
  BY <1>1 DEF Standing, Gone, Removes, TenancyMakes, DowngradeTenancy, Whole, Part, Drop, DropType, Create
<1>6. Complete(TenancyMakes, NewTenancy)
  BY <1>1, PartsAre DEF Complete, NewTenancy, TenancyMakes
<1> QED
  BY <1>2, <1>3, <1>4, <1>5, <1>6 DEF Consistent

LEMMA ResearchConsistent == Consistent(ResearchMakes, {"organizations"}, NewResearch, DowngradeResearch)
<1>1. DOMAIN ResearchMakes = 1..15
  BY DEF ResearchMakes
<1>2. Distinct(ResearchMakes)
  BY <1>1, PartsAre DEF Distinct, ResearchMakes
<1>3. Supplied(ResearchMakes, {"organizations"})
  BY <1>1, PartsAre DEF Supplied, ResearchMakes
<1>4. Released(ResearchMakes, DowngradeResearch)
  BY <1>1 DEF Released, Gone, Removes, ResearchMakes, DowngradeResearch, Whole, Part, Drop, DropType
<1>5. Standing(ResearchMakes, DowngradeResearch)
  BY <1>1 DEF Standing, Gone, Removes, ResearchMakes, DowngradeResearch, Whole, Part, Drop, DropType
<1>6. Complete(ResearchMakes, NewResearch)
  BY <1>1, PartsAre DEF Complete, NewResearch, ResearchMakes
<1> QED
  BY <1>2, <1>3, <1>4, <1>5, <1>6 DEF Consistent

LEMMA FilesConsistent == Consistent(FilesMakes, {"organizations", "datasources"}, NewFiles, DowngradeFiles)
<1>1. DOMAIN FilesMakes = 1..5
  BY DEF FilesMakes
<1>2. Distinct(FilesMakes)
  BY <1>1, PartsAre DEF Distinct, FilesMakes
<1>3. Supplied(FilesMakes, {"organizations", "datasources"})
  BY <1>1, PartsAre DEF Supplied, FilesMakes
<1>4. Released(FilesMakes, DowngradeFiles)
  BY <1>1 DEF Released, Gone, Removes, FilesMakes, DowngradeFiles, Whole, Part, Drop, DropType
<1>5. Standing(FilesMakes, DowngradeFiles)
  BY <1>1 DEF Standing, Gone, Removes, FilesMakes, DowngradeFiles, Whole, Part, Drop, DropType
<1>6. Complete(FilesMakes, NewFiles)
  BY <1>1, PartsAre DEF Complete, NewFiles, FilesMakes
<1> QED
  BY <1>2, <1>3, <1>4, <1>5, <1>6 DEF Consistent

LEMMA MappingConsistent ==
    Consistent(MappingMakes, {"import_jobs", "uploaded_files"}, NewMapping, DowngradeMapping)
<1>1. DOMAIN MappingMakes = 1..4
  BY DEF MappingMakes
<1>2. Distinct(MappingMakes)
  BY <1>1, PartsAre DEF Distinct, MappingMakes
<1>3. Supplied(MappingMakes, {"import_jobs", "uploaded_files"})
  BY <1>1, PartsAre DEF Supplied, MappingMakes
<1>4. Released(MappingMakes, DowngradeMapping)
  BY <1>1 DEF Released, Gone, Removes, MappingMakes, DowngradeMapping, Whole, Part, Drop, DropType
<1>5. Standing(MappingMakes, DowngradeMapping)
  BY <1>1 DEF Standing, Gone, Removes, MappingMakes, DowngradeMapping, Whole, Part, Drop, DropType
<1>6. Complete(MappingMakes, NewMapping)
  BY <1>1, PartsAre DEF Complete, NewMapping, MappingMakes
<1> QED
  BY <1>2, <1>3, <1>4, <1>5, <1>6 DEF Consistent

LEMMA RecordsConsistent == Consistent(RecordsMakes, {"import_jobs"}, NewRecords, DowngradeRecords)
<1>1. DOMAIN RecordsMakes = 1..3
  BY DEF RecordsMakes
<1>2. Distinct(RecordsMakes)
  BY <1>1, PartsAre DEF Distinct, RecordsMakes
<1>3. Supplied(RecordsMakes, {"import_jobs"})
  BY <1>1, PartsAre DEF Supplied, RecordsMakes
<1>4. Released(RecordsMakes, DowngradeRecords)
  BY <1>1 DEF Released, Gone, Removes, RecordsMakes, DowngradeRecords, Whole, Part, Drop, DropType
<1>5. Standing(RecordsMakes, DowngradeRecords)
  BY <1>1 DEF Standing, Gone, Removes, RecordsMakes, DowngradeRecords, Whole, Part, Drop, DropType
<1>6. Complete(RecordsMakes, NewRecords)
  BY <1>1, PartsAre DEF Complete, NewRecords, RecordsMakes
<1> QED
  BY <1>2, <1>3, <1>4, <1>5, <1>6 DEF Consistent

LEMMA IssuesConsistent == Consistent(IssuesMakes, {"import_jobs"}, NewIssues, DowngradeIssues)
<1>1. DOMAIN IssuesMakes = 1..2
  BY DEF IssuesMakes
<1>2. Distinct(IssuesMakes)
  BY <1>1, PartsAre DEF Distinct, IssuesMakes
<1>3. Supplied(IssuesMakes, {"import_jobs"})
  BY <1>1, PartsAre DEF Supplied, IssuesMakes
<1>4. Released(IssuesMakes, DowngradeIssues)
  BY <1>1 DEF Released, Gone, Removes, IssuesMakes, DowngradeIssues, Whole, Part, Drop, DropType
<1>5. Standing(IssuesMakes, DowngradeIssues)
  BY <1>1 DEF Standing, Gone, Removes, IssuesMakes, DowngradeIssues, Whole, Part, Drop, DropType
<1>6. Complete(IssuesMakes, NewIssues)
  BY <1>1, PartsAre DEF Complete, NewIssues, IssuesMakes
<1> QED
  BY <1>2, <1>3, <1>4, <1>5, <1>6 DEF Consistent

Makes == <<CompaniesMakes, TenancyMakes, ResearchMakes, FilesMakes, MappingMakes, RecordsMakes, IssuesMakes>>

LEMMA MakesConsistent ==
    \A k \in 1..7 :
        Describes(Makes[k], Upgrade[k]) /\ Consistent(Makes[k], Old[k], New[k], Downgrade[k])
<1>1. /\ Makes[1] = CompaniesMakes /\ Makes[2] = TenancyMakes /\ Makes[3] = ResearchMakes
      /\ Makes[4] = FilesMakes /\ Makes[5] = MappingMakes /\ Makes[6] = RecordsMakes /\ Makes[7] = IssuesMakes
  BY DEF Makes
<1>2. /\ Old[1] = {} /\ Old[2] = {"companies"} /\ Old[3] = {"organizations"}
      /\ Old[4] = {"organizations", "datasources"} /\ Old[5] = {"import_jobs", "uploaded_files"}
      /\ Old[6] = {"import_jobs"} /\ Old[7] = {"import_jobs"}
  BY DEF Old
<1>3. \A k \in 1..7 : Describes(Makes[k], Upgrade[k])
  BY <1>1, ScriptsAre, CompaniesDescribed, TenancyDescribed, ResearchDescribed, FilesDescribed,
     MappingDescribed, RecordsDescribed, IssuesDescribed
<1>4. \A k \in 1..3 : Consistent(Makes[k], Old[k], New[k], Downgrade[k])
  BY <1>1, <1>2, NewAre, ScriptsAre, CompaniesConsistent, TenancyConsistent, ResearchConsistent
<1>5. \A k \in 4..7 : Consistent(Makes[k], Old[k], New[k], Downgrade[k])
  BY <1>1, <1>2, NewAre, ScriptsAre, FilesConsistent, MappingConsistent, RecordsConsistent, IssuesConsistent
<1> QED
  BY <1>3, <1>4, <1>5

LEMMA CreatesIs ==
    \A k \in 1..7 : \A o :
        o \in Creates(k) <=> \E i \in DOMAIN Makes[k] : o \in Makes[k][i]
BY MakesConsistent DEF Creates, Describes

LEMMA NamesCreated == \A k \in 1..7 : \A name \in New[k] : \E o \in Creates(k) : o.name = name
BY MakesConsistent, CreatesIs DEF Consistent, Complete

LEMMA OldAre ==
    /\ Old[1] = {} /\ Old[2] = {"companies"} /\ Old[3] = {"organizations"}
    /\ Old[4] = {"organizations", "datasources"} /\ Old[5] = {"import_jobs", "uploaded_files"}
    /\ Old[6] = {"import_jobs"} /\ Old[7] = {"import_jobs"}
BY DEF Old

\* What a revision needs of those before it is among what they leave.
LEMMA OldThere ==
    \A k \in 1..7 : \A name \in Old[k] :
        name \in Known(k - 1) /\ \E o \in Built(k - 1) : o.name = name /\ o.name # "uq_companies_exchange"
<1>1. /\ "companies" \in New[1] /\ "organizations" \in New[2] /\ "datasources" \in New[3]
      /\ "import_jobs" \in New[3] /\ "uploaded_files" \in New[4]
  BY NewAre DEF NewCompanies, NewTenancy, NewResearch, NewFiles
<1>2. ASSUME NEW k \in 1..7, NEW name \in Old[k]
      PROVE  name # "uq_companies_exchange" /\ \E m \in 1..7 : m < k /\ name \in New[m]
  BY <1>1, <1>2, OldAre
<1>3. ASSUME NEW k \in 1..7, NEW m \in 1..7, m < k, NEW name \in New[m], name # "uq_companies_exchange"
      PROVE  name \in Known(k - 1) /\ \E o \in Built(k - 1) : o.name = name
  <2>1. PICK o \in Creates(m) : o.name = name
    BY NamesCreated
  <2>2. m \in 1..(k - 1) /\ k - 1 \in 0..7
    BY <1>3
  <2>3. o \in AllCreated(k - 1)
    BY <2>2 DEF AllCreated
  <2> QED
    BY <1>3, <2>1, <2>2, <2>3, BuiltIs DEF Known
<1> QED
  BY <1>2, <1>3

\* An object needs what its revision or an earlier one made, and none the constraint on listings.
LEMMA NeedsKnown ==
    \A k \in 1..7 : \A o \in Creates(k) : o.needs \subseteq Known(k) /\ "uq_companies_exchange" \notin o.needs
<1>1. ASSUME NEW k \in 1..7, NEW o \in Creates(k), NEW name \in o.needs
      PROVE  name \in Old[k] \/ \E p \in Creates(k) : p.name = name
  BY MakesConsistent, CreatesIs DEF Consistent, Supplied, Describes
<1>2. ASSUME NEW k \in 1..7, NEW o \in Creates(k), NEW name \in o.needs
      PROVE  name \in Known(k) /\ (k >= 2 => name # "uq_companies_exchange")
  <2>1. CASE name \in Old[k]
    BY <2>1, OldThere DEF Known
  <2>2. CASE \E p \in Creates(k) : p.name = name
    BY <2>2, CreatesPartsOf, ExchangeIsFirst, KnownGrows DEF PartOf
  <2> QED
    BY <1>1, <1>2, <2>1, <2>2
<1>3. \A o \in Creates(1) : "uq_companies_exchange" \notin o.needs
  <2>1. DOMAIN CompaniesMakes = 1..2 /\ Makes[1] = CompaniesMakes
    BY DEF CompaniesMakes, Makes
  <2>2. \A i \in 1..2 : \A o \in CompaniesMakes[i] : "uq_companies_exchange" \notin o.needs
    BY PartsAre DEF CompaniesMakes, Exchange
  <2> QED
    BY <2>1, <2>2, CreatesIs
<1> QED
  BY <1>2, <1>3

LEMMA Positions ==
    \A k \in 1..7 :
        /\ \A i \in DOMAIN Upgrade[k] : i \in Nat /\ i >= 1
        /\ \A i \in DOMAIN Downgrade[k] : i \in Nat /\ i >= 1
<1>1. ASSUME NEW X, NEW script \in Seq(X), NEW i \in DOMAIN script
      PROVE  i \in Nat /\ i >= 1
  OBVIOUS
<1> QED
  BY <1>1, ScriptsOfStatements

\* What a statement of upgrade() meets: what was there, and what was made before it.
LEMMA UpMeets ==
    ASSUME NEW k \in 1..7, NEW i \in DOMAIN Upgrade[k]
    PROVE  LET met == Before(Built(k - 1), Upgrade[k], i)
           IN  /\ \A o \in met : \/ o \in Built(k - 1)
                                 \/ \E j \in DOMAIN Upgrade[k] : j < i /\ o \in Made(Upgrade[k][j])
               /\ \A o \in Built(k - 1) : (k = 2 /\ i > 10 => o.name # "uq_companies_exchange") => o \in met
               /\ \A j \in DOMAIN Upgrade[k] : j < i => Made(Upgrade[k][j]) \subseteq met
<1> DEFINE met == Before(Built(k - 1), Upgrade[k], i)
<1>1. \A o \in met : o \in Built(k - 1) \/ \E j \in DOMAIN Upgrade[k] : j < i /\ o \in Made(Upgrade[k][j])
  BY DEF Before
<1>2. ASSUME NEW o \in Built(k - 1), k = 2 /\ i > 10 => o.name # "uq_companies_exchange"
      PROVE  o \in met
  <2>1. k - 1 \in 0..7
    OBVIOUS
  <2>2. PICK m \in 1..(k - 1) : o \in Creates(m)
    BY <2>1, BuiltIs DEF AllCreated
  <2>3. m \in 1..7 /\ o.of # "uq_companies_exchange"
    BY <2>2, CreatesPartsOf DEF PartOf, WellNamed
  <2>4. ASSUME NEW j \in DOMAIN Upgrade[k], j < i
        PROVE  ~Removes(Upgrade[k][j], o)
    BY <1>2, <2>3, <2>4, Removed, Positions
  <2>5. Lasts(Upgrade[k], 1, i, o)
    BY <2>4 DEF Lasts
  <2> QED
    BY <2>5 DEF Before
<1>3. ASSUME NEW j \in DOMAIN Upgrade[k], j < i, NEW o \in Made(Upgrade[k][j])
      PROVE  o \in met
  <2>1. o \in Creates(k)
    BY DEF Creates
  <2>2. k = 2 => "uq_companies_exchange" \notin {o.name, o.of}
    BY <2>1, CreatesPartsOf, ExchangeIsFirst DEF PartOf, WellNamed
  <2>3. Lasts(Upgrade[k], j, i, o)
    BY <2>2, Removed DEF Lasts
  <2> QED
    BY <1>3, <2>3 DEF Before
<1> QED
  BY <1>1, <1>2, <1>3

\* What revision 0002 does besides making objects.
LEMMA TenancyDoes ==
    /\ DOMAIN Upgrade[2] = 1..12
    /\ Upgrade[2][5].do = "insert_bootstrap" /\ Upgrade[2][7].do = "backfill" /\ Upgrade[2][8].do = "not_null"
    /\ Upgrade[2][10].do = "drop" /\ Upgrade[2][10].name = "uq_companies_exchange"
    /\ \A i \in {1, 2, 3, 4, 6, 9, 11, 12} : MadeBy(Upgrade[2][i], 2)
    /\ \E o \in Made(Upgrade[2][2]) : o.name = "organizations"
    /\ \E o \in Made(Upgrade[2][6]) : o.name = "organization_id"
<1>1. DOMAIN UpgradeTenancy = 1..12
  BY DEF UpgradeTenancy
<1>2. /\ UpgradeTenancy[5].do = "insert_bootstrap" /\ UpgradeTenancy[7].do = "backfill"
      /\ UpgradeTenancy[8].do = "not_null"
      /\ UpgradeTenancy[10].do = "drop" /\ UpgradeTenancy[10].name = "uq_companies_exchange"
  BY DEF UpgradeTenancy, Execute, Drop
<1>3. \A i \in {1, 2, 3, 4, 6, 9, 11, 12} :
          UpgradeTenancy[i].do \notin {"insert_bootstrap", "backfill", "not_null"}
  BY DEF UpgradeTenancy, Type, Table, Create, Index
<1>4. /\ \E o \in TenancyMakes[2] : o.name = "organizations"
      /\ \E o \in TenancyMakes[6] : o.name = "organization_id"
  BY PartsAre DEF TenancyMakes
<1>5. \A i \in 1..12 : Made(UpgradeTenancy[i]) = TenancyMakes[i]
  BY <1>1, TenancyDescribed DEF Describes
<1> QED
  BY <1>1, <1>2, <1>3, <1>4, <1>5, ScriptsAre, TenancyMade

\* upgrade() of revision k finds in the schema what each statement asks for.
LEMMA UpRuns == \A k \in 1..7 : Runnable(Built(k - 1), Upgrade[k])
<1> SUFFICES ASSUME NEW k \in 1..7, NEW i \in DOMAIN Upgrade[k]
             PROVE  Fits(Before(Built(k - 1), Upgrade[k], i), Upgrade[k][i])
  BY DEF Runnable
<1> DEFINE met == Before(Built(k - 1), Upgrade[k], i)
           s == Upgrade[k][i]
<1>1. /\ \A o \in met : o \in Built(k - 1) \/ \E j \in DOMAIN Upgrade[k] : j < i /\ o \in Made(Upgrade[k][j])
      /\ \A o \in Built(k - 1) : (k = 2 /\ i > 10 => o.name # "uq_companies_exchange") => o \in met
      /\ \A j \in DOMAIN Upgrade[k] : j < i => Made(Upgrade[k][j]) \subseteq met
  BY UpMeets
<1>2. i \in Nat
  BY Positions
<1>3. \A o \in Built(k - 1) : /\ o.name \in Known(k - 1)
                              /\ "uq_companies_exchange" \notin o.needs
  <2>1. TAKE o \in Built(k - 1)
  <2>2. k - 1 \in 0..7
    OBVIOUS
  <2>3. PICK m \in 1..(k - 1) : o \in Creates(m)
    BY <2>2, BuiltIs DEF AllCreated
  <2>4. m \in 1..7 /\ o.name \in New[m]
    BY <2>3, CreatesPartsOf DEF PartOf
  <2> QED
    BY <2>3, <2>4, NeedsKnown DEF Known
<1> HIDE DEF met, s
<1>4. CASE MadeBy(s, k) /\ s.do = "create"
  <2>1. Made(s) = s.objects
    BY <1>4 DEF Made
  <2>2. \A o \in Made(s) : o.name \in New[k]
    BY <1>4, <2>1 DEF MadeBy, PartOf
  <2>3. ASSUME NEW o \in Made(s), NEW p \in met
        PROVE  o.name # p.name
    <3>1. CASE p \in Built(k - 1)
      BY <1>3, <2>2, <3>1, KnownElsewhere
    <3>2. ASSUME NEW j \in DOMAIN Upgrade[k], j < i, p \in Made(Upgrade[k][j])
          PROVE  o.name # p.name
      <4>1. o \in Makes[k][i] /\ p \in Makes[k][j] /\ i \in DOMAIN Makes[k] /\ j \in DOMAIN Makes[k] /\ i # j
        BY <1>2, <3>2, MakesConsistent DEF Describes, s
      <4> QED
        BY <4>1, MakesConsistent DEF Consistent, Distinct
    <3> QED
      BY <1>1, <3>1, <3>2
  <2>4. ASSUME NEW o \in Made(s), NEW name \in o.needs
        PROVE  \E p \in met \cup Made(s) : p.name = name
    <3>1. i \in DOMAIN Makes[k] /\ o \in Makes[k][i]
      BY MakesConsistent DEF Describes, s
    <3>2. CASE name \in Old[k]
      <4>1. PICK p \in Built(k - 1) : p.name = name /\ p.name # "uq_companies_exchange"
        BY <3>2, OldThere
      <4> QED
        BY <1>1, <4>1
    <3>3. ASSUME NEW j \in DOMAIN Makes[k], j <= i, NEW p \in Makes[k][j], p.name = name
          PROVE  \E q \in met \cup Made(s) : q.name = name
      <4>1. j \in DOMAIN Upgrade[k] /\ p \in Made(Upgrade[k][j]) /\ j \in Nat
        BY <3>3, MakesConsistent, Positions DEF Describes
      <4>2. CASE j = i
        BY <3>3, <4>1, <4>2 DEF s
      <4>3. CASE j < i
        BY <1>1, <3>3, <4>1, <4>3
      <4> QED
        BY <1>2, <3>3, <4>1, <4>2, <4>3
    <3> QED
      BY <3>1, <3>2, <3>3, MakesConsistent DEF Consistent, Supplied
  <2> QED
    BY <1>4, <2>1, <2>3, <2>4 DEF Fits, Names, met, s
<1>5. CASE s.do = "create_type"
  BY <1>5 DEF Fits, met, s
<1>6. CASE k = 2 /\ i = 5
  <2>1. 2 \in DOMAIN Upgrade[k] /\ \E o \in Made(Upgrade[k][2]) : o.name = "organizations"
    BY <1>6, TenancyDoes
  <2>2. "organizations" \in Names(met)
    BY <1>1, <1>6, <2>1 DEF Names
  <2> QED
    BY <1>6, <2>2, TenancyDoes DEF Fits, met, s
<1>7. CASE k = 2 /\ i \in {7, 8}
  <2>1. 6 \in DOMAIN Upgrade[k] /\ \E o \in Made(Upgrade[k][6]) : o.name = "organization_id"
    BY <1>7, TenancyDoes
  <2>2. "organization_id" \in Names(met)
    BY <1>1, <1>7, <2>1 DEF Names
  <2> QED
    BY <1>7, <2>2, TenancyDoes DEF Fits, met, s
<1>8. CASE k = 2 /\ i = 10
  <2>1. Exchange \in met
    BY <1>1, <1>8, BuiltFirst, ExchangeIsFirst
  <2>2. \A o \in met : "uq_companies_exchange" \notin o.needs
    BY <1>1, <1>3, NeedsKnown DEF Creates
  <2>3. Exchange.name = "uq_companies_exchange"
    BY DEF Exchange, Part
  <2> QED
    BY <1>8, <2>1, <2>2, <2>3, TenancyDoes DEF Fits, Names, met, s
<1>9. \/ MadeBy(s, k) /\ s.do = "create"
      \/ s.do = "create_type"
      \/ k = 2 /\ i \in {5, 7, 8, 10}
  <2>1. CASE k = 2
    BY <2>1, TenancyDoes DEF MadeBy, s
  <2>2. CASE k # 2
    BY <2>2, UpgradesMake DEF MadeBy, s
  <2> QED
    BY <2>1, <2>2
<1> QED
  BY <1>4, <1>5, <1>6, <1>7, <1>8, <1>9 DEF met, s

\* What a statement of downgrade() meets: what no statement before it has dropped.
LEMMA DownMeets ==
    ASSUME NEW k \in 1..7, NEW i \in DOMAIN Downgrade[k]
    PROVE  LET met == Before(Built(k), Downgrade[k], i)
           IN  /\ \A o \in met : \/ o \in Built(k) /\ ~Gone(Downgrade[k], i, o)
                                 \/ k = 2 /\ i > 3 /\ o = Exchange
               /\ \A o \in Built(k) : ~Gone(Downgrade[k], i, o) => o \in met
<1> DEFINE met == Before(Built(k), Downgrade[k], i)
<1>1. \A o : Lasts(Downgrade[k], 1, i, o) <=> ~Gone(Downgrade[k], i, o)
  BY Positions DEF Lasts, Gone
<1>2. ASSUME NEW o \in met
      PROVE  \/ o \in Built(k) /\ ~Gone(Downgrade[k], i, o)
             \/ k = 2 /\ i > 3 /\ o = Exchange
  <2>1. CASE o \in Built(k) /\ Lasts(Downgrade[k], 1, i, o)
    BY <1>1, <2>1
  <2>2. ASSUME NEW m \in DOMAIN Downgrade[k], m < i, o \in Made(Downgrade[k][m])
        PROVE  k = 2 /\ i > 3 /\ o = Exchange
    BY <2>2, MadeOnTheWayDown, Positions
  <2> QED
    BY <1>2, <2>1, <2>2 DEF Before
<1>3. \A o \in Built(k) : ~Gone(Downgrade[k], i, o) => o \in met
  BY <1>1 DEF Before
<1> QED
  BY <1>2, <1>3

\* downgrade() of revision k does too.
LEMMA DownRuns == \A k \in 1..7 : Runnable(Built(k), Downgrade[k])
<1> SUFFICES ASSUME NEW k \in 1..7, NEW i \in DOMAIN Downgrade[k]
             PROVE  Fits(Before(Built(k), Downgrade[k], i), Downgrade[k][i])
  BY DEF Runnable
<1> DEFINE met == Before(Built(k), Downgrade[k], i)
           s == Downgrade[k][i]
<1>1. /\ \A o \in met : \/ o \in Built(k) /\ ~Gone(Downgrade[k], i, o)
                        \/ k = 2 /\ i > 3 /\ o = Exchange
      /\ \A o \in Built(k) : ~Gone(Downgrade[k], i, o) => o \in met
  BY DownMeets
<1>2. \A o : o \in Built(k) <=> o \in AllCreated(k) /\ (k >= 2 => o.name # "uq_companies_exchange")
  BY BuiltIs
<1>3. \A o : o \in AllCreated(k) <=> \E m \in 1..k : o \in Creates(m)
  BY DEF AllCreated
<1> HIDE DEF met, s
<1>4. ASSUME NEW name \in New[k], s \in {Drop(name), DropType(name)}
      PROVE  Fits(met, s)
  <2>1. s.name = name /\ s.do \in {"drop", "drop_type"} /\ (s.do = "drop" <=> s = Drop(name))
    BY <1>4 DEF Drop, DropType
  <2>2. ASSUME NEW o \in met, name \in o.needs
        PROVE  o.of = name
    <3>1. CASE k = 2 /\ o = Exchange
      BY <1>4, <2>2, <3>1, NewAre DEF Exchange, Part, NewTenancy
    <3>2. ASSUME NEW m \in 1..k, m < k, o \in Creates(m)
          PROVE  FALSE
      <4>1. m \in 1..7 /\ name \in Known(m)
        BY <2>2, <3>2, NeedsKnown
      <4>2. Known(m) \subseteq Known(k - 1)
        BY <3>2, <4>1 DEF Known
      <4> QED
        BY <1>4, <4>1, <4>2, KnownElsewhere
    <3>3. ASSUME o \in Creates(k), ~Gone(Downgrade[k], i, o)
          PROVE  o.of = name
      <4>1. PICK j \in DOMAIN Makes[k] : o \in Makes[k][j]
        BY <3>3, CreatesIs
      <4> QED
        BY <2>1, <2>2, <3>3, <4>1, MakesConsistent DEF Consistent, Released, s
    <3> QED
      BY <1>1, <1>2, <1>3, <3>1, <3>2, <3>3
  <2>3. ASSUME s.do = "drop"
        PROVE  name \in Names(met)
    <3>1. PICK o \in Creates(k) : o.name = name
      BY <1>4, NamesCreated
    <3>2. PICK j \in DOMAIN Makes[k] : o \in Makes[k][j]
      BY <3>1, CreatesIs
    <3>3. ~Gone(Downgrade[k], i, o)
      BY <2>1, <2>3, <3>1, <3>2, MakesConsistent DEF Consistent, Standing, s
    <3>4. k >= 2 => o.name # "uq_companies_exchange"
      BY <3>1, ExchangeIsFirst
    <3>5. o \in met
      BY <1>1, <1>2, <1>3, <3>1, <3>3, <3>4
    <3> QED
      BY <3>1, <3>5 DEF Names
  <2> QED
    BY <2>1, <2>2, <2>3 DEF Fits
<1>5. CASE k = 2 /\ i = 3
  <2>1. s = Create({Exchange})
    BY <1>5, ListingsAgain DEF s
  <2>2. \A o \in met : o.name # "uq_companies_exchange"
    BY <1>1, <1>2, <1>5
  <2>3. PICK o \in Creates(1) : o.name = "companies"
    BY NamesCreated, NewAre DEF NewCompanies
  <2>4. o \in met
    <3>1. o \in AllCreated(1) /\ o \in AllCreated(2)
      BY DEF AllCreated
    <3>2. ~Gone(Downgrade[2], 3, o)
      <4>1. Spared(Downgrade[2], 1, o)
        BY <3>1, Keeps
      <4> QED
        BY <4>1, Positions DEF Spared, Gone
    <3> QED
      BY <1>1, <1>2, <1>5, <2>3, <3>1, <3>2
  <2>5. Names({Exchange}) = {"uq_companies_exchange"} /\ Exchange.needs = {"companies"}
    BY DEF Names, Exchange, Part
  <2>6. s.do = "create" /\ s.objects = {Exchange}
    BY <2>1 DEF Create
  <2>7. Fits(met, s)
    BY <2>2, <2>3, <2>4, <2>5, <2>6 DEF Fits, Names
  <2> QED
    BY <2>7 DEF met, s
<1>6. (k = 2 /\ i = 3) \/ \E name \in New[k] : s \in {Drop(name), DropType(name)}
  BY DowngradesDrop DEF DroppedBy, s
<1> QED
  BY <1>4, <1>5, <1>6 DEF met, s

-------------------------------------------------------------------------------
(* What an invocation has made of the rows so far                            *)

\* The script of the revision that the invocation is in, and how much of it is done.
Script(r) ==
    IF r.at = version THEN <<>>
    ELSE IF version < r.to THEN Upgrade[r.at] ELSE Downgrade[r.at + 1]

Passed(r) == Len(Script(r)) - Len(r.todo)

\* It is between the version it came from and the one it goes to, and has the rest
\* of a script to do.
OnItsWay(r) ==
    /\ version < r.to => version <= r.at /\ r.at <= r.to
    /\ version >= r.to => r.to < version /\ r.to <= r.at /\ r.at <= version
    /\ Len(r.todo) <= Len(Script(r))
    /\ \A j \in DOMAIN r.todo : r.todo[j] = Script(r)[Passed(r) + j]

\* It has the companies that are committed, with their listings.
SameRows(r) ==
    \A c \in Companies :
        /\ r.work.companies[c] = Absent <=> db.companies[c] = Absent
        /\ c \in Rows(db) => r.work.companies[c].listing = db.companies[c].listing

\* On the way up owners only change in revision 0002, from none to the bootstrap
\* organization, which is there before, and after companies are locked.
RowsOnTheWayUp(r) ==
    /\ SameRows(r)
    /\ version >= 2 => r.work.companies = db.companies
    /\ version <= 1 =>
         /\ \A c \in Rows(r.work) : r.work.companies[c].org \in {NoOrg, Bootstrap}
         /\ r.at = 2 /\ Passed(r) >= 5 => Bootstrap \in r.work.orgs
         /\ r.at = 2 /\ Passed(r) >= 7 =>
              r.locked /\ \A c \in Rows(r.work) : r.work.companies[c].org = Bootstrap

\* On the way down owners only change in the downgrade of 0002, and rows in that of 0001.
RowsOnTheWayDown(r) ==
    /\ r.at >= 2 => r.work.companies = db.companies
    /\ r.at = 1 => SameRows(r)

WayOK(r) ==
    /\ Runnable(r.work.schema, r.todo)
    /\ OnItsWay(r)
    /\ IF version < r.to THEN RowsOnTheWayUp(r) ELSE RowsOnTheWayDown(r)

WayInv == MigrationsInv /\ (run # NoRun => WayOK(run))

LEMMA SameCompanies == ASSUME NEW r, r.work.companies = db.companies PROVE SameRows(r)
BY DEF SameRows

\* Before 0002 no company has an owner, and before 0001 there is none.
LEMMA OwnerlessDatabase ==
    ASSUME NEW v \in 0..1, NEW d, d.schema = Built(v), Constrained(d)
    PROVE  /\ \A c \in Rows(d) : d.companies[c].org = NoOrg
           /\ v = 0 => Rows(d) = {}
           /\ Admits(d, "uq_companies_exchange")
<1>1. CASE v = 0
  BY <1>1, BuiltNames DEF Constrained, Admits
<1>2. CASE v = 1
  <2>1. "organization_id" \notin Names(d.schema) /\ "uq_companies_exchange" \in Names(d.schema)
    BY <1>2, BuiltNames
  <2> QED
    BY <1>2, <2>1, SatisfiedIs DEF Constrained
<1> QED
  BY <1>1, <1>2

LEMMA OwnerlessAtFirst ==
    ASSUME MigrationsInv, version <= 1
    PROVE  /\ \A c \in Rows(db) : db.companies[c].org = NoOrg
           /\ version = 0 => Rows(db) = {}
           /\ Admits(db, "uq_companies_exchange")
<1>1. version \in 0..1
  BY DEF MigrationsInv
<1> QED
  BY <1>1, OwnerlessDatabase DEF MigrationsInv

\* What the statements of an upgrade make of the rows ...
LEMMA UpRows ==
    ASSUME NEW k \in 1..7, NEW i \in DOMAIN Upgrade[k], NEW d
    PROVE  LET e == After(d, Upgrade[k][i])
           IN  /\ ~(k = 2 /\ i = 7) => e.companies = d.companies
               /\ k = 2 /\ i = 7 => e.companies = Owned(d, {NoOrg}, Bootstrap)
               /\ d.orgs \subseteq e.orgs
               /\ k = 2 /\ i = 5 => Bootstrap \in e.orgs
<1>1. CASE MadeBy(Upgrade[k][i], k)
  BY <1>1, TenancyDoes DEF MadeBy, After
<1>2. CASE k = 2 /\ i \in {5, 7, 8, 10}
  BY <1>2, TenancyDoes DEF After
<1>3. MadeBy(Upgrade[k][i], k) \/ (k = 2 /\ i \in {5, 7, 8, 10})
  BY UpgradesMake, TenancyDoes
<1> QED
  BY <1>1, <1>2, <1>3

\* ... and those of a downgrade.
LEMMA DownRows ==
    ASSUME NEW k \in 2..7, NEW i \in DOMAIN Downgrade[k], NEW d
    PROVE  LET e == After(d, Downgrade[k][i])
           IN  e.companies = d.companies \/ (k = 2 /\ e.companies = Owned(d, Owners, NoOrg))
<1>1. CASE k = 2 /\ i = 3
  BY <1>1, ListingsAgain DEF After, Create
<1>2. ASSUME NEW name \in New[k], Downgrade[k][i] = Drop(name) \/ Downgrade[k][i] = DropType(name)
      PROVE  LET e == After(d, Downgrade[k][i])
             IN  e.companies = d.companies \/ (k = 2 /\ e.companies = Owned(d, Owners, NoOrg))
  <2>1. name # "companies" /\ (name = "organization_id" => k = 2)
    BY NewOnce, NewAre DEF NewCompanies, NewTenancy
  <2> QED
    BY <1>2, <2>1 DEF After, Drop, DropType
<1> QED
  BY <1>1, <1>2, DowngradesDrop DEF DroppedBy

\* Giving companies to another owner takes and adds none.
LEMMA OwnedSame ==
    ASSUME NEW d \in Databases, NEW owners, NEW org \in Owners \cup {NoOrg}
    PROVE  \A c \in Companies :
               /\ Owned(d, owners, org)[c] = Absent <=> d.companies[c] = Absent
               /\ c \in Rows(d) =>
                    /\ Owned(d, owners, org)[c].listing = d.companies[c].listing
                    /\ Owned(d, owners, org)[c].org =
                           IF d.companies[c].org \in owners THEN org ELSE d.companies[c].org
<1> SUFFICES ASSUME NEW c \in Companies
             PROVE  /\ Owned(d, owners, org)[c] = Absent <=> d.companies[c] = Absent
                    /\ c \in Rows(d) =>
                         /\ Owned(d, owners, org)[c].listing = d.companies[c].listing
                         /\ Owned(d, owners, org)[c].org =
                                IF d.companies[c].org \in owners THEN org ELSE d.companies[c].org
  OBVIOUS
<1>1. Owned(d, owners, org)[c] =
          IF c \in Rows(d) /\ d.companies[c].org \in owners THEN [d.companies[c] EXCEPT !.org = org]
          ELSE d.companies[c]
  BY DEF Owned
<1>2. c \in Rows(d) <=> d.companies[c] # Absent
  BY DEF Rows
<1>3. ASSUME c \in Rows(d)
      PROVE  /\ [d.companies[c] EXCEPT !.org = org] \in Company
             /\ [d.companies[c] EXCEPT !.org = org].org = org
             /\ [d.companies[c] EXCEPT !.org = org].listing = d.companies[c].listing
  BY <1>2, <1>3 DEF Databases, Company
<1> QED
  BY <1>1, <1>2, <1>3, ValuesApart

LEMMA InvokeOnItsWay ==
    ASSUME MigrationsInv, NEW to \in 0..7, Invoke(to)
    PROVE  WayOK(run)'
<1>1. /\ run' = [to |-> to, at |-> version, todo |-> <<>>, work |-> db, locked |-> FALSE]
      /\ UNCHANGED <<version, db>> /\ to # version /\ version \in 0..7
  BY DEF Invoke, MigrationsInv
<1>2. /\ run'.to = to /\ run'.at = version /\ run'.todo = <<>> /\ run'.work = db
  BY <1>1
<1>3. OnItsWay(run)'
  <2>1. Script(run)' = <<>>
    BY <1>1, <1>2 DEF Script
  <2> QED
    BY <1>1, <1>2, <2>1 DEF OnItsWay, Passed
<1>4. SameRows(run)'
  BY <1>1, <1>2 DEF SameRows
<1>5. version <= 1 => \A c \in Rows(db) : db.companies[c].org = NoOrg
  BY OwnerlessAtFirst
<1>6. (IF version < run.to THEN RowsOnTheWayUp(run) ELSE RowsOnTheWayDown(run))'
  BY <1>1, <1>2, <1>4, <1>5 DEF RowsOnTheWayUp, RowsOnTheWayDown
<1> QED
  BY <1>2, <1>3, <1>6, RunnableNothing DEF WayOK

LEMMA NextOnItsWay ==
    ASSUME WayInv, NextUpgrade \/ NextDowngrade
    PROVE  WayOK(run)'
<1>1. /\ run # NoRun /\ RunOK(run) /\ WayOK(run) /\ run.todo = <<>> /\ UNCHANGED <<version, db>>
      /\ version \in 0..7 /\ run.to \in 0..7 /\ run.at \in 0..7
  BY DEF WayInv, MigrationsInv, NextUpgrade, NextDowngrade, RunOK, Invocations
<1>2. run.work.schema = Built(run.at)
  BY <1>1, ResultOfNothing DEF RunOK
<1>3. OnItsWay(run) /\ (IF version < run.to THEN RowsOnTheWayUp(run) ELSE RowsOnTheWayDown(run))
  BY <1>1 DEF WayOK
<1>4. CASE NextUpgrade
  <2>1. version < run.to /\ version <= run.at /\ run.at < run.to
    BY <1>1, <1>3, <1>4 DEF OnItsWay, NextUpgrade
  <2> DEFINE at == run.at + 1
             todo == Upgrade[run.at + 1]
  <2>2. at \in 1..7 /\ at - 1 = run.at
    BY <1>1, <2>1
  <2>3. /\ run' = [run EXCEPT !.at = at, !.todo = todo]
        /\ run \in Invocations
    BY <1>1, <1>4 DEF NextUpgrade, RunOK
  <2>4. Runnable(run.work.schema, todo) /\ todo = Upgrade[at] /\ todo \in Seq(Statements)
    BY <1>2, <2>2, UpRuns, ScriptsOfStatements
  <2> HIDE DEF at, todo
  <2>5. /\ run'.at = at /\ run'.todo = todo /\ run'.work = run.work /\ run'.to = run.to
        /\ run'.locked = run.locked
    BY <2>3 DEF Invocations
  <2>6. Script(run)' = todo
    BY <1>1, <2>1, <2>2, <2>4, <2>5 DEF Script
  <2>7. Passed(run)' = 0
    BY <2>4, <2>5, <2>6 DEF Passed
  <2>8. OnItsWay(run)'
    BY <1>1, <2>1, <2>2, <2>4, <2>5, <2>6, <2>7 DEF OnItsWay
  <2>9. RowsOnTheWayUp(run)'
    BY <1>1, <1>3, <2>1, <2>5, <2>7 DEF RowsOnTheWayUp, SameRows, Rows
  <2> QED
    BY <1>1, <2>1, <2>4, <2>5, <2>8, <2>9 DEF WayOK
<1>5. CASE NextDowngrade
  <2>1. run.to < version /\ run.to < run.at /\ run.at <= version
    BY <1>1, <1>3, <1>5 DEF OnItsWay, NextDowngrade
  <2> DEFINE at == run.at - 1
             todo == Downgrade[run.at]
  <2>2. at \in 0..6 /\ at + 1 = run.at /\ run.at \in 1..7
    BY <1>1, <2>1
  <2>3. /\ run' = [run EXCEPT !.at = at, !.todo = todo]
        /\ run \in Invocations
    BY <1>1, <1>5 DEF NextDowngrade, RunOK
  <2>4. Runnable(run.work.schema, todo) /\ todo = Downgrade[at + 1] /\ todo \in Seq(Statements)
    BY <1>2, <2>2, DownRuns, ScriptsOfStatements
  <2> HIDE DEF at, todo
  <2>5. /\ run'.at = at /\ run'.todo = todo /\ run'.work = run.work /\ run'.to = run.to
        /\ run'.locked = run.locked
    BY <2>3 DEF Invocations
  <2>6. Script(run)' = todo
    BY <1>1, <2>1, <2>2, <2>4, <2>5 DEF Script
  <2>7. Passed(run)' = 0
    BY <2>4, <2>5, <2>6 DEF Passed
  <2>8. OnItsWay(run)'
    BY <1>1, <2>1, <2>2, <2>4, <2>5, <2>6, <2>7 DEF OnItsWay
  <2>9. RowsOnTheWayDown(run)'
    BY <1>1, <1>3, <2>1, <2>2, <2>5, SameCompanies DEF RowsOnTheWayDown, SameRows, Rows
  <2> QED
    BY <1>1, <2>1, <2>4, <2>5, <2>8, <2>9 DEF WayOK
<1> QED
  BY <1>4, <1>5

\* Where an invocation is when it has a statement to do.
LEMMA AtStatement ==
    ASSUME WayInv, run # NoRun, run.todo # <<>>
    PROVE  LET i == Passed(run) + 1
           IN  /\ i \in DOMAIN Script(run) /\ Head(run.todo) = Script(run)[i]
               /\ version < run.to => run.at \in 1..7 /\ run.at > version /\ Script(run) = Upgrade[run.at]
               /\ version >= run.to => /\ run.at + 1 \in 1..7 /\ run.at < version
                                       /\ Script(run) = Downgrade[run.at + 1]
<1>1. /\ run.todo \in Seq(Statements) /\ run.at \in 0..7 /\ run.to \in 0..7 /\ version \in 0..7
      /\ OnItsWay(run)
  BY DEF WayInv, MigrationsInv, RunOK, Invocations, WayOK
<1>2. 1 \in DOMAIN run.todo /\ Head(run.todo) = run.todo[1] /\ Len(run.todo) \in Nat /\ Len(run.todo) >= 1
  BY <1>1
<1>3. /\ run.at # version
      /\ version < run.to => run.at \in 1..7 /\ run.at > version /\ Script(run) = Upgrade[run.at]
      /\ version >= run.to => /\ run.at + 1 \in 1..7 /\ run.at < version
                              /\ Script(run) = Downgrade[run.at + 1]
  BY <1>1, <1>2 DEF OnItsWay, Script
<1>4. Script(run) \in Seq(Statements)
  <2>1. CASE version < run.to
    BY <1>3, <2>1, ScriptsOfStatements
  <2>2. CASE version >= run.to
    <3>1. \A k \in 1..7 : Downgrade[k] \in Seq(Statements)
      BY ScriptsOfStatements
    <3> QED
      BY <1>3, <2>2, <3>1
  <2> QED
    BY <1>1, <2>1, <2>2
<1>5. Len(run.todo) <= Len(Script(run)) /\ Head(run.todo) = Script(run)[Passed(run) + 1]
  BY <1>1, <1>2 DEF OnItsWay
<1>6. Passed(run) + 1 \in DOMAIN Script(run)
  <2>1. ASSUME NEW script \in Seq(Statements), NEW n \in Nat, n >= 1, n <= Len(script)
        PROVE  Len(script) - n + 1 \in DOMAIN script
    BY <2>1
  <2> QED
    BY <1>2, <1>4, <1>5, <2>1 DEF Passed
<1> QED
  BY <1>3, <1>5, <1>6

LEMMA StatementOnItsWay ==
    ASSUME WayInv, Statement
    PROVE  WayOK(run)'
<1> DEFINE s == Head(run.todo)
           i == Passed(run) + 1
<1>1. /\ run # NoRun /\ run.todo # <<>> /\ Runs(run.work, s) /\ UNCHANGED <<version, db>>
      /\ RunOK(run) /\ WayOK(run) /\ run \in Invocations /\ run.todo \in Seq(Statements) /\ version \in 0..7
  BY DEF WayInv, MigrationsInv, Statement, RunOK, Invocations
<1>2. /\ i \in DOMAIN Script(run) /\ s = Script(run)[i]
      /\ version < run.to => run.at \in 1..7 /\ run.at > version /\ Script(run) = Upgrade[run.at]
      /\ version >= run.to => /\ run.at + 1 \in 1..7 /\ run.at < version
                              /\ Script(run) = Downgrade[run.at + 1]
  BY <1>1, AtStatement
<1>3. OnItsWay(run) /\ (IF version < run.to THEN RowsOnTheWayUp(run) ELSE RowsOnTheWayDown(run))
  BY <1>1 DEF WayOK
<1> HIDE DEF s
<1>4. /\ run'.at = run.at /\ run'.to = run.to /\ run'.todo = Tail(run.todo) /\ run'.work = After(run.work, s)
      /\ run'.locked = (run.locked \/ LocksCompanies(run.work, s))
  <2>1. run' = [run EXCEPT !.todo = Tail(@), !.work = After(@, s),
                           !.locked = @ \/ LocksCompanies(run.work, s)]
    BY DEF Statement, s
  <2> QED
    BY <1>1, <2>1 DEF Invocations
<1>5. run.work \in Databases /\ run'.work = After(run.work, s)
  BY <1>1, <1>4 DEF Invocations
<1>6. Script(run)' = Script(run)
  BY <1>1, <1>4 DEF Script
<1>7. /\ Len(Tail(run.todo)) = Len(run.todo) - 1 /\ Len(run.todo) \in Nat
      /\ \A j \in DOMAIN Tail(run.todo) : /\ j \in Nat /\ j + 1 \in DOMAIN run.todo
                                          /\ Tail(run.todo)[j] = run.todo[j + 1]
  BY <1>1
<1>8. Len(Script(run)) \in Nat /\ Len(run.todo) <= Len(Script(run))
  <2>1. \A k \in 1..7 : Len(Upgrade[k]) \in Nat /\ Len(Downgrade[k]) \in Nat
    <3>1. ASSUME NEW script \in Seq(Statements) PROVE Len(script) \in Nat
      OBVIOUS
    <3> QED
      BY <3>1, ScriptsOfStatements
  <2>2. run.to \in 0..7
    BY <1>1 DEF Invocations
  <2> QED
    BY <1>1, <1>2, <1>3, <2>1, <2>2 DEF OnItsWay
<1>9. Passed(run) \in Nat /\ Passed(run)' = i
  <2>1. Passed(run)' = Len(Script(run)') - Len(run'.todo) /\ Passed(run) = Len(Script(run)) - Len(run.todo)
    BY DEF Passed
  <2>2. Len(Script(run)') = Len(Script(run)) /\ Len(run'.todo) = Len(run.todo) - 1
    BY <1>4, <1>6, <1>7
  <2> HIDE DEF i
  <2>3. Passed(run)' = Passed(run) + 1 /\ Passed(run) \in Nat
    BY <1>7, <1>8, <2>1, <2>2
  <2> QED
    BY <2>3 DEF i
<1>10. OnItsWay(run)'
  <2>1. ASSUME NEW j \in DOMAIN Tail(run.todo)
        PROVE  Tail(run.todo)[j] = Script(run)[i + j]
    <3>1. run.todo[j + 1] = Script(run)[Passed(run) + (j + 1)]
      BY <1>3, <1>7 DEF OnItsWay
    <3>2. j \in Nat
      BY <1>7
    <3>3. Passed(run) + (j + 1) = i + j
      BY <1>9, <3>2
    <3> QED
      BY <1>7, <3>1, <3>3
  <2> HIDE DEF i
  <2> QED
    BY <1>1, <1>3, <1>4, <1>6, <1>7, <1>8, <1>9, <2>1 DEF OnItsWay
<1>11. Runnable(run.work.schema, run.todo)'
  <2>1. Runnable(SchemaAfter(run.work.schema, s), Tail(run.todo))
    BY <1>1, RunnableStep DEF WayOK, s
  <2>2. After(run.work, s).schema = SchemaAfter(run.work.schema, s)
    BY DEF After
  <2> QED
    BY <1>4, <2>1, <2>2
<1>12. Bootstrap \in Owners
  BY DEF Owners
<1>13. CASE version < run.to
  <2>1. /\ run.at \in 1..7 /\ i \in DOMAIN Upgrade[run.at] /\ s = Upgrade[run.at][i]
        /\ run.at > version /\ RowsOnTheWayUp(run) /\ i \in Nat
    BY <1>2, <1>3, <1>9, <1>13
  <2> HIDE DEF i
  <2>2. /\ ~(run.at = 2 /\ i = 7) => run'.work.companies = run.work.companies
        /\ run.at = 2 /\ i = 7 => run'.work.companies = Owned(run.work, {NoOrg}, Bootstrap)
        /\ run.work.orgs \subseteq run'.work.orgs
        /\ run.at = 2 /\ i = 5 => Bootstrap \in run'.work.orgs
    <3>1. run'.work = After(run.work, Upgrade[run.at][i])
      BY <1>5, <2>1
    <3>2. /\ ~(run.at = 2 /\ i = 7) => After(run.work, Upgrade[run.at][i]).companies = run.work.companies
          /\ run.at = 2 /\ i = 7 =>
               After(run.work, Upgrade[run.at][i]).companies = Owned(run.work, {NoOrg}, Bootstrap)
          /\ run.work.orgs \subseteq After(run.work, Upgrade[run.at][i]).orgs
          /\ run.at = 2 /\ i = 5 => Bootstrap \in After(run.work, Upgrade[run.at][i]).orgs
      BY <2>1, UpRows
    <3> QED
      BY <3>1, <3>2
  <2>3. SameRows(run)'
    <3>1. SameRows(run)
      BY <2>1 DEF RowsOnTheWayUp
    <3>2. CASE run.at = 2 /\ i = 7
      BY <1>1, <1>5, <1>12, <2>2, <3>1, <3>2, OwnedSame DEF SameRows, Rows
    <3>3. CASE ~(run.at = 2 /\ i = 7)
      BY <1>1, <2>2, <3>1, <3>3 DEF SameRows, Rows
    <3> QED
      BY <3>2, <3>3
  <2>4. version >= 2 => run'.work.companies = db.companies
    BY <1>1, <2>1, <2>2 DEF RowsOnTheWayUp
  <2>5. ASSUME version <= 1
        PROVE  /\ \A c \in Rows(run'.work) : run'.work.companies[c].org \in {NoOrg, Bootstrap}
               /\ run.at = 2 /\ i >= 5 => Bootstrap \in run'.work.orgs
               /\ run.at = 2 /\ i >= 7 =>
                    run'.locked /\ \A c \in Rows(run'.work) : run'.work.companies[c].org = Bootstrap
    <3>1. /\ \A c \in Rows(run.work) : run.work.companies[c].org \in {NoOrg, Bootstrap}
          /\ run.at = 2 /\ Passed(run) >= 5 => Bootstrap \in run.work.orgs
          /\ run.at = 2 /\ Passed(run) >= 7 =>
               run.locked /\ \A c \in Rows(run.work) : run.work.companies[c].org = Bootstrap
      BY <2>1, <2>5 DEF RowsOnTheWayUp
    <3>2. i >= 5 /\ i # 5 => Passed(run) >= 5
      BY <1>9 DEF i
    <3>3. i >= 7 /\ i # 7 => Passed(run) >= 7
      BY <1>9 DEF i
    <3>4. CASE run.at = 2 /\ i = 7
      <4>1. \A c \in Rows(run'.work) : run'.work.companies[c].org = Bootstrap
        BY <1>5, <1>12, <2>2, <3>1, <3>4, OwnedSame DEF Rows
      <4>2. run.locked
        <5>1. "organization_id" \in Names(run.work.schema)
          BY <1>1, <2>1, <3>4, TenancyDoes DEF Runs
        <5>2. "organization_id" \notin Names(db.schema)
          BY <1>1, <2>5, BuiltNames DEF WayInv, MigrationsInv
        <5>3. ~Unlocked(run)
          BY <5>1, <5>2 DEF Unlocked, CompanyParts
        <5>4. run.locked \in BOOLEAN
          BY <1>1 DEF Invocations
        <5> QED
          BY <1>1, <5>3, <5>4 DEF RunOK
      <4>3. run'.locked
        BY <1>4, <4>2
      <4> QED
        BY <2>2, <3>1, <3>2, <3>4, <4>1, <4>3
    <3>5. CASE ~(run.at = 2 /\ i = 7)
      <4>1. Rows(run'.work) = Rows(run.work) /\ run'.work.companies = run.work.companies
        BY <2>2, <3>5 DEF Rows
      <4> QED
        BY <1>4, <2>2, <3>1, <3>2, <3>3, <3>5, <4>1
    <3> QED
      BY <3>4, <3>5
  <2>6. RowsOnTheWayUp(run)'
    BY <1>1, <1>4, <1>9, <2>3, <2>4, <2>5 DEF RowsOnTheWayUp
  <2> QED
    BY <1>1, <1>4, <1>10, <1>11, <1>13, <2>6 DEF WayOK
<1>14. CASE ~(version < run.to)
  <2>1. version >= run.to
    BY <1>1, <1>14 DEF Invocations
  <2>2. /\ run.at + 1 \in 1..7 /\ run.at \in 0..7 /\ i \in DOMAIN Downgrade[run.at + 1]
        /\ s = Downgrade[run.at + 1][i] /\ RowsOnTheWayDown(run)
    BY <1>1, <1>2, <1>3, <1>14, <2>1 DEF Invocations
  <2> HIDE DEF i
  <2>3. ASSUME run.at >= 1
        PROVE  \/ run'.work.companies = run.work.companies
               \/ run.at = 1 /\ run'.work.companies = Owned(run.work, Owners, NoOrg)
    <3>1. run.at + 1 \in 2..7 /\ (run.at + 1 = 2 <=> run.at = 1)
      BY <2>2, <2>3
    <3> QED
      BY <1>5, <2>2, <3>1, DownRows
  <2>4. run.at >= 2 => run'.work.companies = db.companies
    BY <2>2, <2>3 DEF RowsOnTheWayDown
  <2>5. ASSUME run.at = 1
        PROVE  SameRows(run)'
    <3>1. SameRows(run)
      BY <2>2, <2>5 DEF RowsOnTheWayDown
    <3>2. CASE run'.work.companies = run.work.companies
      BY <1>1, <3>1, <3>2 DEF SameRows, Rows
    <3>3. CASE run'.work.companies = Owned(run.work, Owners, NoOrg)
      BY <1>1, <1>5, <3>1, <3>3, OwnedSame DEF SameRows, Rows
    <3> QED
      BY <2>3, <2>5, <3>2, <3>3
  <2>6. RowsOnTheWayDown(run)'
    BY <1>1, <1>4, <2>4, <2>5 DEF RowsOnTheWayDown
  <2> QED
    BY <1>1, <1>4, <1>10, <1>11, <1>14, <2>6 DEF WayOK
<1> QED
  BY <1>13, <1>14

\* The application writes the same rows to what is committed and to what the
\* invocation sees.
LEMMA WriteOnItsWay ==
    ASSUME WayInv, NEW orgs, NEW new, Writes(orgs, new), run # NoRun, MigrationsInv', RunOK(run)'
    PROVE  WayOK(run)'
<1>1. /\ RunOK(run) /\ WayOK(run) /\ run \in Invocations /\ ~run.locked /\ UNCHANGED version
      /\ run' = [run EXCEPT !.work = Inserted(@, orgs, new)]
      /\ run.work \in Databases /\ version \in 0..7
  BY DEF WayInv, MigrationsInv, RunOK, Invocations, Writes, Writable
<1>2. /\ run'.at = run.at /\ run'.to = run.to /\ run'.todo = run.todo /\ run'.locked = run.locked
      /\ run'.work = Inserted(run.work, orgs, new)
  BY <1>1 DEF Invocations
<1>3. run'.work.schema = run.work.schema /\ run.work.orgs \subseteq run'.work.orgs
  <2> DEFINE companies == [c \in Companies |-> IF c \in DOMAIN new THEN new[c] ELSE run.work.companies[c]]
  <2>1. run'.work = [run.work EXCEPT !.orgs = @ \cup orgs, !.companies = companies]
    BY <1>2 DEF Inserted
  <2>2. ASSUME NEW S, NEW O, NEW C, NEW d \in [schema : S, orgs : O, companies : C], NEW rows
        PROVE  LET e == [d EXCEPT !.orgs = @ \cup orgs, !.companies = rows]
               IN  e.schema = d.schema /\ d.orgs \subseteq e.orgs
    OBVIOUS
  <2> HIDE DEF companies
  <2>3. run.work \in [schema : SUBSET UNION {Made(s) : s \in Statements}, orgs : SUBSET Owners,
                      companies : [Companies -> {Absent} \cup Company]]
    BY <1>1 DEF Databases
  <2> QED
    BY <2>1, <2>2, <2>3
<1>4. Script(run)' = Script(run)
  BY <1>1, <1>2 DEF Script
<1>5. Passed(run)' = Passed(run)
  BY <1>2, <1>4 DEF Passed
<1>6. OnItsWay(run)'
  BY <1>1, <1>2, <1>4, <1>5 DEF WayOK, OnItsWay
<1>7. Runnable(run.work.schema, run.todo)'
  BY <1>1, <1>2, <1>3 DEF WayOK
<1>8. run'.work.companies = db'.companies
  BY <1>1, <1>2 DEF RunOK, Unlocked
<1>9. SameRows(run)' /\ Rows(run'.work) = Rows(db')
  BY <1>8 DEF SameRows, Rows
<1>10. version <= 1 => \A c \in Rows(db') : db'.companies[c].org = NoOrg
  <2>1. version \in 0..7 /\ db'.schema = Built(version) /\ Constrained(db')
    <3>1. version' = version
      BY <1>1
    <3> QED
      BY <1>1, <3>1 DEF MigrationsInv
  <2>2. version <= 1 => version \in 0..1
    BY <2>1
  <2> QED
    BY <2>1, <2>2, OwnerlessDatabase
<1>11. CASE version < run.to
  <2>1. RowsOnTheWayUp(run)
    BY <1>1, <1>11 DEF WayOK
  <2>2. RowsOnTheWayUp(run)'
    BY <1>1, <1>2, <1>3, <1>5, <1>8, <1>9, <1>10, <2>1 DEF RowsOnTheWayUp
  <2> QED
    BY <1>1, <1>2, <1>6, <1>7, <1>11, <2>2 DEF WayOK
<1>12. CASE ~(version < run.to)
  <2>1. RowsOnTheWayDown(run)'
    BY <1>8, <1>9 DEF RowsOnTheWayDown
  <2> QED
    BY <1>1, <1>2, <1>6, <1>7, <1>12, <2>1 DEF WayOK
<1> QED
  BY <1>11, <1>12

LEMMA WayInit == Init => WayInv
BY MigrationsInit DEF Init, WayInv

LEMMA WayNext == WayInv /\ [Next]_vars => WayInv'
<1> SUFFICES ASSUME WayInv, [Next]_vars, run' # NoRun
             PROVE  WayOK(run)'
  BY MigrationsNext DEF WayInv
<1>1. MigrationsInv /\ MigrationsInv'
  BY MigrationsNext DEF WayInv
<1>2. CASE \E to \in 0..7 : Invoke(to)
  BY <1>1, <1>2, InvokeOnItsWay
<1>3. CASE NextUpgrade \/ NextDowngrade
  BY <1>3, NextOnItsWay
<1>4. CASE Statement
  BY <1>4, StatementOnItsWay
<1>5. CASE Commit \/ Fails \/ Dies
  BY <1>5 DEF Commit, Fails, Dies, RolledBack
<1>6. ASSUME NEW o \in Organizations, AddOrganization(o)
      PROVE  WayOK(run)'
  <2>1. Writes({o}, <<>>) /\ run # NoRun
    BY <1>6 DEF AddOrganization, Writes
  <2> QED
    BY <1>1, <1>6, <2>1, AddOrganizationKeeps, WriteOnItsWay
<1>7. ASSUME NEW c \in Companies, NEW org \in Owners \cup {NoOrg}, NEW l \in Listings, AddCompany(c, org, l)
      PROVE  WayOK(run)'
  <2>1. Writes({}, [k \in {c} |-> [org |-> org, listing |-> l]]) /\ run # NoRun
    BY <1>7 DEF AddCompany, Writes
  <2>2. RunOK(run)'
    BY <1>1, <1>7, <2>1, AddCompanyKeeps
  <2> QED
    BY <1>1, <2>1, <2>2, WriteOnItsWay
<1>8. CASE UNCHANGED vars
  BY <1>8 DEF vars, WayInv, WayOK, OnItsWay, RowsOnTheWayUp, RowsOnTheWayDown, SameRows, Script, Passed
<1> QED
  BY <1>2, <1>3, <1>4, <1>5, <1>6, <1>7, <1>8 DEF Next
-------------------------------------------------------------------------------
(* The one refusal                                                           *)

LEMMA RunsIfFits ==
    ASSUME NEW d, NEW s, Fits(d.schema, s),
           s.do = "create" => \A o \in s.objects : Satisfied(d, o.name),
           s.do = "backfill" => \A name \in Names(d.schema) : Satisfied(After(d, s), name),
           s.do = "not_null" => \A c \in Rows(d) : d.companies[c].org # NoOrg
    PROVE  Runs(d, s)
BY DEF Runs, Fits, Creatable, Droppable, Names

\* The owner's foreign key is made by one statement.
LEMMA OwnerKeyMade ==
    \A k \in 1..7 : \A i \in DOMAIN Upgrade[k] : \A o \in Made(Upgrade[k][i]) :
        o.name = "fk_companies_organizations" => k = 2 /\ i = 9
<1>1. \A i \in 1..12 : \A o \in TenancyMakes[i] : o.name = "fk_companies_organizations" => i = 9
  BY PartsAre DEF TenancyMakes
<1>2. DOMAIN UpgradeTenancy = 1..12
  BY DEF UpgradeTenancy
<1>3. \A i \in DOMAIN Upgrade[2] : \A o \in Made(Upgrade[2][i]) : o.name = "fk_companies_organizations" => i = 9
  BY <1>1, <1>2, ScriptsAre, TenancyDescribed DEF Describes
<1>4. \A k \in 1..7 : "fk_companies_organizations" \in New[k] => k = 2
  BY NewOnce, NewAre DEF NewTenancy
<1>5. \A k \in 1..7 : \A i \in DOMAIN Upgrade[k] : \A o \in Made(Upgrade[k][i]) : o.name \in New[k]
  BY CreatesPartsOf DEF Creates, PartOf
<1> QED
  BY <1>3, <1>4, <1>5

\* Listings that no two committed companies share, no two companies of the invocation share.
LEMMA ListingsDiffer ==
    ASSUME NEW r, SameRows(r), Admits(db, "uq_companies_exchange"), NEW name
    PROVE  Admits(r.work, name)
BY DEF Admits, SameRows, Rows

\* No upgrade is refused.
LEMMA UpgradeNotRefused ==
    ASSUME WayInv, run # NoRun, run.todo # <<>>, version < run.to
    PROVE  Runs(run.work, Head(run.todo))
<1> DEFINE s == Head(run.todo)
           d == run.work
           k == run.at
           i == Passed(run) + 1
<1>1. /\ i \in DOMAIN Upgrade[k] /\ s = Upgrade[k][i]
      /\ k \in 1..7 /\ k > version
  BY AtStatement
<1>2. /\ RunOK(run) /\ WayOK(run) /\ d \in Databases /\ run.todo \in Seq(Statements) /\ version \in 0..7
      /\ RowsOnTheWayUp(run) /\ SameRows(run)
  BY DEF WayInv, MigrationsInv, RunOK, Invocations, WayOK, RowsOnTheWayUp
<1>3. Fits(d.schema, s)
  BY <1>2, RunnableStep DEF WayOK
<1>4. i \in Nat
  BY <1>1, Positions
<1>5. ASSUME version <= 1
      PROVE  /\ \A name : Admits(d, name)
             /\ k = 2 /\ i > 5 => Bootstrap \in d.orgs
             /\ k = 2 /\ i > 7 => \A c \in Rows(d) : d.companies[c].org = Bootstrap
             /\ \A c \in Rows(d) : d.companies[c].org \in {NoOrg, Bootstrap}
  <2>1. Admits(db, "uq_companies_exchange")
    BY <1>5, OwnerlessAtFirst DEF WayInv
  <2>2. \A name : Admits(d, name)
    BY <1>2, <2>1, ListingsDiffer
  <2>3. (i > 5 => Passed(run) >= 5) /\ (i > 7 => Passed(run) >= 7)
    <3>1. Passed(run) \in Int
      <4>1. \A script \in Seq(Statements) : Len(script) \in Nat
        OBVIOUS
      <4>2. Script(run) \in Seq(Statements)
        BY <1>1, AtStatement, ScriptsOfStatements
      <4> QED
        BY <1>2, <4>1, <4>2 DEF Passed
    <3> QED
      BY <3>1
  <2> HIDE DEF i
  <2> QED
    BY <1>2, <1>5, <2>2, <2>3 DEF RowsOnTheWayUp
<1> HIDE DEF s, i
<1>6. ASSUME s.do = "create", NEW o \in s.objects
      PROVE  Satisfied(d, o.name)
  <2>1. o \in Made(Upgrade[k][i]) /\ o \in Creates(k)
    BY <1>1, <1>6 DEF Made, Creates
  <2>2. o.name \in New[k] /\ (o.name = "fk_companies_organizations" => k = 2 /\ i = 9)
    BY <1>1, <2>1, CreatesPartsOf, OwnerKeyMade DEF PartOf
  <2>3. CASE version >= 2
    <3>1. o.name \notin CompanyParts
      BY <1>1, <1>2, <2>2, <2>3, Elsewhere
    <3> QED
      BY <3>1, SatisfiedIs DEF CompanyParts
  <2>4. CASE version <= 1
    BY <1>5, <2>2, <2>4, SatisfiedIs
  <2> QED
    BY <1>2, <2>3, <2>4
<1>7. ASSUME s.do \in {"backfill", "not_null"}
      PROVE  k = 2 /\ version <= 1 /\ i = (IF s.do = "backfill" THEN 7 ELSE 8)
  <2>1. k = 2
    BY <1>1, <1>7, UpgradesMake DEF MadeBy
  <2> QED
    BY <1>1, <1>2, <1>7, <2>1, TenancyDoes DEF MadeBy
<1>8. ASSUME s.do = "backfill", NEW name \in Names(d.schema)
      PROVE  Satisfied(After(d, s), name)
  <2> DEFINE e == After(d, s)
  <2>1. k = 2 /\ i = 7 /\ version <= 1 /\ Bootstrap \in d.orgs /\ Bootstrap \in Owners
    BY <1>5, <1>7, <1>8 DEF Owners
  <2>2. e.orgs = d.orgs /\ e.companies = Owned(d, {NoOrg}, Bootstrap)
    BY <1>8 DEF After
  <2> HIDE DEF e
  <2>3. /\ \A c \in Companies : e.companies[c] = Absent <=> d.companies[c] = Absent
        /\ \A c \in Rows(d) : e.companies[c].listing = d.companies[c].listing /\ e.companies[c].org = Bootstrap
    BY <1>2, <1>5, <2>1, <2>2, OwnedSame DEF Rows
  <2>4. Rows(e) = Rows(d)
    BY <2>3 DEF Rows
  <2>5. Admits(d, "uq_companies_exchange")
    BY <1>5, <2>1
  <2>6. Admits(e, name)
    BY <2>3, <2>4, <2>5 DEF Admits
  <2>7. \A c \in Rows(e) : e.companies[c].org \in e.orgs
    BY <2>1, <2>2, <2>3, <2>4
  <2> QED
    BY <2>6, <2>7, SatisfiedIs DEF e
<1>9. ASSUME s.do = "not_null"
      PROVE  \A c \in Rows(d) : d.companies[c].org # NoOrg
  BY <1>5, <1>7, <1>9, MigrationsAssumption
<1> QED
  BY <1>3, <1>6, <1>8, <1>9, RunsIfFits DEF s

\* The only statement that can be refused is the one that makes the constraint on
\* listings again.
LEMMA OnlyRefusal ==
    ASSUME WayInv, run # NoRun, run.todo # <<>>, ~Runs(run.work, Head(run.todo))
    PROVE  version >= 2 /\ run.to < 2 /\ SharedListing
<1> DEFINE s == Head(run.todo)
           d == run.work
           k == run.at + 1
           i == Passed(run) + 1
<1>1. /\ RunOK(run) /\ WayOK(run) /\ run.todo \in Seq(Statements) /\ version \in 0..7 /\ run.to \in 0..7
      /\ run.at \in 0..7
  BY DEF WayInv, MigrationsInv, RunOK, Invocations
<1>2. ~(version < run.to) /\ version >= run.to
  BY <1>1, UpgradeNotRefused
<1>3. /\ i \in DOMAIN Downgrade[k] /\ s = Downgrade[k][i]
      /\ k \in 1..7 /\ run.at < version /\ run.to <= run.at
  BY <1>1, <1>2, AtStatement DEF WayOK, OnItsWay
<1>4. Fits(d.schema, s)
  BY <1>1, RunnableStep DEF WayOK
<1> HIDE DEF i
<1>5. k = 2 /\ i = 3
  <2>1. ASSUME DroppedBy(s, k)
        PROVE  FALSE
    <3>1. s.do \in {"drop", "drop_type"}
      BY <2>1 DEF DroppedBy, Drop, DropType
    <3> HIDE DEF s
    <3>2. Runs(d, s)
      BY <1>4, <3>1, RunsIfFits
    <3> QED
      BY <3>2 DEF s
  <2> QED
    BY <1>3, <2>1, DowngradesDrop
<1>6. run.at = 1 /\ version >= 2 /\ run.to < 2 /\ s = Create({Exchange})
  BY <1>1, <1>3, <1>5, ListingsAgain
<1>7. SameRows(run)
  BY <1>1, <1>2, <1>6 DEF WayOK, RowsOnTheWayDown
<1>8. ~Admits(d, "uq_companies_exchange")
  <2>1. s.do = "create" /\ s.objects = {Exchange} /\ Exchange.name = "uq_companies_exchange"
    BY <1>6, PartsAre DEF Create, Exchange
  <2> HIDE DEF s
  <2>2. ~Satisfied(d, "uq_companies_exchange")
    BY <1>4, <2>1, RunsIfFits DEF s
  <2> QED
    BY <2>2, SatisfiedIs
<1>9. SharedListing
  BY <1>7, <1>8 DEF Admits, SameRows, Rows, SharedListing
<1> QED
  BY <1>6, <1>9

-------------------------------------------------------------------------------
(* What an invocation commits                                                *)

LEMMA CommitKeepsCompanies ==
    ASSUME WayInv, Commit, run.to >= 1, NEW c \in Companies
    PROVE  db'.companies[c] =
               IF db.companies[c] = Absent THEN Absent
               ELSE [org |-> IF run.to = 1 THEN NoOrg
                             ELSE IF version = 1 THEN Bootstrap ELSE db.companies[c].org,
                     listing |-> db.companies[c].listing]
<1> DEFINE d == run.work
<1>1. /\ run # NoRun /\ run.todo = <<>> /\ run.at = run.to /\ db' = d
      /\ RunOK(run) /\ WayOK(run) /\ d \in Databases /\ db \in Databases /\ Constrained(d)
      /\ version \in 0..7 /\ run.to \in 0..7
  BY DEF Commit, WayInv, MigrationsInv, RunOK, Invocations
<1>2. d.schema = Built(run.to)
  BY <1>1, ResultOfNothing DEF RunOK
<1>3. /\ db.companies[c] \in {Absent} \cup Company /\ d.companies[c] \in {Absent} \cup Company
      /\ c \in Rows(db) <=> db.companies[c] # Absent
      /\ c \in Rows(d) <=> d.companies[c] # Absent
  BY <1>1 DEF Databases, Rows
<1>4. version # run.to /\ (version >= run.to => version > run.to)
  BY <1>1 DEF WayOK, OnItsWay
<1> HIDE DEF d
<1>5. CASE run.to = 1
  <2>1. SameRows(run)
    BY <1>1, <1>5 DEF WayOK, RowsOnTheWayUp, RowsOnTheWayDown
  <2>2. "organization_id" \notin Names(d.schema)
    BY <1>2, <1>5, BuiltNames
  <2>3. c \in Rows(d) => d.companies[c].org = NoOrg
    BY <1>1, <2>2 DEF Constrained
  <2> QED
    BY <1>1, <1>3, <1>5, <2>1, <2>3 DEF SameRows, Company, d
<1>6. CASE run.to >= 2 /\ version >= 2
  <2>1. d.companies = db.companies
    BY <1>1, <1>6 DEF WayOK, RowsOnTheWayUp, RowsOnTheWayDown, d
  <2> QED
    BY <1>1, <1>3, <1>6, <2>1 DEF Company
<1>7. CASE run.to >= 2 /\ version <= 1
  <2>1. RowsOnTheWayUp(run)
    BY <1>1, <1>7 DEF WayOK
  <2>2. "fk_companies_organizations" \in Names(d.schema)
    BY <1>1, <1>2, <1>7, BuiltNames
  <2>3. c \in Rows(d) => d.companies[c].org \in Owners
    BY <1>1, <2>2, SatisfiedIs DEF Constrained, Databases
  <2>4. c \in Rows(d) => d.companies[c].org = Bootstrap
    BY <1>7, <2>1, <2>3, MigrationsAssumption DEF RowsOnTheWayUp, Owners, d
  <2>5. version = 0 => c \notin Rows(db)
    BY <1>7, OwnerlessAtFirst DEF WayInv
  <2> QED
    BY <1>1, <1>3, <1>7, <2>1, <2>4, <2>5 DEF RowsOnTheWayUp, SameRows, Company, d
<1> QED
  BY <1>1, <1>5, <1>6, <1>7

\* An invocation is over only when it commits, fails or dies.
LEMMA EndsOf ==
    ASSUME WayInv, [Next]_vars, run # NoRun, run' = NoRun
    PROVE  Commit \/ Fails \/ Dies
<1>1. ~RunOK(run)'
  BY ValuesApart DEF RunOK
<1>2. MigrationsInv
  BY DEF WayInv
<1>3. ~UNCHANGED vars
  BY DEF vars
<1> QED
  BY <1>1, <1>2, <1>3, InvokeKeeps, NextRevisionKeeps, StatementStepKeeps, AddOrganizationKeeps,
     AddCompanyKeeps DEF Next

\* An invocation that commits keeps every company, gives those without an owner to the
\* bootstrap organization and changes no other owner; upgrade() is never refused, nor
\* downgrade() unless it goes back past 0002 while two organizations share a listing.
THEOREM InvocationsKeepOrRefuse == Spec => KeepsOrRefuses
<1> DEFINE Kept ==
        run # NoRun /\ run' = NoRun =>
            /\ outcome' = "failed" => version >= 2 /\ run.to < 2 /\ SharedListing
            /\ outcome' = "done" /\ run.to >= 1 =>
                 \A c \in Companies :
                    db'.companies[c] =
                        IF db.companies[c] = Absent THEN Absent
                        ELSE [org |-> IF run.to = 1 THEN NoOrg
                                      ELSE IF version = 1 THEN Bootstrap ELSE db.companies[c].org,
                              listing |-> db.companies[c].listing]
<1>1. WayInv /\ [Next]_vars => [Kept]_vars
  <2> SUFFICES ASSUME WayInv, [Next]_vars, run # NoRun, run' = NoRun
               PROVE  Kept
    OBVIOUS
  <2>1. CASE Commit
    <3>1. outcome' = "done"
      BY <2>1 DEF Commit
    <3>2. outcome' # "failed"
      BY <3>1
    <3> QED
      BY <2>1, <3>2, CommitKeepsCompanies
  <2>2. CASE Fails
    BY <2>2, OnlyRefusal DEF Fails, RolledBack
  <2>3. CASE Dies
    BY <2>3 DEF Dies, RolledBack
  <2> QED
    BY <2>1, <2>2, <2>3, EndsOf
<1> QED
  BY <1>1, WayInit, WayNext, PTL DEF Spec, KeepsOrRefuses

===============================================================================
