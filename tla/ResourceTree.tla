----------------------------- MODULE ResourceTree -----------------------------
(***************************************************************************)
(* What the catalogue promises: organizations with slugs of their own,     *)
(* researches under an organization and datasources under a research of    *)
(* the same organization.  An entry appears under a parent that is there   *)
(* and goes together with everything under it, in one step.                *)
(***************************************************************************)

CONSTANTS Ids, Values, Absent

VARIABLE row     \* row[i]: the entry with id i, or Absent

Entry == [kind : {"organization", "research", "datasource"}, org : Ids, parent : Ids, value : Values]

Is(kind, i) == row[i] # Absent /\ row[i].kind = kind

Under(i) == {k \in Ids : Is("datasource", k) /\ row[k].parent = i}

\* An entry hangs under a parent of its own organization.
Placed(i) ==
    /\ Is("organization", i) => row[i].org = i /\ row[i].parent = i
    /\ Is("research", i)     => row[i].parent = row[i].org /\ Is("organization", row[i].org)
    /\ Is("datasource", i)   => Is("research", row[i].parent) /\ row[row[i].parent].org = row[i].org

\* Slugs are unique.
WellFormed ==
    /\ row \in [Ids -> Entry \cup {Absent}]
    /\ \A i \in Ids : Placed(i)
    /\ \A i, k \in Ids :
         Is("organization", i) /\ Is("organization", k) /\ row[i].value = row[k].value => i = k

AddOrganization(i, slug) ==
    /\ row[i] = Absent
    /\ \A k \in Ids : Is("organization", k) => row[k].value # slug
    /\ row' = [row EXCEPT ![i] = [kind |-> "organization", org |-> i, parent |-> i, value |-> slug]]

AddResearch(i, org, name) ==
    /\ row[i] = Absent /\ Is("organization", org)
    /\ row' = [row EXCEPT ![i] = [kind |-> "research", org |-> org, parent |-> org, value |-> name]]

AddDatasource(i, research, name) ==
    /\ row[i] = Absent /\ Is("research", research)
    /\ row' = [row EXCEPT ![i] = [kind |-> "datasource", org |-> row[research].org,
                                  parent |-> research, value |-> name]]

Rename(i, name) ==
    /\ Is("research", i) \/ Is("datasource", i)
    /\ row' = [row EXCEPT ![i].value = name]

Remove(i) ==
    /\ Is("research", i) \/ Is("datasource", i)
    /\ row' = [k \in Ids |-> IF k \in {i} \cup Under(i) THEN Absent ELSE row[k]]

Next ==
    \E i \in Ids :
        \/ \E v \in Values : AddOrganization(i, v) \/ Rename(i, v)
        \/ \E p \in Ids, v \in Values : AddResearch(i, p, v) \/ AddDatasource(i, p, v)
        \/ Remove(i)

Spec == WellFormed /\ [][Next]_row

===============================================================================
