---------------------------- MODULE Catalogue_proofs ----------------------------
(***************************************************************************)
(* Catalogue implements ResourceTree, and a deletion that was answered     *)
(* lasts: for any requests, ids, slugs and names.                          *)
(*                                                                         *)
(* The look-ups are stale by the time of the write, so the invariant says  *)
(* what the locks and keys keep true of a request inside its transaction   *)
(* (OpenOK), and what stays true of an id once a client knows it: it names *)
(* the same entry or none (FoundOK).                                       *)
(***************************************************************************)
EXTENDS Catalogue, TLAPS

Typed == req \in [Requests -> Request]

\* An id has a row only after its request has committed, and a request only
\* names rows of requests that have.
IdsOK ==
    \A q \in Requests :
        /\ row[q] # Absent => req[q].pc \in {"committed", "finished"}
        /\ req[q].op \in {"datasource", "patch", "delete"} /\ req[q].target \in Requests =>
             req[req[q].target].pc \in {"committed", "finished"}
        /\ req[q].pc \in {"begun", "checked", "open"} => req[q].op \in Ops /\ req[q].answer = "none"
        /\ req[q].pc = "idle" => req[q].op = "none" /\ req[q].answer = "none"
        /\ req[q].op = "organization" => req[q].org = q /\ req[q].target = q
        /\ req[q].op = "research" => req[q].target = req[q].org
        /\ req[q].op \in Creations => req[q].value \in Values
        /\ req[q].pc = "open" => req[q].op \in Creations \cup {"delete"}

\* The entry a request has found is what it was, or gone.
FoundOK ==
    \A q \in Requests : req[q].pc \in {"checked", "open"} /\ row[req[q].target] # Absent =>
        /\ req[q].op = "datasource" => Is("research", req[q].target) /\ row[req[q].target].org = req[q].org
        /\ req[q].op \in {"patch", "delete"} => Is("research", req[q].target) \/ Is("datasource", req[q].target)

\* What an open INSERT was admitted for still holds.
OpenOK ==
    \A q \in Requests :
        /\ Open(q, "organization") =>
             /\ SlugFree(req[q].value)
             /\ \A p \in Requests : Open(p, "organization") /\ req[p].value = req[q].value => p = q
        /\ Open(q, "research") => Is("organization", req[q].org)
        /\ Open(q, "datasource") =>
             /\ Is("research", req[q].target)
             /\ \A d \in Requests : Open(d, "delete") => req[d].target # req[q].target

GoneOK == \A q \in Requests : req[q].answer = "deleted" => req[q].op = "delete" /\ row[req[q].target] = Absent

CatInv == Tree!WellFormed /\ Typed /\ IdsOK /\ FoundOK /\ OpenOK /\ GoneOK

-------------------------------------------------------------------------------
(* What the parts of an action do                                            *)

\* Nothing is there but the seeds, and no request has begun.
LEMMA CatInitial == Init => CatInv
<1> SUFFICES ASSUME Init PROVE CatInv
  OBVIOUS
<1>1. Tree!WellFormed /\ \A q \in Requests : req[q] = Idle(q)
  BY DEF Init
<1>2. \A q \in Requests : row[q] = Absent
  BY CatalogueAssumption DEF Init, Ids
<1>3. Typed
  <2>1. ASSUME NEW q \in Requests PROVE Idle(q) \in Request
    BY DEF Request, Idle, Ids, Answers
  <2> QED BY <2>1 DEF Init, Typed
<1>4. \A q \in Requests : /\ req[q].pc = "idle" /\ req[q].op = "none" /\ req[q].answer = "none"
  <2>1. ASSUME NEW q \in Requests
        PROVE  Idle(q).pc = "idle" /\ Idle(q).op = "none" /\ Idle(q).answer = "none"
    BY DEF Idle
  <2> QED BY <1>1, <2>1
<1> QED BY <1>1, <1>2, <1>3, <1>4 DEF CatInv, IdsOK, FoundOK, OpenOK, GoneOK, Open, At, Creations

\* Goes moves one program counter.
LEMMA GoesOn ==
    ASSUME Typed, NEW q \in Requests,
           NEW pc \in {"begun", "checked", "open", "committed"}, Goes(q, pc)
    PROVE  /\ Typed'
           /\ \A p \in Requests : p # q => req'[p] = req[p]
           /\ req'[q].pc = pc /\ req'[q].answer = req[q].answer
           /\ req'[q].op = req[q].op /\ req'[q].org = req[q].org
           /\ req'[q].target = req[q].target /\ req'[q].value = req[q].value
BY DEF Typed, Goes, Request

\* Answer ends one request.
LEMMA Answered ==
    ASSUME Typed, NEW q \in Requests, NEW a \in Answers, Answer(q, a)
    PROVE  /\ Typed'
           /\ \A p \in Requests : p # q => req'[p] = req[p]
           /\ req'[q].pc = "finished" /\ req'[q].answer = a
           /\ req'[q].op = req[q].op /\ req'[q].org = req[q].org
           /\ req'[q].target = req[q].target /\ req'[q].value = req[q].value
BY DEF Typed, Answer, Request

\* A request that reads, or that gives up, disturbs no other: it may only go on
\* to "checked" with what it has found.
LEMMA QuietStep ==
    ASSUME CatInv, NEW q \in Requests, row' = row, Typed',
           \A p \in Requests : p # q => req'[p] = req[p],
           req'[q].op = req[q].op, req'[q].org = req[q].org,
           req'[q].target = req[q].target, req'[q].value = req[q].value,
           req'[q].pc \in {"checked", "committed", "finished"},
           req'[q].pc = "checked" =>
             /\ req[q].pc = "begun" /\ req'[q].answer = req[q].answer
             /\ req[q].op = "datasource" =>
                  Is("research", req[q].target) /\ row[req[q].target].org = req[q].org
             /\ req[q].op \in {"patch", "delete"} => Belongs(req[q].target, req[q].org),
           req'[q].answer # "deleted" \/ req'[q].answer = req[q].answer
    PROVE  CatInv'
<1>1. Tree!WellFormed'
  BY DEF CatInv, Tree!WellFormed, Tree!Placed, Tree!Is
<1>2. IdsOK'
  BY DEF CatInv, IdsOK
<1>3. FoundOK'
  BY DEF CatInv, FoundOK, Is, Belongs
<1>4. OpenOK'
  <2>1. \A p \in Requests, op \in Ops : Open(p, op)' => p # q /\ Open(p, op)
    BY DEF Open, At
  <2> QED BY <2>1 DEF CatInv, OpenOK, SlugFree, Is, Open, At, Ops
<1>5. GoneOK'
  BY DEF CatInv, GoneOK
<1> QED BY <1>1, <1>2, <1>3, <1>4, <1>5 DEF CatInv

\* A statement that opens a transaction.
LEMMA OpensStep ==
    ASSUME CatInv, NEW q \in Requests, row' = row, At(q, "checked"), Goes(q, "open"),
           req[q].op \in Creations \cup {"delete"},
           req[q].op = "organization" =>
             /\ SlugFree(req[q].value)
             /\ \A p \in Requests : ~(Open(p, "organization") /\ req[p].value = req[q].value),
           req[q].op = "research" => Is("organization", req[q].org),
           req[q].op = "datasource" =>
             /\ Is("research", req[q].target)
             /\ \A d \in Requests : Open(d, "delete") => req[d].target # req[q].target,
           req[q].op = "delete" => ~KeyShared(req[q].target)
    PROVE  CatInv'
<1>0. /\ Typed'
      /\ \A p \in Requests : p # q => req'[p] = req[p]
      /\ req'[q].pc = "open" /\ req'[q].answer = req[q].answer
      /\ req'[q].op = req[q].op /\ req'[q].org = req[q].org
      /\ req'[q].target = req[q].target /\ req'[q].value = req[q].value
      /\ req[q].pc = "checked"
  BY GoesOn DEF CatInv, At
<1>1. Tree!WellFormed'
  BY DEF CatInv, Tree!WellFormed, Tree!Placed, Tree!Is
<1>2. IdsOK'
  BY <1>0 DEF CatInv, IdsOK
<1>3. FoundOK'
  BY <1>0 DEF CatInv, FoundOK, Is
<1>4. OpenOK'
  <2>1. \A p \in Requests, op \in Ops : p # q => (Open(p, op)' <=> Open(p, op))
    BY <1>0 DEF Open, At
  <2>2. \A op \in Ops : Open(q, op)' <=> req[q].op = op
    BY <1>0 DEF Open, At
  <2>3. ASSUME NEW p \in Requests, Open(p, "organization")'
        PROVE  /\ SlugFree(req[p].value)
               /\ \A r \in Requests : Open(r, "organization")' /\ req[r].value = req[p].value => r = p
    BY <2>1, <2>2, <2>3 DEF CatInv, OpenOK, Ops
  <2>4. ASSUME NEW p \in Requests, Open(p, "research")' PROVE Is("organization", req[p].org)
    BY <2>1, <2>2, <2>4 DEF CatInv, OpenOK, Ops
  <2>5. ASSUME NEW p \in Requests, Open(p, "datasource")'
        PROVE  /\ Is("research", req[p].target)
               /\ \A d \in Requests : Open(d, "delete")' => req[d].target # req[p].target
    BY <2>1, <2>2, <2>5 DEF CatInv, OpenOK, Ops, KeyShared
  <2>6. \A p \in Requests : /\ req'[p].value = req[p].value /\ req'[p].org = req[p].org
                            /\ req'[p].target = req[p].target
    BY <1>0
  <2> QED BY <2>3, <2>4, <2>5, <2>6 DEF OpenOK, SlugFree, Is
<1>5. GoneOK'
  BY <1>0 DEF CatInv, GoneOK
<1> QED BY <1>0, <1>1, <1>2, <1>3, <1>4, <1>5 DEF CatInv

-------------------------------------------------------------------------------
(* What a commit makes of the tree                                           *)

\* An id that a request inside its transaction names is not that of another
\* request inside its own.
LEMMA TargetsCommitted ==
    ASSUME CatInv, NEW q \in Requests, req[q].pc = "open", NEW p \in Requests,
           req[p].op \in {"datasource", "patch", "delete"}
    PROVE  req[p].target # q
BY DEF CatInv, IdsOK

\* The commit of a creation adds one entry, as ResourceTree allows.
LEMMA CreationCommits ==
    ASSUME CatInv, NEW q \in Requests, req[q].pc = "open", req[q].op \in Creations,
           row' = [row EXCEPT ![q] = New(q)]
    PROVE  /\ Tree!WellFormed' /\ Tree!Next
           /\ row[q] = Absent /\ row' \in [Ids -> Tree!Entry \cup {Absent}]
           /\ row'[q] = New(q) /\ \A i \in Ids : i # q => row'[i] = row[i]
<1> DEFINE e == New(q)
<1>0. /\ row \in [Ids -> Tree!Entry \cup {Absent}] /\ q \in Ids
      /\ row[q] = Absent /\ req[q].value \in Values
      /\ req[q].org \in Ids /\ req[q].target \in Ids
  BY DEF CatInv, Tree!WellFormed, IdsOK, Ids, Typed, Request
<1>1. /\ e \in Tree!Entry /\ e # Absent
      /\ e.kind = req[q].op /\ e.org = req[q].org /\ e.parent = req[q].target /\ e.value = req[q].value
  BY <1>0, CatalogueAssumption DEF New, Tree!Entry, Creations
<1>2. row'[q] = e /\ \A i \in Ids : i # q => row'[i] = row[i]
  BY <1>0
<1>3. row' \in [Ids -> Tree!Entry \cup {Absent}]
  BY <1>0, <1>1
<1> HIDE DEF e
<1>4. \A i \in Ids : row[i] # Absent => row'[i] = row[i]
  BY <1>0, <1>2
<1>5. CASE req[q].op = "organization"
  <2>1. /\ req[q].org = q /\ req[q].target = q
        /\ \A k \in Ids : Tree!Is("organization", k) => row[k].value # req[q].value
    BY <1>5 DEF CatInv, IdsOK, OpenOK, Open, At, SlugFree, Is, Tree!Is
  <2>2. e = [kind |-> "organization", org |-> q, parent |-> q, value |-> req[q].value]
    BY <1>5, <2>1 DEF e, New
  <2>3. Tree!Next
    <3>1. Tree!AddOrganization(q, req[q].value)
      BY <1>0, <2>1, <2>2 DEF Tree!AddOrganization, e
    <3> QED BY <3>1, <1>0 DEF Tree!Next
  <2>4. Tree!WellFormed'
    <3>1. \A i \in Ids : Tree!Is("organization", i)' => i = q \/ Tree!Is("organization", i)
      BY <1>2 DEF Tree!Is
    <3>2. ASSUME NEW i \in Ids PROVE Tree!Placed(i)'
      <4>1. CASE i = q
        BY <4>1, <1>1, <1>2, <1>5, <2>1 DEF Tree!Placed, Tree!Is
      <4>2. CASE i # q
        BY <4>2, <1>0, <1>2, <1>4 DEF CatInv, Tree!WellFormed, Tree!Placed, Tree!Is, Tree!Entry
      <4> QED BY <4>1, <4>2
    <3>3. ASSUME NEW i \in Ids, NEW k \in Ids, Tree!Is("organization", i)', Tree!Is("organization", k)',
                 row'[i].value = row'[k].value
          PROVE  i = k
      BY <1>1, <1>2, <2>1, <3>1, <3>3 DEF CatInv, Tree!WellFormed
    <3> QED BY <1>3, <3>2, <3>3 DEF Tree!WellFormed
  <2> QED BY <1>0, <1>2, <1>3, <2>3, <2>4 DEF e
<1>6. CASE req[q].op # "organization"
  <2>1. \A i \in Ids : Tree!Is("organization", i)' => Tree!Is("organization", i) /\ row'[i] = row[i]
    BY <1>1, <1>2, <1>6 DEF Tree!Is
  <2>2. ASSUME NEW i \in Ids, i # q PROVE Tree!Placed(i)'
    BY <1>0, <1>2, <1>4, <2>2 DEF CatInv, Tree!WellFormed, Tree!Placed, Tree!Is, Tree!Entry
  <2>3. \A i, k \in Ids : Tree!Is("organization", i)' /\ Tree!Is("organization", k)'
                            /\ row'[i].value = row'[k].value => i = k
    BY <2>1 DEF CatInv, Tree!WellFormed
  <2>4. CASE req[q].op = "research"
    <3>1. Tree!Is("organization", req[q].org) /\ req[q].target = req[q].org
      BY <2>4 DEF CatInv, IdsOK, OpenOK, Open, At, Is, Tree!Is
    <3>2. e = [kind |-> "research", org |-> req[q].org, parent |-> req[q].org, value |-> req[q].value]
      BY <2>4, <3>1 DEF e, New
    <3>3. Tree!Next
      <4>1. Tree!AddResearch(q, req[q].org, req[q].value)
        BY <1>0, <3>1, <3>2 DEF Tree!AddResearch, e
      <4> QED BY <4>1, <1>0 DEF Tree!Next
    <3>4. Tree!Placed(q)'
      BY <1>0, <1>1, <1>2, <1>4, <3>1, <2>4 DEF Tree!Placed, Tree!Is
    <3> QED BY <1>0, <1>2, <1>3, <2>2, <2>3, <3>3, <3>4 DEF Tree!WellFormed, e
  <2>5. CASE req[q].op = "datasource"
    <3>1. Tree!Is("research", req[q].target) /\ row[req[q].target].org = req[q].org
      BY <2>5 DEF CatInv, FoundOK, OpenOK, Open, At, Is, Tree!Is
    <3>2. e = [kind |-> "datasource", org |-> row[req[q].target].org, parent |-> req[q].target,
               value |-> req[q].value]
      BY <2>5, <3>1 DEF e, New
    <3>3. Tree!Next
      <4>1. Tree!AddDatasource(q, req[q].target, req[q].value)
        BY <1>0, <3>1, <3>2 DEF Tree!AddDatasource, e
      <4> QED BY <4>1, <1>0 DEF Tree!Next
    <3>4. Tree!Placed(q)'
      BY <1>0, <1>1, <1>2, <1>4, <3>1, <2>5 DEF Tree!Placed, Tree!Is
    <3> QED BY <1>0, <1>2, <1>3, <2>2, <2>3, <3>3, <3>4 DEF Tree!WellFormed, e
  <2> QED BY <1>6, <2>4, <2>5 DEF Creations
<1> QED BY <1>5, <1>6

\* The commit of a deletion takes the entry and its datasources, or nothing when
\* the entry is gone already.
LEMMA DeletionCommits ==
    ASSUME CatInv, NEW q \in Requests, req[q].pc = "open", req[q].op = "delete",
           row' = [i \in Ids |-> IF i \in Erased(req[q].target) THEN Absent ELSE row[i]]
    PROVE  /\ Tree!WellFormed' /\ (Tree!Next \/ row' = row)
           /\ row' \in [Ids -> Tree!Entry \cup {Absent}]
           /\ row'[req[q].target] = Absent
           /\ \A i \in Ids : row'[i] = Absent \/ row'[i] = row[i]
           /\ \A i \in Ids : Is("organization", i) => row'[i] = row[i]
           /\ \A i \in Ids : Is("research", i) /\ i # req[q].target => row'[i] = row[i]
<1> DEFINE t == req[q].target
<1>0. /\ row \in [Ids -> Tree!Entry \cup {Absent}] /\ t \in Ids
      /\ row[t] # Absent => Tree!Is("research", t) \/ Tree!Is("datasource", t)
  BY DEF CatInv, Tree!WellFormed, Typed, Request, FoundOK, Is, Tree!Is
<1>1. Erased(t) = {t} \cup Tree!Under(t)
  BY DEF Erased, Tree!Under, Is, Tree!Is
<1>2. /\ row' \in [Ids -> Tree!Entry \cup {Absent}]
      /\ row'[t] = Absent
      /\ \A i \in Ids : row'[i] = IF i \in {t} \cup Tree!Under(t) THEN Absent ELSE row[i]
  BY <1>0, <1>1
<1>3. \A i \in Ids : Tree!Is("organization", i) => row'[i] = row[i]
  BY <1>0, <1>2 DEF Tree!Is, Tree!Under
<1>4. \A i \in Ids : Tree!Is("research", i) /\ i # t => row'[i] = row[i]
  BY <1>2 DEF Tree!Is, Tree!Under
<1>5. Tree!Next \/ row' = row
  <2>1. CASE row[t] # Absent
    BY <1>0, <1>1, <2>1 DEF Tree!Next, Tree!Remove
  <2>2. CASE row[t] = Absent
    <3>1. Tree!Under(t) = {}
      BY <2>2 DEF Tree!Under, CatInv, Tree!WellFormed, Tree!Placed, Tree!Is
    <3>2. \A i \in Ids : row'[i] = row[i]
      BY <1>2, <2>2, <3>1
    <3> QED BY <1>0, <1>2, <3>2
  <2> QED BY <2>1, <2>2
<1>6. Tree!WellFormed'
  <2>1. ASSUME NEW i \in Ids PROVE Tree!Placed(i)'
    <3>1. CASE Tree!Is("datasource", i)'
      <4>1. row'[i] = row[i] /\ Tree!Is("datasource", i) /\ i \notin Tree!Under(t)
        BY <1>2, <3>1 DEF Tree!Is
      <4>2. row[i].parent # t /\ row[i].parent \in Ids
        BY <4>1, <1>0 DEF Tree!Under, Tree!Is, Tree!Entry
      <4>3. Tree!Is("research", row[i].parent) /\ row[row[i].parent].org = row[i].org
        BY <4>1 DEF CatInv, Tree!WellFormed, Tree!Placed
      <4>4. row'[row[i].parent] = row[row[i].parent]
        BY <4>2, <4>3, <1>4
      <4> QED BY <3>1, <4>1, <4>3, <4>4 DEF Tree!Placed, Tree!Is
    <3>2. CASE Tree!Is("research", i)'
      <4>1. row'[i] = row[i] /\ Tree!Is("research", i) /\ row[i].org \in Ids
        BY <1>0, <1>2, <3>2 DEF Tree!Is, Tree!Entry
      <4>2. row[i].parent = row[i].org /\ Tree!Is("organization", row[i].org)
        BY <4>1 DEF CatInv, Tree!WellFormed, Tree!Placed
      <4> QED BY <3>2, <4>1, <4>2, <1>3 DEF Tree!Placed, Tree!Is
    <3>3. CASE Tree!Is("organization", i)'
      BY <1>2, <3>3 DEF CatInv, Tree!WellFormed, Tree!Placed, Tree!Is
    <3>4. CASE row'[i] = Absent
      BY <3>4 DEF Tree!Placed, Tree!Is
    <3>5. row'[i] # Absent => row'[i].kind \in {"organization", "research", "datasource"}
      BY <1>2 DEF Tree!Entry
    <3> QED BY <3>1, <3>2, <3>3, <3>4, <3>5 DEF Tree!Is
  <2>2. \A i, k \in Ids : Tree!Is("organization", i)' /\ Tree!Is("organization", k)'
                            /\ row'[i].value = row'[k].value => i = k
    BY <1>2 DEF CatInv, Tree!WellFormed, Tree!Is
  <2> QED BY <1>2, <2>1, <2>2 DEF Tree!WellFormed
<1> QED BY <1>2, <1>3, <1>4, <1>5, <1>6 DEF Is, Tree!Is

\* A PATCH changes the value of a research or a datasource.
LEMMA PatchCommits ==
    ASSUME CatInv, NEW t \in Ids, Is("research", t) \/ Is("datasource", t), NEW v \in Values,
           row' = [row EXCEPT ![t].value = v]
    PROVE  /\ Tree!WellFormed' /\ Tree!Next
           /\ \A i \in Ids : i # t => row'[i] = row[i]
           /\ row'[t] # Absent /\ row'[t].kind = row[t].kind /\ row'[t].org = row[t].org
<1>0. row \in [Ids -> Tree!Entry \cup {Absent}] /\ row[t] # Absent /\ row[t] \in Tree!Entry
  BY DEF CatInv, Tree!WellFormed, Is
<1> DEFINE e == [kind |-> row[t].kind, org |-> row[t].org, parent |-> row[t].parent, value |-> v]
<1>1. e \in Tree!Entry /\ e # Absent
  BY <1>0, CatalogueAssumption DEF Tree!Entry
<1>2. row'[t] = e /\ \A i \in Ids : i # t => row'[i] = row[i]
  <2>1. row'[t] = [row[t] EXCEPT !.value = v]
    BY <1>0
  <2>2. row[t] = [kind |-> row[t].kind, org |-> row[t].org, parent |-> row[t].parent, value |-> row[t].value]
    BY <1>0 DEF Tree!Entry
  <2> QED BY <1>0, <2>1, <2>2
<1>3. /\ e.kind = row[t].kind /\ e.org = row[t].org /\ e.parent = row[t].parent
      /\ row' \in [Ids -> Tree!Entry \cup {Absent}]
  <2>1. row' = [i \in Ids |-> IF i = t THEN e ELSE row[i]]
    BY <1>0, <1>2
  <2> QED BY <1>0, <1>1, <2>1
<1> HIDE DEF e
<1>4. Tree!Next
  <2>1. Tree!Rename(t, v)
    BY DEF Tree!Rename, Is, Tree!Is
  <2> QED BY <2>1 DEF Tree!Next
<1>5. \A i \in Ids : /\ row'[i] = Absent <=> row[i] = Absent
                     /\ row[i] # Absent => /\ row'[i].kind = row[i].kind /\ row'[i].org = row[i].org
                                           /\ row'[i].parent = row[i].parent
  BY <1>0, <1>1, <1>2, <1>3
<1>6. \A i \in Ids : Tree!Placed(i)'
  <2>1. ASSUME NEW i \in Ids PROVE Tree!Placed(i)'
    <3>1. Tree!Placed(i)
      BY DEF CatInv, Tree!WellFormed
    <3>2. row[i] # Absent => row[i].org \in Ids /\ row[i].parent \in Ids
      BY <1>0 DEF Tree!Entry
    <3>3. \A j \in Ids : row[j] # Absent => row'[j] # Absent /\ row'[j].kind = row[j].kind /\ row'[j].org = row[j].org
      BY <1>5
    <3> QED BY <1>5, <3>1, <3>2, <3>3 DEF Tree!Placed, Tree!Is
  <2> QED BY <2>1
<1>7. \A i \in Ids : Tree!Is("organization", i)' => Tree!Is("organization", i) /\ row'[i] = row[i]
  BY <1>2, <1>5 DEF Is, Tree!Is
<1> QED BY <1>1, <1>2, <1>3, <1>4, <1>6, <1>7 DEF CatInv, Tree!WellFormed

-------------------------------------------------------------------------------
(* One lemma per kind of step                                                *)

\* The commit of q, whether or not its answer arrives.
LEMMA CommitStep ==
    ASSUME CatInv, NEW q \in Requests, At(q, "open"), row' = Applied(q), Typed',
           \A p \in Requests : p # q => req'[p] = req[p],
           req'[q].op = req[q].op, req'[q].org = req[q].org,
           req'[q].target = req[q].target, req'[q].value = req[q].value,
           req'[q].pc \in {"committed", "finished"},
           req'[q].answer = "deleted" => req[q].op = "delete"
    PROVE  CatInv' /\ (Tree!Next \/ row' = row)
<1>0. /\ req[q].pc = "open" /\ req[q].op \in Creations \cup {"delete"}
      /\ row \in [Ids -> Tree!Entry \cup {Absent}]
      /\ \A p \in Requests : p \in Ids /\ req[p].target \in Ids /\ req[p].org \in Ids
  BY DEF CatInv, At, IdsOK, Tree!WellFormed, Typed, Request, Ids
<1>1. /\ Tree!WellFormed' /\ (Tree!Next \/ row' = row)
      /\ \A i \in Ids : i # q => row'[i] = Absent \/ row'[i] = row[i]
      /\ \A i \in Ids : i # q /\ Is("organization", i) => row'[i] = row[i]
      /\ row[q] = Absent
  <2>1. CASE req[q].op = "delete"
    <3>1. row' = [i \in Ids |-> IF i \in Erased(req[q].target) THEN Absent ELSE row[i]]
      BY <2>1 DEF Applied
    <3>2. row[q] = Absent
      BY <1>0 DEF CatInv, IdsOK
    <3> QED BY <3>1, <3>2, <1>0, <2>1, DeletionCommits
  <2>2. CASE req[q].op \in Creations
    <3>1. row' = [row EXCEPT ![q] = New(q)]
      BY <2>2 DEF Applied, Creations
    <3> QED BY <3>1, <1>0, <2>2, CreationCommits
  <2> QED BY <1>0, <2>1, <2>2
<1>2. \A p \in Requests : req[p].op \in {"datasource", "patch", "delete"} => req[p].target # q
  BY <1>0, TargetsCommitted
<1>3. IdsOK'
  <2>1. \A p \in Requests : p # q /\ row'[p] # Absent => row[p] # Absent
    BY <1>0, <1>1
  <2> QED BY <2>1 DEF CatInv, IdsOK
<1>4. FoundOK'
  BY <1>0, <1>1, <1>2 DEF CatInv, FoundOK, Is
<1>5. OpenOK'
  <2>1. \A p \in Requests, op \in Ops : Open(p, op)' => p # q /\ Open(p, op)
    BY DEF Open, At
  <2>2. \A p \in Requests : /\ req'[p].value = req[p].value /\ req'[p].org = req[p].org
                            /\ req'[p].target = req[p].target
    OBVIOUS
  <2>3. ASSUME NEW p \in Requests, Open(p, "organization")'
        PROVE  /\ SlugFree(req[p].value)'
               /\ \A r \in Requests : Open(r, "organization")' /\ req[r].value = req[p].value => r = p
    <3>1. /\ Open(p, "organization") /\ p # q
          /\ \A r \in Requests : Open(r, "organization") /\ req[r].value = req[p].value => r = p
          /\ SlugFree(req[p].value)
      BY <2>1, <2>3 DEF CatInv, OpenOK, Ops
    <3>2. row'[q] # Absent /\ row'[q].kind = "organization" => row'[q].value # req[p].value
      <4>1. CASE req[q].op \in Creations
        <5>1. row'[q] = New(q)
          <6>1. row' = [row EXCEPT ![q] = New(q)]
            BY <4>1 DEF Applied, Creations
          <6> QED BY <6>1, <1>0
        <5>2. New(q).kind = req[q].op /\ New(q).value = req[q].value
          BY DEF New
        <5>3. req[q].op = "organization" => req[q].value # req[p].value
          BY <3>1, <1>0 DEF Open, At
        <5> QED BY <5>1, <5>2, <5>3
      <4>2. CASE req[q].op = "delete"
        <5>1. row'[q] = Absent \/ row'[q] = row[q]
          BY <1>0, <4>2, DeletionCommits DEF Applied
        <5> QED BY <5>1, <1>1
      <4> QED BY <1>0, <4>1, <4>2
    <3>3. \A i \in Ids : row'[i] # Absent /\ row'[i].kind = "organization" => row'[i].value # req[p].value
      BY <1>1, <3>1, <3>2 DEF SlugFree, Is
    <3> QED BY <2>1, <2>2, <3>1, <3>3 DEF SlugFree, Is, Ops
  <2>4. ASSUME NEW p \in Requests, Open(p, "research")' PROVE Is("organization", req[p].org)'
    <3>1. Is("organization", req[p].org) /\ p # q
      BY <2>1, <2>4 DEF CatInv, OpenOK, Ops
    <3>2. row'[req[p].org] = row[req[p].org]
      BY <1>0, <1>1, <3>1 DEF Is
    <3> QED BY <2>2, <3>1, <3>2 DEF Is
  <2>5. ASSUME NEW p \in Requests, Open(p, "datasource")'
        PROVE  /\ Is("research", req[p].target)'
               /\ \A d \in Requests : Open(d, "delete")' => req[d].target # req[p].target
    <3>1. /\ Is("research", req[p].target) /\ p # q /\ Open(p, "datasource")
          /\ \A d \in Requests : Open(d, "delete") => req[d].target # req[p].target
      BY <2>1, <2>5 DEF CatInv, OpenOK, Ops
    <3>2. row'[req[p].target] = row[req[p].target]
      <4>1. CASE req[q].op = "delete"
        <5>1. Open(q, "delete")
          BY <4>1 DEF Open
        <5> QED BY <5>1, <3>1, <1>0, <4>1, DeletionCommits DEF Applied
      <4>2. CASE req[q].op \in Creations
        <5>1. req[p].target # q
          BY <3>1, <1>2 DEF Open
        <5>2. row' = [row EXCEPT ![q] = New(q)]
          BY <4>2 DEF Applied, Creations
        <5> QED BY <5>1, <5>2, <1>0
      <4> QED BY <1>0, <4>1, <4>2
    <3> QED BY <2>1, <2>2, <3>1, <3>2 DEF Is, Ops
  <2> QED BY <2>2, <2>3, <2>4, <2>5 DEF OpenOK
<1>6. GoneOK'
  <2>1. ASSUME NEW p \in Requests, req'[p].answer = "deleted"
        PROVE  req'[p].op = "delete" /\ row'[req'[p].target] = Absent
    <3>1. CASE p # q
      BY <3>1, <2>1, <1>0, <1>1, <1>2 DEF CatInv, GoneOK
    <3>2. CASE p = q
      BY <3>2, <2>1, <1>0, DeletionCommits DEF Applied
    <3> QED BY <3>1, <3>2
  <2> QED BY <2>1 DEF GoneOK
<1> QED BY <1>1, <1>3, <1>4, <1>5, <1>6 DEF CatInv

\* A PATCH that writes.
LEMMA PatchStep ==
    ASSUME CatInv, NEW q \in Requests, At(q, "checked"), req[q].op = "patch",
           row[req[q].target] # Absent, req[q].value # Null, Goes(q, "committed"),
           row' = [row EXCEPT ![req[q].target].value = req[q].value]
    PROVE  CatInv' /\ Tree!Next
<1> DEFINE t == req[q].target
<1>0. /\ Typed'
      /\ \A p \in Requests : p # q => req'[p] = req[p]
      /\ req'[q].pc = "committed" /\ req'[q].answer = req[q].answer
      /\ req'[q].op = req[q].op /\ req'[q].org = req[q].org
      /\ req'[q].target = req[q].target /\ req'[q].value = req[q].value
      /\ req[q].pc = "checked"
      /\ \A p \in Requests : p \in Ids /\ req[p].target \in Ids /\ req[p].org \in Ids
  BY GoesOn DEF CatInv, At, Typed, Request, Ids
<1>1. t \in Ids /\ req[q].value \in Values /\ (Is("research", t) \/ Is("datasource", t))
  BY <1>0 DEF CatInv, FoundOK, Typed, Request
<1>2. /\ Tree!WellFormed' /\ Tree!Next
      /\ \A i \in Ids : i # t => row'[i] = row[i]
      /\ row'[t] # Absent /\ row'[t].kind = row[t].kind /\ row'[t].org = row[t].org
  BY <1>1, PatchCommits
<1>3. IdsOK'
  <2>1. \A p \in Requests : row'[p] # Absent => row[p] # Absent
    BY <1>0, <1>2
  <2> QED BY <2>1, <1>0 DEF CatInv, IdsOK
<1>4. FoundOK'
  BY <1>0, <1>2 DEF CatInv, FoundOK, Is
<1>5. OpenOK'
  <2>1. \A p \in Requests, op \in Ops : Open(p, op)' <=> p # q /\ Open(p, op)
    BY <1>0 DEF Open, At
  <2>2. \A i \in Ids, kind \in Creations : Is(kind, i)' <=> Is(kind, i)
    BY <1>2 DEF Is
  <2>3. \A i \in Ids : Is("organization", i) => row'[i] = row[i]
    BY <1>1, <1>2 DEF Is
  <2>4. \A p \in Requests : /\ req'[p].value = req[p].value /\ req'[p].org = req[p].org
                            /\ req'[p].target = req[p].target
    BY <1>0
  <2>5. \A p \in Requests : SlugFree(req[p].value)' <=> SlugFree(req[p].value)
    BY <2>2, <2>3, <2>4 DEF SlugFree, Creations
  <2>6. \A p \in Requests : Is("organization", req[p].org)' <=> Is("organization", req[p].org)
    BY <1>0, <2>2, <2>4 DEF Is, Creations
  <2>7. \A p \in Requests : Is("research", req[p].target)' <=> Is("research", req[p].target)
    BY <1>0, <2>2, <2>4 DEF Is, Creations
  <2> QED BY <2>1, <2>4, <2>5, <2>6, <2>7 DEF CatInv, OpenOK, Ops
<1>6. GoneOK'
  <2>1. ASSUME NEW p \in Requests, req'[p].answer = "deleted"
        PROVE  req'[p].op = "delete" /\ row'[req'[p].target] = Absent
    <3>1. req[p].op = "delete" /\ row[req[p].target] = Absent /\ req[p].answer = "deleted"
      BY <2>1, <1>0 DEF CatInv, GoneOK
    <3>2. req[p].target # t
      BY <3>1
    <3> QED BY <3>1, <3>2, <1>0, <1>2
  <2> QED BY <2>1 DEF GoneOK
<1> QED BY <1>0, <1>2, <1>3, <1>4, <1>5, <1>6 DEF CatInv

\* A request comes in: a creation has a fresh id, and any other names an id with a row.
LEMMA AskStep == ASSUME CatInv, NEW q \in Requests, Ask(q) PROVE CatInv'
<1>1. PICK asked \in Payloads(q) :
        req' = [req EXCEPT ![q] = [pc |-> IF asked.op = "research" THEN "checked" ELSE "begun",
                                   op |-> asked.op, org |-> asked.org, target |-> asked.target,
                                   value |-> asked.value, answer |-> "none"]]
  BY DEF Ask
<1>2. row' = row /\ req[q].pc = "idle" /\ row[q] = Absent /\ q \in Ids
  BY DEF Ask, At, CatInv, IdsOK, Ids
<1>3. /\ asked.op \in Ops /\ asked.org \in Ids /\ asked.target \in Ids /\ asked.value \in Values \cup {Null}
      /\ asked.op \in Creations => asked.value \in Values
      /\ asked.op = "organization" => asked.org = q /\ asked.target = q
      /\ asked.op = "research" => asked.target = asked.org
      /\ asked.op \in {"datasource", "patch", "delete"} => row[asked.target] # Absent
  BY <1>2 DEF Payloads, Ops, Creations, Values
<1> DEFINE pc == IF asked.op = "research" THEN "checked" ELSE "begun"
<1>4. /\ Typed'
      /\ \A p \in Requests : p # q => req'[p] = req[p]
      /\ req'[q].pc = pc /\ req'[q].op = asked.op /\ req'[q].org = asked.org
      /\ req'[q].target = asked.target /\ req'[q].value = asked.value /\ req'[q].answer = "none"
  BY <1>1, <1>3 DEF CatInv, Typed, Request, Answers
<1>5. Tree!WellFormed'
  BY <1>2 DEF CatInv, Tree!WellFormed, Tree!Placed, Tree!Is
<1>6. IdsOK'
  <2>1. \A p \in Requests : row[p] # Absent => p # q /\ req[p].pc \in {"committed", "finished"}
    BY <1>2 DEF CatInv, IdsOK
  <2>2. \A p \in Requests : req[p].op \in {"datasource", "patch", "delete"} => req[p].target # q
    BY <1>2 DEF CatInv, IdsOK
  <2> QED BY <1>2, <1>3, <1>4, <2>1, <2>2 DEF CatInv, IdsOK
<1>7. FoundOK'
  BY <1>2, <1>4 DEF CatInv, FoundOK, Is
<1>8. OpenOK'
  <2>1. \A p \in Requests, op \in Ops : Open(p, op)' => p # q /\ Open(p, op)
    BY <1>4 DEF Open, At
  <2> QED BY <1>2, <1>4, <2>1 DEF CatInv, OpenOK, SlugFree, Is, Open, At, Ops
<1>9. GoneOK'
  BY <1>2, <1>4 DEF CatInv, GoneOK
<1> QED BY <1>4, <1>5, <1>6, <1>7, <1>8, <1>9 DEF CatInv

\* One step per action.
LEMMA CatStep == CatInv /\ [Next]_vars => CatInv' /\ [Tree!Next]_row
<1> SUFFICES ASSUME CatInv, [Next]_vars PROVE CatInv' /\ [Tree!Next]_row
  OBVIOUS
<1>0. ASSUME NEW q \in Requests, Step(q) PROVE CatInv' /\ [Tree!Next]_row
  <2>0. Typed
    BY DEF CatInv
  <2>1. CASE Ask(q)
    BY <2>1, AskStep DEF Ask
  <2>2. CASE LookUpSlug(q)
    <3>1. /\ row' = row /\ req[q].pc = "begun" /\ req[q].op = "organization"
          /\ Goes(q, "checked") \/ Answer(q, "conflict")
      BY <2>2 DEF LookUpSlug, At
    <3> QED BY <3>1, <2>0, GoesOn, Answered, QuietStep DEF Answers
  <2>3. CASE LookUp(q)
    <3>1. row' = row /\ req[q].pc = "begun"
      BY <2>3 DEF LookUp, At
    <3>2. CASE Answer(q, "not_found")
      BY <3>1, <3>2, <2>0, Answered, QuietStep DEF Answers
    <3>3. CASE ~Answer(q, "not_found")
      <4>1. /\ Belongs(req[q].target, req[q].org)
            /\ req[q].op = "datasource" => Is("research", req[q].target)
            /\ Goes(q, "committed") \/ Goes(q, "checked")
        BY <2>3, <3>3 DEF LookUp
      <4> QED BY <3>1, <4>1, <2>0, GoesOn, QuietStep DEF Belongs
    <3> QED BY <3>2, <3>3
  <2>4. CASE Insert(q)
    <3>1. row' = row /\ At(q, "checked") /\ req[q].op \in Creations /\ ~InsertWaits(q)
      BY <2>4 DEF Insert
    <3>2. CASE Admitted(q)
      <4>1. /\ Goes(q, "open")
            /\ req[q].op = "organization" => SlugFree(req[q].value)
            /\ req[q].op = "research" => Is("organization", req[q].org)
            /\ req[q].op = "datasource" => Is("research", req[q].target)
        BY <2>4, <3>2 DEF Insert, Admitted
      <4>2. req[q].op = "datasource" => \A d \in Requests : Open(d, "delete") => req[d].target # req[q].target
        BY <3>1, <4>1 DEF InsertWaits, Locked, Erased, Is
      <4>3. req[q].op = "organization" =>
              \A p \in Requests : ~(Open(p, "organization") /\ req[p].value = req[q].value)
        BY <3>1 DEF InsertWaits
      <4> QED BY <3>1, <4>1, <4>2, <4>3, OpensStep DEF Creations
    <3>3. CASE ~Admitted(q)
      <4>1. Answer(q, "server_error")
        BY <2>4, <3>3 DEF Insert
      <4> QED BY <3>1, <4>1, <2>0, Answered, QuietStep DEF Answers
    <3> QED BY <3>2, <3>3
  <2>5. CASE Delete(q)
    BY <2>5, OpensStep DEF Delete, Creations
  <2>6. CASE Patch(q)
    <3>1. At(q, "checked") /\ req[q].op = "patch"
      BY <2>6 DEF Patch
    <3>2. CASE row[req[q].target] # Absent /\ req[q].value # Null
      BY <2>6, <3>1, <3>2, PatchStep DEF Patch
    <3>3. CASE ~(row[req[q].target] # Absent /\ req[q].value # Null)
      <4>1. Answer(q, "server_error") /\ row' = row
        BY <2>6, <3>3 DEF Patch
      <4> QED BY <4>1, <2>0, Answered, QuietStep DEF Answers
    <3> QED BY <3>2, <3>3
  <2>7. CASE Commit(q)
    <3>1. At(q, "open") /\ row' = Applied(q)
      BY <2>7 DEF Commit
    <3>2. CASE req[q].op = "delete"
      <4>1. Answer(q, "deleted")
        BY <2>7, <3>2 DEF Commit
      <4> QED BY <3>1, <3>2, <4>1, <2>0, Answered, CommitStep DEF Answers
    <3>3. CASE req[q].op # "delete"
      <4>1. Goes(q, "committed")
        BY <2>7, <3>3 DEF Commit
      <4>2. req[q].answer = "none"
        BY <3>1 DEF CatInv, IdsOK, At
      <4> QED BY <3>1, <4>1, <4>2, <2>0, GoesOn, CommitStep
    <3> QED BY <3>2, <3>3
  <2>8. CASE Refresh(q)
    <3>1. PICK a \in {"server_error", "patched", "created"} : Answer(q, a)
      BY <2>8 DEF Refresh
    <3>2. row' = row
      BY <2>8 DEF Refresh
    <3> QED BY <3>1, <3>2, <2>0, Answered, QuietStep DEF Answers
  <2>9. CASE Fault(q)
    BY <2>9, <2>0, Answered, QuietStep DEF Fault, Answers
  <2>10. CASE LostCommit(q)
    <3>1. At(q, "open") /\ row' = Applied(q) /\ Answer(q, "server_error")
      BY <2>10 DEF LostCommit
    <3> QED BY <3>1, <2>0, Answered, CommitStep DEF Answers
  <2> QED BY <1>0, <2>1, <2>2, <2>3, <2>4, <2>5, <2>6, <2>7, <2>8, <2>9, <2>10 DEF Step
<1>1. CASE UNCHANGED vars
  <2>1. row' = row /\ req' = req
    BY <1>1 DEF vars
  <2> QED BY <2>1 DEF CatInv, Tree!WellFormed, Tree!Placed, Tree!Is, Typed, IdsOK, FoundOK, OpenOK, GoneOK,
             SlugFree, Is, Open, At
<1> QED BY <1>0, <1>1 DEF Next

-------------------------------------------------------------------------------

\* A deletion that was answered: the entry is gone, and an entry under it would
\* not be well placed.
LEMMA GoneWithAll == CatInv => DeletedMeansGone
<1> SUFFICES ASSUME CatInv, NEW q \in Requests, req[q].answer = "deleted", NEW i \in Ids, row[i] # Absent
             PROVE  i # req[q].target /\ row[i].parent # req[q].target
  BY DEF DeletedMeansGone
<1>1. row[req[q].target] = Absent
  BY DEF CatInv, GoneOK
<1>2. row[i] \in Tree!Entry /\ Tree!Placed(i)
  BY DEF CatInv, Tree!WellFormed
<1>3. row[row[i].parent] # Absent
  BY <1>2 DEF Tree!Entry, Tree!Placed, Tree!Is
<1> QED BY <1>1, <1>3

\* Whatever the look-ups of services/organization.py, research.py and
\* datasource.py miss, and whenever connections fail: the committed rows are a
\* ResourceTree, for any number of requests and entries.
THEOREM CatalogueImplementsTree == Spec => ImplementsTree
<1>1. Init => CatInv
  BY CatInitial
<1>2. CatInv /\ [Next]_vars => CatInv' /\ [Tree!Next]_row
  BY CatStep
<1>3. CatInv => Tree!WellFormed
  BY DEF CatInv
<1> QED BY <1>1, <1>2, <1>3, PTL DEF Spec, ImplementsTree, Tree!Spec

\* An answered deletion lasts and leaves nothing under the entry, also against
\* requests that had found it before.
THEOREM DeletionsLeaveNothing == Spec => []DeletedMeansGone
<1>1. CatInv /\ [Next]_vars => CatInv'
  BY CatStep
<1> QED BY CatInitial, <1>1, GoneWithAll, PTL DEF Spec

===============================================================================
