------------------------ MODULE CompanyRegistry_proofs ------------------------
(***************************************************************************)
(* CompanyRegistry for any number of companies and requests.  No look-up   *)
(* is used: the keys stay unique because a written version that is not     *)
(* committed yet excludes every other version with its key (KeysHeld,      *)
(* KeysFree), and nothing returns or is undone because an open UPDATE or   *)
(* DELETE has its row to itself (RowExclusive).                            *)
(***************************************************************************)
EXTENDS CompanyRegistry, TLAPS

Open(r) == req[r].pc \in {"locked", "written"}

Writes(r) == At(r, "written") /\ req[r].op # "delete"

Done(r) == req[r].pc \in {"refreshing", "finished"}

CreatorOK(r) ==
    /\ req[r].op = "create" /\ req[r].pc \notin {"loading", "locked"}
    /\ ~At(r, "idle") => req[r].sent \in CompanyRow
    /\ r \in companies => Done(r)

\* A request that has loaded its company knows that it exists and whose it is.
EditorOK(e) ==
    /\ req[e].op # "create"
    /\ ~At(e, "idle") => req[e].op \in {"update", "delete"} /\ req[e].target \in Creators
    /\ At(e, "locked") => req[e].op = "update"
    /\ Open(e) /\ req[e].op = "update" =>
         req[e].target \in companies /\ NewColumns(e) \in CompanyRow
    /\ req[e].pc \in {"checking", "writing", "locked", "written", "refreshing"} =>
         Done(req[e].target) /\ req[e].tenant = TenantOf(req[e].target)
    /\ At(e, "finished") /\ req[e].answer = "deleted" =>
         req[e].target \notin companies /\ Done(req[e].target)

RowExclusive ==
    \A e, f \in Editors :
        Open(e) /\ Open(f) /\ req[e].target = req[f].target /\ req[e].target \in companies => e = f

Shares(r, s) == SharesKey(TenantOf(Target(r)), NewColumns(r), TenantOf(Target(s)), NewColumns(s))

Clashes(r, c) == SharesKey(TenantOf(Target(r)), NewColumns(r), TenantOf(c), columns[c])

KeysHeld == \A r, s \in Requests : Writes(r) /\ Writes(s) /\ r # s => ~Shares(r, s)

KeysFree == \A r \in Requests, c \in companies : Writes(r) /\ c # Target(r) => ~Clashes(r, c)

KeysUnique ==
    \A c, d \in companies :
        c # d => ~SharesKey(TenantOf(c), columns[c], TenantOf(d), columns[d])

RInv ==
    /\ RegistryTypeOK
    /\ \A r \in Creators : CreatorOK(r)
    /\ \A e \in Editors : EditorOK(e)
    /\ RowExclusive
    /\ KeysHeld
    /\ KeysFree
    /\ KeysUnique

\* Two versions share a key in whatever order they are named.
LEMMA SharesKeySymmetric ==
    \A t, a, u, b : SharesKey(t, a, u, b) => SharesKey(u, b, t, a)
BY DEF SharesKey, SameListing

\* The payloads of POSTs and DELETEs are things that can be sent.
LEMMA SentFacts == Payloads \subseteq Sent /\ Patches \subseteq Sent /\ Nothing \in Sent
<1>1. CompanyRow \subseteq Sent
  BY DEF CompanyRow, Sent
<1>2. Nothing \in [{} -> Strings \cup {Null}]
  BY DEF Nothing
<1>3. Nothing \in Sent
  BY <1>2 DEF Sent
<1> QED
  BY <1>1, <1>3, RegistryAssumption

-------------------------------------------------------------------------------

\* No company and no request: nothing is held.
LEMMA RegistryInitial == Init => RInv
<1> SUFFICES ASSUME Init PROVE RInv
  OBVIOUS
<1>1. \A r \in Requests : Idle(r) \in Request
  BY SentFacts DEF Idle, Request, CompanyAnswers
<1>2. RegistryTypeOK
  BY <1>1 DEF Init, RegistryTypeOK
<1>3. \A r \in Requests : req[r].pc = "idle" /\ req[r].op # "delete"
                           /\ (r \in Creators <=> req[r].op = "create")
  BY RegistryAssumption DEF Init, Idle, Requests
<1> QED
  BY <1>2, <1>3, RegistryAssumption
  DEF RInv, Init, CreatorOK, EditorOK, RowExclusive, KeysHeld, KeysFree, KeysUnique,
      Open, Writes, At, Requests

\* The request r alone moves, and a company that is there keeps its tenant.
Only(r) ==
    /\ \A s \in Requests \ {r} : req'[s] = req[s]
    /\ Done(r) => Done(r)' /\ TenantOf(r)' = TenantOf(r)

\* What the move of r leaves of the others, if it leaves their rows.
LEMMA Others ==
    ASSUME RInv, NEW r \in Requests, Only(r),
           NEW s \in Requests, s # r, columns'[Target(s)] = columns[Target(s)]
    PROVE  /\ Target(s)' = Target(s)
           /\ NewColumns(s)' = NewColumns(s)
           /\ Open(s)' = Open(s) /\ Writes(s)' = Writes(s) /\ Done(s)' = Done(s)
           /\ Open(s) \/ Writes(s) => TenantOf(Target(s))' = TenantOf(Target(s))
<1>1. req'[s] = req[s]
  BY DEF Only
<1>2. Target(s)' = Target(s)
  BY <1>1 DEF Target
<1>3. NewColumns(s)' = NewColumns(s)
  BY <1>1, <1>2 DEF NewColumns
<1>4. Open(s)' = Open(s) /\ Writes(s)' = Writes(s) /\ Done(s)' = Done(s)
  BY <1>1 DEF Open, Writes, Done, At
<1>5. ASSUME Open(s) \/ Writes(s) PROVE TenantOf(Target(s))' = TenantOf(Target(s))
  <2>1. CASE Target(s) # r
    BY <1>2, <2>1, <1>5, <1>1 DEF Only, TenantOf, Target, Requests, RInv, EditorOK, Open, Writes, At
  <2>2. CASE Target(s) = r
    <3>1. s \in Editors /\ Done(r)
      BY <2>2, <1>5 DEF Target, Requests, RInv, EditorOK, Open, Writes, At
    <3> QED
      BY <3>1, <2>2, <1>2 DEF Only, TenantOf
  <2> QED
    BY <2>1, <2>2
<1> QED
  BY <1>2, <1>3, <1>4, <1>5

OwnOK(r) == (r \in Creators => CreatorOK(r)) /\ (r \in Editors => EditorOK(r))

\* The other requests keep what is known of them while the tables stand.
LEMMA OthersOK ==
    ASSUME RInv, NEW r \in Requests, Only(r), UNCHANGED <<companies, columns>>
    PROVE  /\ \A s \in Creators \ {r} : CreatorOK(s)'
           /\ \A s \in Editors \ {r} : EditorOK(s)'
<1>1. ASSUME NEW s \in Creators \ {r} PROVE CreatorOK(s)'
  BY DEF RInv, Requests, Only, CreatorOK, Done, At
<1>2. ASSUME NEW s \in Editors \ {r} PROVE EditorOK(s)'
  <2>1. EditorOK(s) /\ req'[s] = req[s] /\ NewColumns(s)' = NewColumns(s)
    BY Others DEF RInv, Requests, Only
  <2>2. ASSUME NEW c \in Creators, Done(c) PROVE Done(c)' /\ TenantOf(c)' = TenantOf(c)
    BY <2>2 DEF Only, Requests, Done, TenantOf
  <2> QED
    BY <2>1, <2>2 DEF EditorOK, At, Open
<1> QED
  BY <1>1, <1>2

\* A company that is there keeps its tenant.
LEMMA TenantsStay ==
    ASSUME RInv, NEW r \in Requests, Only(r), NEW c \in companies
    PROVE  TenantOf(c)' = TenantOf(c)
BY DEF RInv, RegistryTypeOK, Requests, CreatorOK, Only, TenantOf

\* A move that leaves the tables and opens no write.
LEMMA Still ==
    ASSUME RInv, RegistryTypeOK', NEW r \in Requests, Only(r), UNCHANGED <<companies, columns>>,
           ~Open(r)', OwnOK(r)'
    PROVE  RInv'
<1>1. (\A s \in Creators : CreatorOK(s)') /\ (\A s \in Editors : EditorOK(s)')
  BY OthersOK DEF OwnOK
<1>2. ~Writes(r)'
  BY DEF Writes, Open, At
<1>3. \A s \in Requests \ {r} :
         /\ Target(s)' = Target(s) /\ NewColumns(s)' = NewColumns(s)
         /\ Open(s)' = Open(s) /\ Writes(s)' = Writes(s)
         /\ Writes(s) => TenantOf(Target(s))' = TenantOf(Target(s))
  BY Others
<1>4. RowExclusive'
  BY <1>3 DEF RInv, RowExclusive, Only, Requests
<1>5. KeysHeld'
  BY <1>2, <1>3 DEF RInv, KeysHeld, Shares
<1>6. KeysFree'
  BY <1>2, <1>3, TenantsStay DEF RInv, KeysFree, Clashes
<1>7. KeysUnique'
  BY TenantsStay DEF RInv, KeysUnique
<1> QED
  BY <1>1, <1>4, <1>5, <1>6, <1>7 DEF RInv

\* A move that opens a write, or takes it from the row lock to the keys: the
\* row is free or its own, and no other version has a key of the new one.
LEMMA Opens ==
    ASSUME RInv, RegistryTypeOK', NEW r \in Requests, UNCHANGED <<companies, columns>>,
           NEW pc, Goes(r, pc), Only(r), OwnOK(r)', Open(r)',
           Open(r) \/ ~RowLocked(Target(r)) \/ Target(r) \notin companies,
           Writes(r)' => /\ ~KeyBusy(r)
                         /\ \A c \in companies : ~Violates(r, c)
    PROVE  RInv'
<1>1. (\A s \in Creators : CreatorOK(s)') /\ (\A s \in Editors : EditorOK(s)')
  BY OthersOK DEF OwnOK
<1>2. \A s \in Requests \ {r} :
         /\ Target(s)' = Target(s) /\ NewColumns(s)' = NewColumns(s)
         /\ Open(s)' = Open(s) /\ Writes(s)' = Writes(s)
         /\ Writes(s) => TenantOf(Target(s))' = TenantOf(Target(s))
  BY Others
<1>3. req[r] \in Request /\ req' = [req EXCEPT ![r].pc = pc]
  BY DEF Goes, RInv, RegistryTypeOK
<1>4. /\ req'[r].op = req[r].op /\ req'[r].sent = req[r].sent /\ req'[r].loaded = req[r].loaded
      /\ req'[r].target = req[r].target /\ \A s \in Requests : req'[s].tenant = req[s].tenant
  BY <1>3 DEF Request, RInv, RegistryTypeOK
<1>5. Target(r)' = Target(r) /\ NewColumns(r)' = NewColumns(r)
  BY <1>4 DEF Target, NewColumns
<1>6. TenantOf(Target(r))' = TenantOf(Target(r))
  <2>1. Target(r) \in Requests
    BY <1>1, <1>4, RegistryAssumption DEF Target, Requests, EditorOK, Open, At
  <2> QED
    BY <2>1, <1>4, <1>5 DEF TenantOf
<1>7. RowExclusive'
  <2>1. ASSUME NEW e \in Editors, e # r, r \in Editors, Open(e), req[e].target = req[r].target,
               req[r].target \in companies
        PROVE  FALSE
    <3>1. Target(e) = req[r].target /\ Target(r) = req[r].target
      BY <2>1, RegistryAssumption DEF Target
    <3> QED
      BY <2>1, <3>1 DEF RInv, RowExclusive, RowLocked, Open
  <2>2. \A e \in Editors \ {r} : req'[e] = req[e]
    BY DEF Only, Requests
  <2> QED
    BY <1>2, <1>4, <2>1, <2>2 DEF RInv, RowExclusive, Requests
<1>8. ASSUME Writes(r)', NEW s \in Requests, s # r, Writes(s) PROVE ~Shares(r, s)
  BY <1>8 DEF KeyBusy, WaitsFor, OpenVersions, Writes, Shares
<1>9. KeysHeld'
  BY <1>2, <1>5, <1>6, <1>8, SharesKeySymmetric DEF RInv, KeysHeld, Shares
<1>10. KeysFree'
  BY <1>2, <1>5, <1>6, TenantsStay DEF RInv, KeysFree, Clashes, Violates
<1>11. KeysUnique'
  BY TenantsStay DEF RInv, KeysUnique
<1> QED
  BY <1>1, <1>7, <1>9, <1>10, <1>11 DEF RInv

\* The end of a write: the committed version has the keys that it held.
LEMMA Applies ==
    ASSUME RInv, RegistryTypeOK', NEW r \in Requests, At(r, "written"), Applied(r), Only(r),
           Done(r)', req'[r].tenant = req[r].tenant, req'[r].target = req[r].target,
           OwnOK(r)'
    PROVE  RInv'
<1> DEFINE t == Target(r)
<1>1. /\ r \in Creators => t = r /\ req[r].op = "create" /\ t \notin companies
      /\ r \in Editors => t = req[r].target /\ req[r].op \in {"update", "delete"} /\ Done(t)
      /\ t \in Creators
  BY RegistryAssumption DEF RInv, CreatorOK, EditorOK, Target, At, Done, Requests
<1>2. /\ \A c \in companies' \ {t} : c \in companies
      /\ \A c \in Creators \ {t} : columns'[c] = columns[c]
      /\ req[r].op = "delete" => companies' = companies \ {t} /\ columns' = columns
      /\ req[r].op # "delete" => companies' = companies \cup {t} /\ columns'[t] = NewColumns(r)
  BY <1>1 DEF Applied, RInv, RegistryTypeOK
<1>3. ~Open(r)' /\ ~Writes(r)'
  BY DEF Open, Writes, Done, At
<1>4. \A s \in Requests \ {r} : req'[s] = req[s]
  BY DEF Only
<1>5. ASSUME NEW s \in Editors, s # r, Open(s), req[s].target = t PROVE t \notin companies /\ r \in Editors
  <2>1. Done(t)
    BY <1>5 DEF RInv, EditorOK, Open
  <2>2. r \in Editors
    BY <1>1, <2>1 DEF Requests, Done, At
  <2> QED
    BY <1>1, <1>5, <2>2 DEF RInv, RowExclusive, Open, At
<1>6. ASSUME NEW s \in Editors, s # r, Open(s), req[s].op = "update"
      PROVE  req[s].target # t /\ req[s].target \in companies
  BY <1>5, <1>6 DEF RInv, EditorOK
<1>7. ASSUME NEW s \in Requests, s # r, Writes(s)
      PROVE  Target(s) # t /\ columns'[Target(s)] = columns[Target(s)]
  <2>1. CASE s \in Creators
    BY <2>1, <1>1, <1>2, <1>7, RegistryAssumption DEF Target, Requests, Done, Writes, At
  <2>2. CASE s \in Editors
    <3>1. Target(s) = req[s].target /\ Target(s) \in Creators /\ Open(s) /\ req[s].op = "update"
      BY <2>2, <1>7, RegistryAssumption DEF Target, Writes, Open, At, RInv, EditorOK
    <3> QED
      BY <3>1, <2>2, <1>2, <1>6, <1>7
  <2> QED
    BY <2>1, <2>2 DEF Requests
<1>8. ASSUME NEW s \in Creators PROVE CreatorOK(s)'
  <2>1. CASE s = r
    BY <2>1 DEF OwnOK
  <2>2. CASE s # r
    <3>1. CreatorOK(s) /\ req'[s] = req[s]
      BY <2>2, <1>4 DEF RInv, Requests
    <3>2. s \in companies' => s \in companies \/ Done(s)
      BY <1>1, <1>2, <2>2 DEF Requests
    <3> QED
      BY <3>1, <3>2 DEF CreatorOK, Done, At
  <2> QED
    BY <2>1, <2>2
<1>9. ASSUME NEW s \in Editors PROVE EditorOK(s)'
  <2>1. CASE s = r
    BY <2>1 DEF OwnOK
  <2>2. CASE s # r
    <3>1. EditorOK(s) /\ req'[s] = req[s]
      BY <2>2, <1>4 DEF RInv, Requests
    <3>2. ASSUME NEW c \in Creators, Done(c) PROVE Done(c)' /\ TenantOf(c)' = TenantOf(c)
      BY <3>2, <1>4 DEF Only, Requests, Done, TenantOf
    <3>3. ASSUME Open(s), req[s].op = "update"
          PROVE  req[s].target \in companies' /\ NewColumns(s)' = NewColumns(s)
      <4>1. req[s].target # t /\ req[s].target \in companies /\ req[s].target \in Creators
        BY <1>6, <2>2, <3>3 DEF RInv, RegistryTypeOK
      <4>2. Target(s) = req[s].target
        BY RegistryAssumption DEF Target
      <4>3. req[s].target \in companies'
        BY <4>1, <1>2, <1>1 DEF Requests
      <4> QED
        BY <4>1, <4>2, <4>3, <1>2, <2>2, Others DEF Requests
    <3>4. ASSUME At(s, "finished"), req[s].answer = "deleted" PROVE req[s].target \notin companies'
      <4>1. req[s].target \notin companies /\ Done(req[s].target)
        BY <3>1, <3>4 DEF EditorOK
      <4>2. req[r].op # "delete" => t \in companies \/ ~Done(t)
        <5>1. CASE r \in Creators
          BY <5>1, <1>1 DEF Done, At
        <5>2. CASE r \in Editors /\ req[r].op # "delete"
          BY <5>2, <1>1 DEF RInv, EditorOK, Open, At
        <5> QED
          BY <5>1, <5>2 DEF Requests
      <4> QED
        BY <4>1, <4>2, <1>2
    <3> QED
      BY <3>1, <3>2, <3>3, <3>4 DEF EditorOK, At, Open
  <2> QED
    BY <2>1, <2>2
<1>10. RowExclusive'
  <2>1. ASSUME NEW e \in Editors, NEW f \in Editors, Open(e)', Open(f)',
               req'[e].target = req'[f].target, req'[e].target \in companies'
        PROVE  e = f
    <3>1. e # r /\ f # r /\ req'[e] = req[e] /\ req'[f] = req[f] /\ Open(e) /\ Open(f)
      BY <2>1, <1>3, <1>4 DEF Requests, Open
    <3>2. req[e].target \in companies
      <4>1. CASE req[e].target # t
        BY <4>1, <3>1, <2>1, <1>2
      <4>2. CASE req[e].target = t
        BY <4>2, <3>1, <2>1, <1>1, <1>2, <1>5, <1>9 DEF RInv, EditorOK, Open, At
      <4> QED
        BY <4>1, <4>2
    <3> QED
      BY <3>1, <3>2, <2>1 DEF RInv, RowExclusive
  <2> QED
    BY <2>1 DEF RowExclusive
<1>11. ASSUME NEW s \in Requests, Writes(s)'
       PROVE  /\ s # r /\ Writes(s) /\ Target(s)' = Target(s) /\ Target(s) # t
              /\ NewColumns(s)' = NewColumns(s) /\ TenantOf(Target(s))' = TenantOf(Target(s))
  <2>1. s # r /\ Writes(s)
    BY <1>3, <1>4, <1>11 DEF Writes, At
  <2> QED
    BY <2>1, <1>7, Others
<1>12. KeysHeld'
  BY <1>11 DEF RInv, KeysHeld, Shares
<1>13. \A c \in companies : TenantOf(c)' = TenantOf(c)
  BY TenantsStay
<1>14. t' = t /\ req'[t].tenant = req[t].tenant /\ (req[r].op # "delete" => Writes(r))
  <2>1. t' = t
    BY DEF Target
  <2>2. req'[t].tenant = req[t].tenant
    BY <1>1, <1>4 DEF Requests
  <2> QED
    BY <2>1, <2>2 DEF Writes
<1>15. KeysFree'
  <2>1. ASSUME NEW s \in Requests, NEW c \in companies', Writes(s)', c # Target(s)'
        PROVE  ~Clashes(s, c)'
    <3>1. CASE c # t
      <4>1. c \in companies /\ columns'[c] = columns[c] /\ TenantOf(c)' = TenantOf(c)
        BY <3>1, <2>1, <1>2, <1>13 DEF RInv, RegistryTypeOK
      <4>2. ~Clashes(s, c)
        BY <4>1, <2>1, <1>11 DEF RInv, KeysFree
      <4> QED
        BY <4>1, <4>2, <2>1, <1>11 DEF Clashes
    <3>2. CASE c = t /\ req[r].op # "delete"
      <4>1. ~Shares(s, r)
        BY <3>2, <2>1, <1>11, <1>14 DEF RInv, KeysHeld
      <4> QED
        BY <4>1, <3>2, <2>1, <1>11, <1>14, <1>2 DEF Clashes, Shares, TenantOf
    <3> QED
      BY <3>1, <3>2, <2>1, <1>2
  <2> QED
    BY <2>1 DEF KeysFree
<1>16. KeysUnique'
  <2>1. ASSUME NEW c \in companies', c # t, t \in companies'
        PROVE  ~SharesKey(TenantOf(t), columns[t], TenantOf(c), columns[c])'
    <3>1. c \in companies /\ columns'[c] = columns[c] /\ TenantOf(c)' = TenantOf(c)
      BY <2>1, <1>2, <1>13 DEF RInv, RegistryTypeOK
    <3>2. req[r].op # "delete"
      BY <2>1, <1>2
    <3>3. ~Clashes(r, c)
      BY <2>1, <3>1, <3>2, <1>14 DEF RInv, KeysFree
    <3> QED
      BY <3>1, <3>2, <3>3, <1>2, <1>14 DEF Clashes, TenantOf
  <2>2. ASSUME NEW c \in companies', NEW d \in companies', c # d, c # t, d # t
        PROVE  ~SharesKey(TenantOf(c), columns[c], TenantOf(d), columns[d])'
    BY <2>2, <1>2, <1>13 DEF RInv, RegistryTypeOK, KeysUnique
  <2>3. ASSUME NEW c \in companies', NEW d \in companies', c # d
        PROVE  ~SharesKey(TenantOf(c), columns[c], TenantOf(d), columns[d])'
    <3>1. CASE c = t
      BY <2>1, <2>3, <3>1, <1>14 DEF TenantOf
    <3>2. CASE d = t
      <4>1. ~SharesKey(TenantOf(d)', columns'[d], TenantOf(c)', columns'[c])
        BY <2>1, <2>3, <3>2, <1>14 DEF TenantOf
      <4> QED
        BY <4>1, SharesKeySymmetric
    <3> QED
      BY <3>1, <3>2, <2>2, <2>3
  <2> QED
    BY <2>3 DEF KeysUnique
<1> QED
  BY <1>8, <1>9, <1>10, <1>12, <1>15, <1>16 DEF RInv

-------------------------------------------------------------------------------
(* The steps                                                                 *)

\* Moving on, answering: r alone moves, and what it was asked stays.
LEMMA Moving ==
    ASSUME RInv, NEW r \in Requests, NEW pc \in Asked, Goes(r, pc)
    PROVE  /\ \A s \in Requests \ {r} : req'[s] = req[s]
           /\ req'[r] = [req[r] EXCEPT !.pc = pc]
           /\ req'[r].pc = pc /\ req'[r].op = req[r].op /\ req'[r].tenant = req[r].tenant
           /\ req'[r].target = req[r].target /\ req'[r].sent = req[r].sent
           /\ req'[r].loaded = req[r].loaded /\ req'[r].answer = req[r].answer
           /\ req' \in [Requests -> Request]
BY DEF Goes, RInv, RegistryTypeOK, Request

\* A request that answers keeps what it was asked, and the others do not move.
LEMMA Answering ==
    ASSUME RInv, NEW r \in Requests, NEW answer \in CompanyAnswers, Answers(r, answer)
    PROVE  /\ \A s \in Requests \ {r} : req'[s] = req[s]
           /\ req'[r].pc = "finished" /\ req'[r].op = req[r].op /\ req'[r].tenant = req[r].tenant
           /\ req'[r].target = req[r].target /\ req'[r].sent = req[r].sent
           /\ req'[r].answer = answer
           /\ req' \in [Requests -> Request]
<1>1. req \in [Requests -> Request] /\ req[r] \in Request
  BY DEF RInv, RegistryTypeOK
<1> DEFINE x == [req[r] EXCEPT !.pc = "finished", !.answer = answer, !.loaded = Nothing]
<1>2. /\ x \in Request /\ x.pc = "finished" /\ x.answer = answer
      /\ x.op = req[r].op /\ x.tenant = req[r].tenant /\ x.target = req[r].target
      /\ x.sent = req[r].sent
  BY <1>1 DEF Request
<1>3. req' = [req EXCEPT ![r] = x]
  BY <1>1 DEF Answers
<1> HIDE DEF x
<1> QED
  BY <1>1, <1>2, <1>3

\* An answer that commits nothing.
LEMMA AnswerStep ==
    ASSUME RInv, NEW r \in Requests, ~At(r, "idle"), NEW answer \in CompanyAnswers \ {"deleted"},
           Answers(r, answer), UNCHANGED <<companies, columns>>
    PROVE  RInv'
<1>1. RegistryTypeOK'
  BY Answering DEF RInv, RegistryTypeOK
<1>2. Only(r)
  BY Answering DEF Only, Done, TenantOf
<1>3. ~Open(r)'
  BY Answering DEF Open
<1>4. OwnOK(r)'
  BY Answering DEF OwnOK, CreatorOK, EditorOK, RInv, At, Done, Open
<1> QED
  BY <1>1, <1>2, <1>3, <1>4, Still

\* A move from one look-up to the next statement, or past a commit.
LEMMA LookStep ==
    ASSUME RInv, NEW r \in Requests, ~At(r, "idle"), NEW pc \in {"checking", "writing", "refreshing"},
           Goes(r, pc), UNCHANGED <<companies, columns>>,
           r \in companies => pc = "refreshing",
           r \in Editors => req[r].pc \in {"checking", "writing"},
           r \in Creators => req[r].pc = "checking"
    PROVE  RInv'
<1>1. pc \in Asked
  BY DEF Asked
<1>2. RegistryTypeOK'
  BY <1>1, Moving DEF RInv, RegistryTypeOK
<1>3. Only(r)
  BY <1>1, Moving, RegistryAssumption DEF Only, Done, TenantOf, Requests
<1>4. ~Open(r)'
  BY <1>1, Moving DEF Open
<1>5. OwnOK(r)'
  <2>1. CASE r \in Creators
    BY <2>1, <1>1, Moving, RegistryAssumption DEF OwnOK, CreatorOK, RInv, At, Done
  <2>2. CASE r \in Editors
    <3>1. req[r].target \in Creators /\ Done(req[r].target)
      BY <2>2 DEF RInv, EditorOK, At
    <3> QED
      <4>1. /\ req'[r].pc = pc /\ req'[r].op = req[r].op /\ req'[r].tenant = req[r].tenant
            /\ req'[r].target = req[r].target
        BY <1>1, Moving
      <4>2. req'[req[r].target] = req[req[r].target]
        BY <3>1, <2>2, <1>1, Moving, RegistryAssumption DEF Requests
      <4>3. EditorOK(r)
        BY <2>2 DEF RInv
      <4> QED
        BY <4>1, <4>2, <4>3, <3>1, <2>2, RegistryAssumption
        DEF OwnOK, EditorOK, At, Done, Open, TenantOf
  <2> QED
    BY <2>1, <2>2 DEF Requests
<1> QED
  BY <1>2, <1>3, <1>4, <1>5, Still

\* A request comes in.
LEMMA AskStep ==
    ASSUME RInv, NEW r \in Requests, NEW tenant \in Tenants,
           \/ r \in Creators /\ \E p \in Payloads : AskCreate(r, tenant, p)
           \/ r \in Editors /\ \E target \in Creators, p \in Patches \cup {Nothing},
                                  op \in {"update", "delete"} : AskEdit(r, op, tenant, target, p)
    PROVE  RInv'
<1>1. req \in [Requests -> Request] /\ req[r] \in Request /\ At(r, "idle")
  BY DEF RInv, RegistryTypeOK, AskCreate, AskEdit
<1>2. UNCHANGED <<companies, columns>>
  BY DEF AskCreate, AskEdit
<1>3. CASE r \in Creators /\ \E p \in Payloads : AskCreate(r, tenant, p)
  <2>1. PICK p \in Payloads : AskCreate(r, tenant, p)
    BY <1>3
  <2> DEFINE x == [req[r] EXCEPT !.pc = "checking", !.tenant = tenant, !.sent = p]
  <2>2. req' = [req EXCEPT ![r] = x]
    BY <1>1, <2>1 DEF AskCreate
  <2>3. x \in Request /\ x.pc = "checking" /\ x.op = req[r].op /\ x.sent = p /\ p \in CompanyRow
    BY <1>1, SentFacts, RegistryAssumption DEF Request, Asked
  <2> HIDE DEF x
  <2>4. RegistryTypeOK' /\ Only(r) /\ ~Open(r)' /\ r \notin companies
    BY <1>1, <1>2, <1>3, <2>2, <2>3
    DEF RInv, RegistryTypeOK, Only, Open, Done, At, CreatorOK
  <2>5. OwnOK(r)'
    BY <1>1, <1>2, <1>3, <2>2, <2>3, <2>4, RegistryAssumption DEF OwnOK, RInv, CreatorOK, At
  <2> QED
    BY <1>2, <2>4, <2>5, Still
<1>4. CASE r \in Editors /\ \E target \in Creators, p \in Patches \cup {Nothing},
                op \in {"update", "delete"} : AskEdit(r, op, tenant, target, p)
  <2>1. PICK target \in Creators, p \in Patches \cup {Nothing}, op \in {"update", "delete"} :
               AskEdit(r, op, tenant, target, p)
    BY <1>4
  <2> DEFINE x == [req[r] EXCEPT !.pc = "loading", !.op = op, !.tenant = tenant,
                                 !.target = target, !.sent = p]
  <2>2. req' = [req EXCEPT ![r] = x]
    BY <1>1, <2>1 DEF AskEdit
  <2>3. x \in Request /\ x.pc = "loading" /\ x.op = op /\ x.target = target
    BY <1>1, SentFacts DEF Request, Asked
  <2> HIDE DEF x
  <2>4. RegistryTypeOK' /\ Only(r) /\ ~Open(r)'
    BY <1>1, <1>2, <2>2, <2>3 DEF RInv, RegistryTypeOK, Only, Open, Done, At
  <2>5. OwnOK(r)'
    BY <1>1, <1>4, <2>2, <2>3, RegistryAssumption DEF OwnOK, EditorOK, At, Open
  <2> QED
    BY <1>2, <2>4, <2>5, Still
<1> QED
  BY <1>3, <1>4

\* The row is read: from here on it is known to have been there.
LEMMA LoadStep ==
    ASSUME RInv, NEW r \in Requests, Load(r)
    PROVE  RInv'
<1>1. req \in [Requests -> Request] /\ req[r] \in Request /\ At(r, "loading") /\ ~At(r, "idle")
  BY DEF RInv, RegistryTypeOK, Load, At
<1>2. UNCHANGED <<companies, columns>>
  BY DEF Load
<1>3. CASE \E a \in {"not_found", "updated"} : Answers(r, a)
  BY <1>1, <1>2, <1>3, AnswerStep DEF CompanyAnswers
<1>4. CASE Visible(r) /\ \E pc \in {"checking", "writing"} :
             req' = [req EXCEPT ![r].loaded = columns[Target(r)], ![r].pc = pc]
  <2>1. PICK pc \in {"checking", "writing"} :
               req' = [req EXCEPT ![r].loaded = columns[Target(r)], ![r].pc = pc]
    BY <1>4
  <2>2. r \in Editors /\ r \notin Creators
    BY <1>1, RegistryAssumption DEF RInv, CreatorOK, At, Requests
  <2>3. /\ Target(r) = req[r].target /\ Target(r) \in companies /\ Target(r) \in Creators
        /\ columns[Target(r)] \in CompanyRow /\ Done(Target(r))
        /\ TenantOf(Target(r)) = req[r].tenant
    BY <1>4, <2>2 DEF Target, Visible, RInv, RegistryTypeOK, CreatorOK
  <2> DEFINE x == [req[r] EXCEPT !.loaded = columns[Target(r)], !.pc = pc]
  <2>4. req' = [req EXCEPT ![r] = x]
    BY <1>1, <2>1
  <2>5. /\ x \in Request /\ x.pc = pc /\ x.op = req[r].op /\ x.target = req[r].target
        /\ x.tenant = req[r].tenant
    BY <1>1, <2>3 DEF Request, Asked
  <2> HIDE DEF x
  <2>6. RegistryTypeOK' /\ Only(r) /\ ~Open(r)'
    BY <1>1, <1>2, <2>4, <2>5 DEF RInv, RegistryTypeOK, Only, Open, Done, At
  <2>7. OwnOK(r)'
    <3>1. EditorOK(r) /\ req'[req[r].target] = req[req[r].target] /\ req'[r] = x
      BY <1>1, <2>2, <2>3, <2>4 DEF RInv, Requests
    <3> QED
      BY <3>1, <1>1, <2>2, <2>3, <2>5 DEF OwnOK, EditorOK, At, Open, Done, TenantOf
  <2> QED
    BY <1>2, <2>6, <2>7, Still
<1> QED
  BY <1>3, <1>4 DEF Load

\* The look-up of the listing answers or goes on; nothing is held yet.
LEMMA CheckStep ==
    ASSUME RInv, NEW r \in Requests, CheckNewListing(r) \/ CheckEditedListing(r)
    PROVE  RInv'
<1>1. At(r, "checking") /\ ~At(r, "idle") /\ UNCHANGED <<companies, columns>>
  BY DEF CheckNewListing, CheckEditedListing, At
<1>2. CASE Answers(r, "conflict")
  BY <1>1, <1>2, AnswerStep DEF CompanyAnswers
<1>3. CASE Goes(r, "writing")
  <2>1. r \notin companies
    BY <1>1, RegistryAssumption DEF RInv, RegistryTypeOK, CreatorOK, Done, At
  <2> QED
    BY <1>1, <1>3, <2>1, LookStep DEF At
<1> QED
  BY <1>2, <1>3 DEF CheckNewListing, CheckEditedListing

\* A write takes its row, or its keys.
LEMMA OpenStep ==
    ASSUME RInv, NEW r \in Requests, NEW pc \in {"locked", "written"},
           Goes(r, pc), UNCHANGED <<companies, columns>>,
           r \in Creators => At(r, "writing") /\ pc = "written",
           r \in Editors => /\ At(r, "writing") \/ At(r, "locked")
                            /\ pc = "locked" => req[r].op = "update",
           At(r, "locked") \/ ~RowLocked(Target(r)) \/ Target(r) \notin companies,
           r \in Editors /\ req[r].op = "update" =>
               Target(r) \in companies /\ NewColumns(r) \in CompanyRow,
           pc = "written" /\ req[r].op # "delete" =>
               ~KeyBusy(r) /\ \A c \in companies : ~Violates(r, c)
    PROVE  RInv'
<1>1. pc \in Asked
  BY DEF Asked
<1>2. /\ \A s \in Requests \ {r} : req'[s] = req[s]
      /\ req'[r].pc = pc /\ req'[r].op = req[r].op /\ req'[r].tenant = req[r].tenant
      /\ req'[r].target = req[r].target /\ req'[r].sent = req[r].sent
      /\ req'[r].loaded = req[r].loaded
      /\ req' \in [Requests -> Request]
  BY <1>1, Moving
<1>3. RegistryTypeOK' /\ Only(r) /\ Open(r)'
  BY <1>2 DEF RInv, RegistryTypeOK, Only, Open, Done, TenantOf, At, Requests
<1>4. ~At(r, "idle") /\ (Open(r) \/ ~RowLocked(Target(r)) \/ Target(r) \notin companies)
  BY DEF Open, At, Requests
<1>5. Writes(r)' => ~KeyBusy(r) /\ \A c \in companies : ~Violates(r, c)
  BY <1>2 DEF Writes, At
<1>6. OwnOK(r)'
  <2>1. CASE r \in Creators
    BY <2>1, <1>2, RegistryAssumption DEF OwnOK, RInv, CreatorOK, At, Done
  <2>2. CASE r \in Editors
    <3>1. EditorOK(r) /\ r \notin Creators /\ Target(r) = req[r].target
      BY <2>2, RegistryAssumption DEF RInv, Target
    <3>2. req[r].target \in Creators /\ req'[req[r].target] = req[req[r].target]
      BY <3>1, <1>2, <1>4 DEF EditorOK, Requests
    <3>3. NewColumns(r)' = NewColumns(r)
      BY <1>2 DEF NewColumns, Target
    <3> QED
      BY <3>1, <3>2, <3>3, <2>2, <1>2 DEF OwnOK, EditorOK, At, Open, Done, TenantOf
  <2> QED
    BY <2>1, <2>2 DEF Requests
<1> QED
  BY <1>3, <1>4, <1>5, <1>6, Opens

\* The INSERT, UPDATE or DELETE takes its row and its keys, or fails.
LEMMA WriteStep ==
    ASSUME RInv, NEW r \in Requests, Insert(r) \/ Update(r) \/ EnterIndexes(r) \/ Delete(r)
    PROVE  RInv'
<1>1. ~At(r, "idle") /\ UNCHANGED <<companies, columns>>
  BY DEF Insert, Update, EnterIndexes, Delete, At
<1>2. CASE Answers(r, "server_error")
  BY <1>1, <1>2, AnswerStep DEF CompanyAnswers
<1>3. CASE Insert(r) /\ Goes(r, "written")
  <2>1. /\ At(r, "writing") /\ r \in Creators /\ r \notin Editors /\ Target(r) = r
        /\ r \notin companies
    BY <1>3, RegistryAssumption DEF Insert, Target, RInv, CreatorOK, Done, At
  <2>2. ~KeyBusy(r) /\ \A c \in companies : ~Violates(r, c)
    BY <1>3, <2>1 DEF Insert, Answers, Goes, RInv, RegistryTypeOK, Request
  <2> QED
    BY <1>1, <1>3, <2>1, <2>2, OpenStep
<1>4. CASE Update(r) /\ Goes(r, "refreshing")
  <2>1. At(r, "writing") /\ r \in Editors /\ r \notin Creators
    BY <1>4, RegistryAssumption DEF Update
  <2> QED
    BY <1>1, <1>4, <2>1, LookStep DEF At
<1>5. CASE Update(r) /\ Goes(r, "locked") /\ ~RowLocked(Target(r)) /\ Target(r) \in companies
           /\ NewColumns(r) \in CompanyRow
  BY <1>1, <1>5, RegistryAssumption, OpenStep DEF Update
<1>6. CASE EnterIndexes(r) /\ Goes(r, "written") /\ ~KeyBusy(r)
           /\ \A c \in companies : ~Violates(r, c)
  <2>1. At(r, "locked") /\ r \in Editors /\ r \notin Creators
    BY <1>6, RegistryAssumption DEF EnterIndexes, RInv, CreatorOK, At, Requests
  <2>2. req[r].op = "update" /\ Target(r) \in companies /\ NewColumns(r) \in CompanyRow
    BY <2>1 DEF RInv, EditorOK, Open, At, Target
  <2> QED
    BY <1>1, <1>6, <2>1, <2>2, OpenStep
<1>7. CASE Delete(r)
  BY <1>1, <1>7, RegistryAssumption, OpenStep DEF Delete
<1> QED
  <2>1. CASE Insert(r)
    BY <2>1, <1>2, <1>3 DEF Insert
  <2>2. CASE Update(r)
    BY <2>2, <1>2, <1>4, <1>5 DEF Update
  <2>3. CASE EnterIndexes(r)
    BY <2>3, <1>2, <1>6 DEF EnterIndexes
  <2> QED
    BY <2>1, <2>2, <2>3, <1>7

\* A commit, whether its answer arrives or not.
LEMMA CommitStep ==
    ASSUME RInv, NEW r \in Requests, At(r, "written"), Applied(r),
           \/ req[r].op = "delete" /\ Answers(r, "deleted")
           \/ req[r].op # "delete" /\ Goes(r, "refreshing")
           \/ Answers(r, "server_error")
    PROVE  RInv'
<1>1. /\ \A s \in Requests \ {r} : req'[s] = req[s]
      /\ req'[r].op = req[r].op /\ req'[r].tenant = req[r].tenant
      /\ req'[r].target = req[r].target /\ req'[r].sent = req[r].sent
      /\ req' \in [Requests -> Request]
      /\ \/ req[r].op = "delete" /\ req'[r].pc = "finished" /\ req'[r].answer = "deleted"
         \/ req[r].op # "delete" /\ req'[r].pc = "refreshing"
         \/ req'[r].pc = "finished" /\ req'[r].answer = "server_error"
  BY Moving, Answering DEF Asked, CompanyAnswers
<1>2. Only(r) /\ Done(r)'
  BY <1>1 DEF Only, Done, TenantOf
<1>3. Target(r) \in Creators /\ (r \in Editors => Target(r) = req[r].target)
  BY RegistryAssumption DEF Target, RInv, EditorOK, Requests, At
<1>4. req[r].op # "delete" => NewColumns(r) \in CompanyRow
  BY RegistryAssumption DEF RInv, CreatorOK, EditorOK, Open, At, Requests, NewColumns
<1>5. RegistryTypeOK'
  BY <1>1, <1>3, <1>4 DEF Applied, RInv, RegistryTypeOK
<1>6. OwnOK(r)'
  <2>1. CASE r \in Creators
    BY <2>1, <1>1, <1>2, RegistryAssumption DEF OwnOK, RInv, CreatorOK, At, Done
  <2>2. CASE r \in Editors
    <3>1. EditorOK(r) /\ r \notin Creators /\ Target(r) = req[r].target
      BY <2>2, <1>3, RegistryAssumption DEF RInv
    <3>2. req[r].target \in Creators /\ req'[req[r].target] = req[req[r].target]
      BY <3>1, <1>1, <1>3 DEF Requests
    <3>3. req[r].op = "delete" => req[r].target \notin companies'
      BY <3>1 DEF Applied
    <3> QED
      BY <3>1, <3>2, <3>3, <2>2, <1>1 DEF OwnOK, EditorOK, At, Open, Done, TenantOf
  <2> QED
    BY <2>1, <2>2 DEF Requests
<1> QED
  BY <1>1, <1>2, <1>5, <1>6, Applies

\* The answer after the commit changes no table.
LEMMA RefreshStep ==
    ASSUME RInv, NEW r \in Requests, Refresh(r)
    PROVE  RInv'
<1>1. ~At(r, "idle") /\ UNCHANGED <<companies, columns>>
      /\ \E a \in CompanyAnswers \ {"deleted"} : Answers(r, a)
  BY DEF Refresh, At, CompanyAnswers
<1> QED
  BY <1>1, AnswerStep

\* A fault is an answer, or a commit whose answer is lost.
LEMMA FaultStep ==
    ASSUME RInv, NEW r \in Requests, Fault(r)
    PROVE  RInv'
<1>1. CASE req[r].pc \in Asked /\ Answers(r, "server_error") /\ UNCHANGED <<companies, columns>>
  BY <1>1, AnswerStep DEF Asked, At, CompanyAnswers
<1>2. CASE At(r, "written") /\ Answers(r, "server_error") /\ Applied(r)
  BY <1>2, CommitStep
<1> QED
  BY <1>1, <1>2 DEF Fault

\* The invariant is inductive.
LEMMA RegistryInductive == RInv /\ [Next]_vars => RInv'
<1> SUFFICES ASSUME RInv, [Next]_vars PROVE RInv'
  OBVIOUS
<1>1. ASSUME NEW r \in Creators, NEW tenant \in Tenants, NEW p \in Payloads, AskCreate(r, tenant, p)
      PROVE  RInv'
  BY <1>1, AskStep DEF Requests
<1>2. ASSUME NEW r \in Editors, NEW tenant \in Organizations, NEW target \in Creators,
             \/ AskEdit(r, "delete", tenant, target, Nothing)
             \/ \E p \in Patches : AskEdit(r, "update", tenant, target, p)
      PROVE  RInv'
  <2>1. tenant \in Tenants /\ r \in Requests
    BY RegistryAssumption DEF Requests
  <2>2. \E p \in Patches \cup {Nothing}, op \in {"update", "delete"} :
           AskEdit(r, op, tenant, target, p)
    BY <1>2
  <2> QED
    BY <2>1, <2>2, AskStep
<1>3. ASSUME NEW r \in Requests, Step(r) PROVE RInv'
  <2>1. CASE Commit(r)
    BY <2>1, CommitStep DEF Commit
  <2> QED
    BY <1>3, <2>1, LoadStep, CheckStep, WriteStep, RefreshStep DEF Step
<1>4. ASSUME NEW r \in Requests, Fault(r) PROVE RInv'
  BY <1>4, FaultStep
<1>5. CASE UNCHANGED vars
  BY <1>5 DEF vars, RInv, RegistryTypeOK, CreatorOK, EditorOK, RowExclusive, KeysHeld, KeysFree,
              KeysUnique, Shares, Clashes, Open, Writes, Done, At, Target, TenantOf, NewColumns
<1> QED
  BY <1>1, <1>2, <1>3, <1>4, <1>5 DEF Next, AllAnswered

\* RInv holds of every reachable state.
LEMMA RegistryInvariant == Spec => []RInv
BY RegistryInitial, RegistryInductive, PTL DEF Spec

-------------------------------------------------------------------------------

\* No column that must not be null ever is, and every loaded copy was a row.
THEOREM RegistryTypeCorrect == Spec => []RegistryTypeOK
<1>1. RInv => RegistryTypeOK
  BY DEF RInv
<1> QED
  BY <1>1, RegistryInvariant, PTL

\* Whatever POSTs and PATCHes race past their look-ups: one company per listing
\* of an organization, one company per ISIN.
THEOREM CompaniesUnique == Spec => []UniqueCompanies
<1>1. RInv => UniqueCompanies
  BY DEF RInv, KeysUnique, UniqueCompanies, SharesKey
<1> QED
  BY <1>1, RegistryInvariant, PTL

\* No request that had loaded a company brings it back once its deletion is answered.
THEOREM DeletionsLast == Spec => []DeletedIsGone
<1>1. RInv => DeletedIsGone
  BY DEF RInv, EditorOK, DeletedIsGone
<1> QED
  BY <1>1, RegistryInvariant, PTL

\* A step that changes or removes a company.
ByItsTenant ==
    \A c \in companies :
        (c \notin companies' \/ columns'[c] # columns[c]) =>
            \E e \in Editors :
                /\ At(e, "written") /\ req'[e].pc # "written"
                /\ Target(e) = c /\ req[e].tenant = TenantOf(c)

\* The organization is compared when the row is loaded, long before the write:
\* neither changes in between.
THEOREM TenantsIsolated == Spec => TenantIsolation
<1>1. ASSUME RInv, Next PROVE ByItsTenant
  <2>1. ASSUME NEW r \in Requests, At(r, "written"), Applied(r), req'[r].pc # "written"
        PROVE  ByItsTenant
    <3>1. ASSUME NEW c \in companies, c \notin companies' \/ columns'[c] # columns[c]
          PROVE  Target(r) = c
      BY <1>1, <2>1, <3>1 DEF Applied, RInv, RegistryTypeOK
    <3>2. ASSUME NEW c \in companies, Target(r) = c
          PROVE  r \in Editors /\ req[r].tenant = TenantOf(c)
      BY <2>1, <3>2, <1>1, RegistryAssumption
      DEF RInv, CreatorOK, EditorOK, Target, Done, At, Requests
    <3> QED
      BY <2>1, <3>1, <3>2 DEF ByItsTenant
  <2>2. CASE UNCHANGED <<companies, columns>>
    BY <2>2 DEF ByItsTenant
  <2>3. ASSUME NEW r \in Requests, Commit(r) \/ Fault(r) PROVE ByItsTenant
    <3>1. CASE Commit(r)
      <4>1. req'[r].pc # "written"
        BY <1>1, <3>1, Moving, Answering DEF Commit, Asked, CompanyAnswers
      <4> QED
        BY <2>1, <3>1, <4>1 DEF Commit
    <3>2. CASE At(r, "written") /\ Answers(r, "server_error") /\ Applied(r)
      BY <1>1, <2>1, <3>2, Answering DEF CompanyAnswers
    <3> QED
      BY <2>2, <2>3, <3>1, <3>2 DEF Fault
  <2>4. ASSUME NEW r \in Requests, Step(r), ~Commit(r) PROVE UNCHANGED <<companies, columns>>
    BY <2>4 DEF Step, Load, CheckNewListing, CheckEditedListing, Insert, Update, EnterIndexes,
                Delete, Refresh
  <2>5. ASSUME NEW r \in Requests, Step(r) \/ Fault(r) PROVE ByItsTenant
    BY <2>2, <2>3, <2>4, <2>5
  <2>6. CASE \E r \in Requests : Step(r) \/ Fault(r)
    BY <2>5, <2>6
  <2>7. CASE AllAnswered
    BY <2>2, <2>7 DEF AllAnswered, vars
  <2>8. ASSUME NEW r, NEW tenant, NEW x, NEW target, NEW op,
               AskCreate(r, tenant, x) \/ AskEdit(r, op, tenant, target, x)
        PROVE  ByItsTenant
    BY <2>2, <2>8 DEF AskCreate, AskEdit
  <2> QED
    BY <1>1, <2>6, <2>7, <2>8 DEF Next
<1>2. RInv /\ [Next]_vars => [ByItsTenant]_vars
  BY <1>1
<1> QED
  BY <1>2, RegistryInvariant, PTL DEF Spec, TenantIsolation, ByItsTenant

-------------------------------------------------------------------------------
(* Who wrote a column                                                        *)

SentBy(c, f, v) ==
    \E d \in Editors :
        /\ ~At(d, "idle") /\ req[d].target = c
        /\ f \in DOMAIN req[d].sent /\ req[d].sent[f] = v

\* A column is what a request has loaded, or what another PATCH has sent since.
LoadedKept(e) ==
    req[e].pc \in {"checking", "writing", "locked", "written"} /\ req[e].target \in companies =>
        \A f \in Columns :
            LET now == columns[req[e].target][f]
            IN  now = req[e].loaded[f] \/ SentBy(req[e].target, f, now)

\* PatchesKept from the commit on, and for a company that was there.
PatchKept(e) ==
    At(e, "refreshing") \/ (At(e, "finished") /\ req[e].answer = "updated") =>
        \A f \in DOMAIN req[e].sent :
            /\ Done(req[e].target)
            /\ req[e].target \in companies =>
                 SentBy(req[e].target, f, columns[req[e].target][f])

PInv == RInv /\ \A e \in Editors : LoadedKept(e) /\ PatchKept(e)

\* r alone moves; what it was asked, if it was, stays.
Moved(r) ==
    /\ \A s \in Requests \ {r} : req'[s] = req[s]
    /\ ~At(r, "idle") =>
         /\ ~At(r, "idle")'
         /\ req'[r].target = req[r].target /\ req'[r].sent = req[r].sent

\* An UPDATE sets the columns whose sent value differs from the loaded one.
LEMMA UpdatedColumns ==
    ASSUME NEW old, NEW sent, NEW loaded, NEW f \in Columns
    PROVE  /\ f \in Changed(sent, loaded) =>
                Updated(old, sent, loaded)[f] = sent[f] /\ f \in DOMAIN sent
           /\ f \notin Changed(sent, loaded) => Updated(old, sent, loaded)[f] = old[f]
           /\ f \in DOMAIN sent /\ f \notin Changed(sent, loaded) => sent[f] = loaded[f]
BY DEF Updated, Overlay, Changed

\* What was sent stays sent.
LEMMA SentStays ==
    ASSUME RInv, NEW r \in Requests, Moved(r), NEW c, NEW f, NEW v, SentBy(c, f, v)
    PROVE  SentBy(c, f, v)'
<1>1. PICK d \in Editors : /\ ~At(d, "idle") /\ req[d].target = c
                           /\ f \in DOMAIN req[d].sent /\ req[d].sent[f] = v
  BY DEF SentBy
<1>2. ~At(d, "idle")' /\ req'[d].target = req[d].target /\ req'[d].sent = req[d].sent
  BY <1>1 DEF Moved, Requests, At
<1> QED
  BY <1>1, <1>2 DEF SentBy

\* A column of a company either stays or is set to what an editor sent.
LEMMA ColumnsAttributed ==
    ASSUME RInv, NEW r \in Requests, Moved(r),
           UNCHANGED <<companies, columns>> \/ (At(r, "written") /\ Applied(r)),
           NEW c \in Creators, Done(c), c \in companies', NEW f \in Columns
    PROVE  /\ c \in companies
           /\ \/ columns'[c][f] = columns[c][f]
              \/ \E v : v = columns'[c][f] /\ SentBy(c, f, v)'
<1>1. CASE UNCHANGED <<companies, columns>>
  BY <1>1
<1>2. CASE At(r, "written") /\ Applied(r) /\ req[r].op = "delete"
  BY <1>2 DEF Applied
<1>3. CASE At(r, "written") /\ Applied(r) /\ req[r].op # "delete"
  <2>1. r \in Creators => c # r
    BY <1>3 DEF Done, At
  <2>2. CASE c # Target(r)
    BY <2>2, <1>3 DEF Applied, RInv, RegistryTypeOK
  <2>3. CASE c = Target(r)
    <3>1. r \in Editors /\ r \notin Creators /\ c = req[r].target /\ c \in companies
      BY <2>1, <2>3, <1>3 DEF Target, Requests, RInv, EditorOK, Open, At
    <3>2. columns'[c] = Updated(columns[c], req[r].sent, req[r].loaded)
      BY <3>1, <2>3, <1>3 DEF Applied, NewColumns, RInv, RegistryTypeOK
    <3>3. ~At(r, "idle")' /\ req'[r].target = c /\ req'[r].sent = req[r].sent
      BY <3>1, <1>3 DEF Moved, At
    <3>4. CASE f \in Changed(req[r].sent, req[r].loaded)
      <4>1. columns'[c][f] = req[r].sent[f] /\ f \in DOMAIN req[r].sent
        BY <3>2, <3>4, UpdatedColumns
      <4>2. ASSUME NEW v, v = req[r].sent[f] PROVE SentBy(c, f, v)'
        BY <3>1, <3>3, <4>1, <4>2 DEF SentBy
      <4> QED
        BY <3>1, <4>1, <4>2
    <3>5. CASE f \notin Changed(req[r].sent, req[r].loaded)
      BY <3>1, <3>2, <3>5, UpdatedColumns
    <3> QED
      BY <3>1, <3>4, <3>5
  <2> QED
    BY <2>2, <2>3
<1> QED
  BY <1>1, <1>2, <1>3

\* So what is known of the other requests stays.
LEMMA OthersKept ==
    ASSUME PInv, NEW r \in Requests, Moved(r), Done(r) => Done(r)',
           UNCHANGED <<companies, columns>> \/ (At(r, "written") /\ Applied(r))
    PROVE  \A e \in Editors \ {r} : LoadedKept(e)' /\ PatchKept(e)'
<1> SUFFICES ASSUME NEW e \in Editors \ {r} PROVE LoadedKept(e)' /\ PatchKept(e)'
  OBVIOUS
<1>1. /\ req'[e] = req[e] /\ RInv /\ EditorOK(e) /\ LoadedKept(e) /\ PatchKept(e)
      /\ req[e].sent \in Sent
  BY DEF PInv, RInv, RegistryTypeOK, Request, Moved, Requests
<1> PICK t : t = req[e].target
  OBVIOUS
<1>2. ASSUME NEW f \in Columns, t \in Creators, Done(t), t \in companies',
             columns[t][f] = req[e].loaded[f] \/ SentBy(t, f, columns[t][f])
      PROVE  /\ t \in companies
             /\ \E v : v = columns'[t][f] /\ (v = req[e].loaded[f] \/ SentBy(t, f, v)')
  <2>1. PICK w : w = columns[t][f]
    OBVIOUS
  <2>2. SentBy(t, f, w) => SentBy(t, f, w)'
    BY <1>1, SentStays
  <2> QED
    BY <1>1, <1>2, <2>1, <2>2, ColumnsAttributed
<1>3. LoadedKept(e)'
  <2>1. ASSUME req[e].pc \in {"checking", "writing", "locked", "written"}, t \in companies',
               NEW f \in Columns
        PROVE  \E v : v = columns'[t][f] /\ (v = req[e].loaded[f] \/ SentBy(t, f, v)')
    <3>1. t \in Creators /\ Done(t)
      BY <1>1, <2>1 DEF EditorOK, At
    <3>2. t \in companies
      BY <1>1, <2>1, <3>1, ColumnsAttributed
    <3> QED
      BY <1>1, <1>2, <2>1, <3>1, <3>2 DEF LoadedKept
  <2> QED
    BY <1>1, <2>1 DEF LoadedKept
<1>4. PatchKept(e)'
  <2>1. ASSUME At(e, "refreshing") \/ (At(e, "finished") /\ req[e].answer = "updated"),
               NEW f \in DOMAIN req[e].sent
        PROVE  /\ Done(t)'
               /\ t \in companies' => \E v : v = columns'[t][f] /\ SentBy(t, f, v)'
    <3>1. t \in Creators /\ Done(t) /\ f \in Columns
      BY <1>1, <2>1 DEF EditorOK, PatchKept, At, Sent
    <3>2. Done(t)'
      BY <3>1 DEF Moved, Requests, Done
    <3>3. ASSUME t \in companies' PROVE \E v : v = columns'[t][f] /\ SentBy(t, f, v)'
      <4>1. /\ t \in companies
            /\ \/ columns'[t][f] = columns[t][f]
               \/ \E v : v = columns'[t][f] /\ SentBy(t, f, v)'
        BY <1>1, <3>1, <3>3, ColumnsAttributed
      <4>2. PICK w : w = columns[t][f]
        OBVIOUS
      <4>3. SentBy(t, f, w)
        BY <1>1, <2>1, <4>1, <4>2 DEF PatchKept
      <4>4. SentBy(t, f, w)'
        BY <1>1, <4>3, SentStays
      <4> QED
        BY <4>1, <4>2, <4>4
    <3> QED
      BY <3>2, <3>3
  <2> QED
    BY <1>1, <2>1 DEF PatchKept, At
<1> QED
  BY <1>3, <1>4

Attributed == \A e \in Editors : LoadedKept(e) /\ PatchKept(e)

\* From its look-ups to its write a request keeps the copy it loaded.
LEMMA CopyKept ==
    ASSUME PInv, NEW r \in Editors, NEW pc \in {"writing", "locked", "written"}, Goes(r, pc),
           req[r].pc \in {"checking", "writing", "locked"}, UNCHANGED <<companies, columns>>
    PROVE  Attributed'
<1>1. /\ r \in Requests /\ RInv /\ pc \in Asked
      /\ \A s \in Requests \ {r} : req'[s] = req[s]
      /\ req'[r].pc = pc /\ req'[r].target = req[r].target /\ req'[r].sent = req[r].sent
      /\ req'[r].loaded = req[r].loaded
  BY Moving DEF Requests, Asked, PInv
<1>2. Moved(r) /\ ~Done(r)
  BY <1>1 DEF Moved, At, Done
<1> PICK t : t = req[r].target
  OBVIOUS
<1>3. LoadedKept(r)'
  <2>1. ASSUME t \in companies, NEW f \in Columns
        PROVE  \E v : v = columns'[t][f] /\ (v = req[r].loaded[f] \/ SentBy(t, f, v)')
    <3>1. PICK v : v = columns[t][f]
      OBVIOUS
    <3>2. v = req[r].loaded[f] \/ SentBy(t, f, v)
      BY <2>1, <3>1 DEF PInv, LoadedKept
    <3> QED
      BY <1>1, <1>2, <3>1, <3>2, SentStays
  <2> QED
    BY <1>1, <2>1 DEF LoadedKept
<1>4. PatchKept(r)'
  BY <1>1 DEF PatchKept, At
<1> QED
  BY <1>1, <1>2, <1>3, <1>4, OthersKept DEF Attributed

\* A step of r after which nothing is claimed of its copy or its patch.
LEMMA NothingClaimed ==
    ASSUME PInv, NEW r \in Requests, Moved(r), Done(r) => Done(r)',
           UNCHANGED <<companies, columns>> \/ (At(r, "written") /\ Applied(r)),
           \/ r \in Creators
           \/ req'[r].pc = "loading"
           \/ req'[r].pc = "finished" /\ (req'[r].answer = "updated" => DOMAIN req'[r].sent = {})
    PROVE  Attributed'
<1>1. ASSUME r \in Editors PROVE LoadedKept(r)' /\ PatchKept(r)'
  <2>1. r \notin Creators
    BY <1>1, RegistryAssumption
  <2> QED
    BY <2>1 DEF LoadedKept, PatchKept, At
<1> QED
  BY <1>1, OthersKept DEF Attributed

\* A request that answers without a patch claims nothing of the columns.
LEMMA AnswerKept ==
    ASSUME PInv, NEW r \in Requests, ~At(r, "idle"),
           NEW answer \in CompanyAnswers, Answers(r, answer),
           \/ r \in Creators
           \/ answer # "updated"
           \/ DOMAIN req[r].sent = {},
           UNCHANGED <<companies, columns>> \/ (At(r, "written") /\ Applied(r))
    PROVE  Attributed'
<1>1. /\ RInv /\ \A s \in Requests \ {r} : req'[s] = req[s]
      /\ req'[r].pc = "finished" /\ req'[r].target = req[r].target /\ req'[r].sent = req[r].sent
      /\ req'[r].answer = answer
  BY Answering DEF PInv
<1>2. Moved(r) /\ Done(r)'
  BY <1>1 DEF Moved, Done, At
<1> QED
  BY <1>1, <1>2, NothingClaimed

\* The write is committed: what it set it has sent, and what it did not set is
\* what it has sent, because it was loaded, or what another PATCH has sent since.
LEMMA CommitKept ==
    ASSUME PInv, NEW r \in Editors, Goes(r, "refreshing"),
           \/ At(r, "written") /\ req[r].op = "update" /\ Applied(r)
           \/ /\ At(r, "writing") /\ Changed(req[r].sent, req[r].loaded) = {}
              /\ UNCHANGED <<companies, columns>>
    PROVE  Attributed'
<1>1. /\ r \in Requests /\ r \notin Creators /\ RInv /\ EditorOK(r)
      /\ \A s \in Requests \ {r} : req'[s] = req[s]
      /\ req'[r].pc = "refreshing" /\ req'[r].target = req[r].target
      /\ req'[r].sent = req[r].sent /\ req[r].sent \in Sent
  BY Moving, RegistryAssumption DEF Requests, Asked, PInv, RInv, RegistryTypeOK, Request
<1>2. Moved(r) /\ ~Done(r)
  BY <1>1 DEF Moved, At, Done
<1> PICK t : t = req[r].target
  OBVIOUS
<1>3. t \in Creators /\ Done(t) /\ Done(t)' /\ Target(r) = t
  BY <1>1, RegistryAssumption DEF EditorOK, At, Done, Requests, Target
<1>4. t \in companies' => t \in companies
  BY <1>1, <1>3 DEF Applied, EditorOK, Open, At
<1>5. LoadedKept(r)'
  BY <1>1 DEF LoadedKept
<1>6. PatchKept(r)'
  <2>1. ASSUME NEW f \in DOMAIN req[r].sent, t \in companies'
        PROVE  \E v : v = columns'[t][f] /\ SentBy(t, f, v)'
    <3>1. f \in Columns
      BY <1>1, <2>1 DEF Sent
    <3>2. PICK v : v = columns'[t][f]
      OBVIOUS
    <3>3. CASE v = req[r].sent[f]
      BY <1>1, <2>1, <3>2, <3>3 DEF SentBy, At
    <3>4. CASE v # req[r].sent[f]
      <4>1. columns'[t][f] = columns[t][f] /\ req[r].sent[f] = req[r].loaded[f]
        <5>1. CASE UNCHANGED <<companies, columns>> /\ Changed(req[r].sent, req[r].loaded) = {}
          BY <2>1, <3>1, <5>1, UpdatedColumns
        <5>2. CASE At(r, "written") /\ req[r].op = "update" /\ Applied(r)
          <6>1. columns'[t] = Updated(columns[t], req[r].sent, req[r].loaded)
            BY <1>1, <1>3, <5>2 DEF Applied, NewColumns, RInv, RegistryTypeOK
          <6> QED
            BY <6>1, <2>1, <3>1, <3>2, <3>4, UpdatedColumns
        <5> QED
          BY <5>1, <5>2
      <4>2. SentBy(t, f, v)
        BY <1>4, <2>1, <3>1, <3>2, <3>4, <4>1 DEF PInv, LoadedKept, At
      <4>3. SentBy(t, f, v)'
        BY <1>1, <1>2, <4>2, SentStays
      <4> QED
        BY <3>2, <4>3
    <3> QED
      BY <3>3, <3>4
  <2> QED
    BY <1>1, <1>3, <2>1 DEF PatchKept
<1>7. UNCHANGED <<companies, columns>> \/ (At(r, "written") /\ Applied(r))
  OBVIOUS
<1> QED
  BY <1>1, <1>2, <1>5, <1>6, <1>7, OthersKept DEF Attributed

\* A request comes in: nothing is claimed of it yet.
LEMMA AskAttributed ==
    ASSUME PInv, NEW r \in Requests, NEW x \in Request,
           r \in Creators \/ x.pc = "loading", x.pc # "idle",
           At(r, "idle"), req' = [req EXCEPT ![r] = x], UNCHANGED <<companies, columns>>
    PROVE  Attributed'
<1>1. req'[r] = x /\ \A s \in Requests \ {r} : req'[s] = req[s]
  BY DEF PInv, RInv, RegistryTypeOK
<1>2. Moved(r) /\ ~Done(r)
  BY <1>1 DEF Moved, At, Done
<1> QED
  BY <1>1, <1>2, NothingClaimed

\* The steps of a POST claim nothing.
LEMMA CreatorAttributed ==
    ASSUME PInv, NEW r \in Creators, ~At(r, "idle"),
           \/ \E pc \in Asked \ {"loading", "checking", "writing"} : Goes(r, pc)
           \/ Goes(r, "writing") /\ At(r, "checking"),
           UNCHANGED <<companies, columns>> \/ (At(r, "written") /\ Applied(r)),
           Done(r) => Done(r)'
    PROVE  Attributed'
<1>1. PICK pc \in Asked : Goes(r, pc)
  BY DEF Asked
<1>2. Moved(r)
  BY <1>1, Moving DEF Moved, At, Asked, PInv, Requests
<1> QED
  BY <1>2, NothingClaimed DEF Requests

\* The copy is what the row holds; a patch that sends nothing claims nothing.
LEMMA LoadAttributed ==
    ASSUME PInv, NEW r \in Requests, Load(r)
    PROVE  Attributed'
<1>1. /\ req \in [Requests -> Request] /\ req[r] \in Request /\ At(r, "loading")
      /\ ~At(r, "idle") /\ UNCHANGED <<companies, columns>>
  BY DEF PInv, RInv, RegistryTypeOK, Load, At
<1>2. CASE Answers(r, "not_found") \/ (DOMAIN req[r].sent = {} /\ Answers(r, "updated"))
  BY <1>1, <1>2, AnswerKept DEF CompanyAnswers
<1>3. CASE \E pc \in {"checking", "writing"} :
             req' = [req EXCEPT ![r].loaded = columns[Target(r)], ![r].pc = pc]
  <2>1. PICK pc \in {"checking", "writing"} :
               req' = [req EXCEPT ![r].loaded = columns[Target(r)], ![r].pc = pc]
    BY <1>3
  <2>2. /\ \A s \in Requests \ {r} : req'[s] = req[s]
        /\ req'[r].pc = pc /\ req'[r].target = req[r].target /\ req'[r].sent = req[r].sent
        /\ req'[r].loaded = columns[Target(r)]
    BY <1>1, <2>1 DEF Request
  <2>3. Moved(r) /\ ~Done(r)
    BY <1>1, <2>2 DEF Moved, At, Done
  <2>4. ASSUME r \in Editors PROVE LoadedKept(r)' /\ PatchKept(r)'
    <3>1. Target(r) = req[r].target
      BY <2>4, RegistryAssumption DEF Target
    <3> QED
      BY <1>1, <2>2, <3>1 DEF LoadedKept, PatchKept, At
  <2> QED
    BY <1>1, <2>3, <2>4, OthersKept DEF Attributed
<1> QED
  BY <1>2, <1>3 DEF Load

\* The look-ups of the listing and the statements before the commit.
LEMMA WriteAttributed ==
    ASSUME PInv, NEW r \in Requests,
           \/ CheckNewListing(r) \/ CheckEditedListing(r)
           \/ Insert(r) \/ Update(r) \/ EnterIndexes(r) \/ Delete(r)
    PROVE  Attributed'
<1>1. /\ req[r].pc \in {"checking", "writing", "locked"} /\ ~At(r, "idle") /\ ~Done(r)
      /\ UNCHANGED <<companies, columns>>
  BY DEF CheckNewListing, CheckEditedListing, Insert, Update, EnterIndexes, Delete, At, Done
<1>2. CASE Answers(r, "conflict") \/ Answers(r, "server_error")
  BY <1>1, <1>2, AnswerKept DEF CompanyAnswers
<1>3. CASE (\E pc \in {"writing", "locked", "written"} : Goes(r, pc)) /\ r \in Editors
  BY <1>1, <1>3, CopyKept
<1>4. CASE r \in Creators /\ Goes(r, "written")
  BY <1>1, <1>4, CreatorAttributed DEF Asked
<1>5. CASE r \in Creators /\ At(r, "checking") /\ Goes(r, "writing")
  BY <1>1, <1>5, CreatorAttributed
<1>6. CASE r \in Editors /\ At(r, "writing") /\ Changed(req[r].sent, req[r].loaded) = {}
           /\ Goes(r, "refreshing")
  BY <1>1, <1>6, CommitKept
<1>7. r \in Editors \/ r \in Creators
  BY DEF Requests
<1>8. At(r, "locked") => r \in Editors
  BY <1>7 DEF PInv, RInv, CreatorOK, At
<1>9. CASE CheckNewListing(r) \/ CheckEditedListing(r)
  BY <1>2, <1>3, <1>5, <1>9 DEF CheckNewListing, CheckEditedListing
<1>10. CASE Insert(r)
  BY <1>2, <1>4, <1>10 DEF Insert
<1>11. CASE Update(r)
  BY <1>2, <1>3, <1>6, <1>11 DEF Update
<1>12. CASE EnterIndexes(r)
  BY <1>2, <1>3, <1>8, <1>12 DEF EnterIndexes
<1>13. CASE Delete(r)
  BY <1>3, <1>13 DEF Delete
<1> QED
  BY <1>9, <1>10, <1>11, <1>12, <1>13

\* A commit, of whichever operation, attributes every column it changes.
LEMMA CommitAttributed ==
    ASSUME PInv, NEW r \in Requests, At(r, "written"), Applied(r), Commit(r) \/ Fault(r)
    PROVE  Attributed'
<1>1. ~At(r, "idle") /\ ~Done(r)
  BY DEF At, Done
<1>2. CASE Answers(r, "deleted") \/ Answers(r, "server_error")
  BY <1>1, <1>2, AnswerKept DEF CompanyAnswers
<1>3. CASE Goes(r, "refreshing") /\ req[r].op # "delete" /\ r \in Editors
  <2>1. req[r].op = "update"
    BY <1>1, <1>3 DEF PInv, RInv, EditorOK
  <2> QED
    BY <1>3, <2>1, CommitKept
<1>4. CASE Goes(r, "refreshing") /\ r \in Creators
  BY <1>1, <1>4, CreatorAttributed DEF Asked
<1> QED
  BY <1>2, <1>3, <1>4 DEF Commit, Fault, Requests

\* What holds after the commit holds when the request answers.
LEMMA RefreshAttributed ==
    ASSUME PInv, NEW r \in Requests, Refresh(r)
    PROVE  Attributed'
<1>1. /\ At(r, "refreshing") /\ ~At(r, "idle") /\ UNCHANGED <<companies, columns>>
      /\ \E answer \in CompanyAnswers : Answers(r, answer)
  BY DEF Refresh, At, CompanyAnswers
<1>2. CASE r \in Creators
  BY <1>1, <1>2, AnswerKept
<1>3. CASE r \in Editors
  <2>1. PICK answer \in CompanyAnswers : Answers(r, answer)
    BY <1>1
  <2>2. /\ \A s \in Requests \ {r} : req'[s] = req[s]
        /\ req'[r].pc = "finished" /\ req'[r].target = req[r].target
        /\ req'[r].sent = req[r].sent
    BY <2>1, Answering DEF PInv
  <2>3. Moved(r) /\ Done(r)'
    BY <1>1, <2>2 DEF Moved, At, Done
  <2>4. LoadedKept(r)'
    BY <2>2 DEF LoadedKept
  <2> PICK t : t = req[r].target
    OBVIOUS
  <2>5. PatchKept(r)'
    <3>1. ASSUME NEW f \in DOMAIN req[r].sent
          PROVE  Done(t)' /\ (t \in companies => \E v : v = columns[t][f] /\ SentBy(t, f, v)')
      <4>1. Done(t) /\ t \in Creators
        BY <1>1, <1>3, <3>1 DEF PInv, PatchKept, RInv, EditorOK, At
      <4>2. Done(t)'
        BY <4>1, <2>2, <2>3 DEF Done, Requests
      <4>3. PICK v : v = columns[t][f]
        OBVIOUS
      <4>4. t \in companies => SentBy(t, f, v)
        BY <1>1, <1>3, <3>1, <4>3 DEF PInv, PatchKept
      <4>5. t \in companies => SentBy(t, f, v)'
        BY <4>4, <2>3, SentStays DEF PInv
      <4> QED
        BY <4>2, <4>3, <4>5
    <3> QED
      BY <1>1, <2>2, <3>1 DEF PatchKept
  <2> QED
    BY <1>1, <1>3, <2>3, <2>4, <2>5, OthersKept DEF Attributed
<1> QED
  BY <1>2, <1>3 DEF Requests

\* The attribution of columns is inductive, beside RInv.
LEMMA AttributionInductive == PInv /\ [Next]_vars => PInv'
<1> SUFFICES ASSUME PInv, [Next]_vars PROVE Attributed'
  BY RegistryInductive DEF PInv, Attributed
<1>1. req \in [Requests -> Request]
  BY DEF PInv, RInv, RegistryTypeOK
<1>2. ASSUME NEW r \in Creators, NEW tenant \in Tenants, NEW p \in Payloads, AskCreate(r, tenant, p)
      PROVE  Attributed'
  <2>1. r \in Requests /\ req[r] \in Request
    BY <1>1 DEF Requests
  <2> DEFINE x == [req[r] EXCEPT !.pc = "checking", !.tenant = tenant, !.sent = p]
  <2>2. req' = [req EXCEPT ![r] = x]
    BY <1>1, <1>2, <2>1 DEF AskCreate
  <2>3. x \in Request /\ x.pc = "checking"
    BY <2>1, SentFacts DEF Request, Asked
  <2> HIDE DEF x
  <2> QED
    BY <1>2, <2>1, <2>2, <2>3, AskAttributed DEF AskCreate
<1>3. ASSUME NEW r \in Editors, NEW tenant \in Organizations, NEW target \in Creators,
             NEW op \in {"update", "delete"}, NEW p \in Patches \cup {Nothing},
             AskEdit(r, op, tenant, target, p)
      PROVE  Attributed'
  <2>1. r \in Requests /\ req[r] \in Request /\ tenant \in Tenants
    BY <1>1, RegistryAssumption DEF Requests
  <2> DEFINE x == [req[r] EXCEPT !.pc = "loading", !.op = op, !.tenant = tenant,
                                 !.target = target, !.sent = p]
  <2>2. req' = [req EXCEPT ![r] = x]
    BY <1>1, <1>3, <2>1 DEF AskEdit
  <2>3. x \in Request /\ x.pc = "loading"
    BY <2>1, SentFacts DEF Request, Asked
  <2> HIDE DEF x
  <2> QED
    BY <1>3, <2>1, <2>2, <2>3, AskAttributed DEF AskEdit
<1>4. ASSUME NEW r \in Requests, Step(r) PROVE Attributed'
  <2>1. CASE Commit(r)
    BY <2>1, CommitAttributed DEF Commit
  <2> QED
    BY <1>4, <2>1, LoadAttributed, WriteAttributed, RefreshAttributed DEF Step
<1>5. ASSUME NEW r \in Requests, Fault(r) PROVE Attributed'
  <2>1. CASE req[r].pc \in Asked /\ Answers(r, "server_error") /\ UNCHANGED <<companies, columns>>
    BY <2>1, AnswerKept DEF Asked, At, CompanyAnswers
  <2> QED
    BY <1>5, <2>1, CommitAttributed DEF Fault
<1>6. CASE UNCHANGED vars
  BY <1>6 DEF vars, PInv, Attributed, LoadedKept, PatchKept, SentBy, Done, At
<1> QED
  BY <1>2, <1>3, <1>4, <1>5, <1>6 DEF Next, AllAnswered

\* A PATCH loads a row and writes it later, and PATCHes of other columns commit
\* in between: what it sent is still in its columns, or what a later one sent.
THEOREM PatchesAreKept == Spec => []PatchesKept
<1>1. Init => PInv
  <2>1. Init => Attributed
    BY DEF Init, Idle, Requests, Attributed, LoadedKept, PatchKept, At
  <2> QED
    BY <2>1, RegistryInitial DEF PInv, Attributed
<1>2. PInv => PatchesKept
  BY DEF PInv, PatchKept, SentBy, PatchesKept
<1> QED
  BY <1>1, <1>2, AttributionInductive, PTL DEF Spec

===============================================================================
