------------------------ MODULE ModelVersionsProofs ------------------------
(***************************************************************************)
(* Theorems about ModelVersions.  MInv is inductive: the histories are     *)
(* dense, and the version a pending INSERT holds is at most one above      *)
(* MAX(version) of its lineage.  The second part is what makes the first   *)
(* one survive the races: MAX(version) only grows, so a version that is    *)
(* still free when the row is written must be the next one.                *)
(***************************************************************************)
EXTENDS ModelVersions, VersionedRowsProofs

\* What a request holds between its snapshot and its INSERT, and after it.
PendingModel(q) ==
  /\ q.stage = "insert" =>
       /\ 1 <= q.next
       /\ IF q.key = NoModel THEN q.next = 1
                             ELSE q.next <= Latest(model_versions, q.key) + 1
  /\ q.stage \in {"inserted", "ok", "lost"} =>
       /\ q.key \in ModelIDs
       /\ q.next \in Nat \ {0}
       /\ HasModel(q.key, q.next)
       /\ RowAt(model_versions, q.key, q.next).status = q.status

MInv ==
  /\ MTypeOK
  /\ \A k \in ModelIDs : Latest(model_versions, k) \in Nat
  /\ ModelHistoriesDense
  /\ \A r \in AdminRequests : PendingModel(mreq[r])

\* Nothing is stored and no request has started.
LEMMA MInitInv == ASSUME ModelAssumption, MInit PROVE MInv
<1> USE DEF MInit
<1>1. MTypeOK
  BY DEF ModelAssumption, MTypeOK, AdminStates, AdminStages
<1>2. \A k \in ModelIDs : Latest(model_versions, k) \in Nat /\ DenseKey(model_versions, k)
  BY EmptyTable
<1>3. UniqueRows(model_versions)
  BY DEF UniqueRows
<1>4. \A r \in AdminRequests : PendingModel(mreq[r])
  BY DEF PendingModel
<1> QED
  BY <1>1, <1>2, <1>3, <1>4 DEF MInv, ModelHistoriesDense

\* A step that leaves the table alone and moves one request to a state that is
\* typed and pending correctly.
LEMMA MRequestMoves ==
  ASSUME MInv, UNCHANGED <<model_versions, clock>>,
         NEW r \in AdminRequests, NEW q \in AdminStates, PendingModel(q),
         mreq' = [mreq EXCEPT ![r] = q]
  PROVE  MInv'
<1>1. MTypeOK'
  BY DEF MInv, MTypeOK
<1>2. \A s \in AdminRequests : mreq'[s] = mreq[s] \/ mreq'[s] = q
  BY DEF MInv, MTypeOK
<1>3. \A s \in AdminRequests : PendingModel(mreq'[s])
  BY <1>2 DEF MInv
<1>4. \A s \in AdminRequests : PendingModel(mreq[s])'
  BY <1>3 DEF PendingModel, HasModel
<1> QED
  BY <1>1, <1>4 DEF MInv, ModelHistoriesDense

\* Every step keeps the invariant.
LEMMA MNextInv == ASSUME ModelAssumption, MInv, [MNext]_mvars PROVE MInv'
<1> USE DEF HasModel, ModelVersionFree
<1>0. ASSUME NEW r \in AdminRequests PROVE mreq[r] \in AdminStates
  BY DEF MInv, MTypeOK
<1>1. CASE UNCHANGED mvars
  BY <1>1 DEF MInv, MTypeOK, ModelHistoriesDense, PendingModel, mvars
<1>2. CASE Tick
  <2>1. MTypeOK'
    BY <1>2 DEF Tick, MInv, MTypeOK
  <2> QED
    BY <1>2, <2>1 DEF Tick, MInv, ModelHistoriesDense, PendingModel
<1>3. ASSUME NEW r \in AdminRequests, ModelRequest(r) PROVE MInv'
  <2> DEFINE p == mreq[r]
  <2>0. p \in AdminStates /\ PendingModel(p)
    BY <1>0 DEF MInv
  <2>1. CASE CreateModel(r)
    <3>1. PICK k \in ModelIDs \cup {NoModel}, s \in ModelStatuses \cup {""} :
            mreq' = [mreq EXCEPT ![r].stage = "create", ![r].key = k,
                                 ![r].status = OrDraft(s)]
      BY <2>1 DEF CreateModel
    <3> DEFINE q == [p EXCEPT !.stage = "create", !.key = k, !.status = OrDraft(s)]
    <3>2. q \in AdminStates
      BY <2>0 DEF AdminStates, AdminStages, OrDraft, ModelAssumption
    <3>3. PendingModel(q)
      BY <2>0 DEF PendingModel, AdminStates
    <3>4. mreq' = [mreq EXCEPT ![r] = q]
      BY <3>1
    <3> QED
      BY <2>1, <3>2, <3>3, <3>4, MRequestMoves DEF CreateModel
  <2>2. CASE SetModelStatus(r)
    <3>1. PICK m \in model_versions, s \in ModelStatuses \cup {""} :
            mreq' = [mreq EXCEPT ![r].stage = "create", ![r].key = m.key,
                                 ![r].status = OrDraft(s)]
      BY <2>2 DEF SetModelStatus
    <3> DEFINE q == [p EXCEPT !.stage = "create", !.key = m.key, !.status = OrDraft(s)]
    <3>2. q \in AdminStates
      BY <2>0 DEF AdminStates, AdminStages, OrDraft, ModelAssumption, MInv, MTypeOK, ModelRows
    <3>3. PendingModel(q)
      BY <2>0 DEF PendingModel, AdminStates
    <3>4. mreq' = [mreq EXCEPT ![r] = q]
      BY <3>1
    <3> QED
      BY <2>2, <3>2, <3>3, <3>4, MRequestMoves DEF SetModelStatus
  <2>3. CASE SetModelStatusNotFound(r)
    <3> DEFINE q == [p EXCEPT !.stage = "failed"]
    <3>1. q \in AdminStates /\ PendingModel(q) /\ mreq' = [mreq EXCEPT ![r] = q]
      BY <2>0, <2>3 DEF SetModelStatusNotFound, AdminStates, AdminStages, PendingModel
    <3> QED
      BY <2>3, <3>1, MRequestMoves DEF SetModelStatusNotFound
  <2>4. CASE StartInsert(r)
    <3> DEFINE q == [p EXCEPT !.stage = "started", !.created_at = clock]
    <3>1. q \in AdminStates
      BY <2>0 DEF AdminStates, AdminStages, MInv, MTypeOK
    <3>2. PendingModel(q) /\ mreq' = [mreq EXCEPT ![r] = q]
      BY <2>0, <2>4 DEF StartInsert, AdminStates, PendingModel
    <3> QED
      BY <2>4, <3>1, <3>2, MRequestMoves DEF StartInsert
  <2>5. CASE NextModelVersion(r)
    <3> DEFINE n == IF p.key = NoModel THEN 1 ELSE Latest(model_versions, p.key) + 1
               q == [p EXCEPT !.stage = "insert", !.next = n]
    <3>1. n \in Nat /\ 1 <= n
      BY <2>0 DEF AdminStates, MInv
    <3>2. q \in AdminStates
      BY <2>0, <3>1 DEF AdminStates, AdminStages
    <3>3. q.stage = "insert" /\ q.next = n /\ q.key = p.key
      BY <2>0 DEF AdminStates
    <3>4. n <= n
      BY <3>1
    <3>5. PendingModel(q)
      BY <3>1, <3>3, <3>4 DEF PendingModel
    <3>6. mreq' = [mreq EXCEPT ![r] = q]
      BY <2>5 DEF NextModelVersion
    <3> QED
      BY <2>5, <3>2, <3>5, <3>6, MRequestMoves DEF NextModelVersion
  <2>6. CASE InsertModel(r)
    <3>1. PICK k \in ModelKeys(p) :
            /\ ModelVersionFree(k, p.next)
            /\ model_versions' = model_versions \cup
                 {[key |-> k, version |-> p.next, status |-> p.status,
                   created_at |-> p.created_at]}
            /\ mreq' = [mreq EXCEPT ![r].stage = "inserted", ![r].key = k]
      BY <2>6 DEF InsertModel
    <3> DEFINE x == [key |-> k, version |-> p.next, status |-> p.status,
                     created_at |-> p.created_at]
               q == [p EXCEPT !.stage = "inserted", !.key = k]
    <3>2. p.stage = "insert" /\ p.next \in Nat /\ 1 <= p.next
      BY <2>0, <2>6 DEF InsertModel, PendingModel, AdminStates
    <3>3. k \in ModelIDs /\ p.next <= Latest(model_versions, k) + 1
      BY <2>0, <3>2 DEF ModelKeys, PendingModel, AdminStates, MInv
    <3>a. q \in AdminStates
      BY <2>0, <3>3 DEF AdminStates, AdminStages
    <3>4. x.key = k /\ x.version = p.next /\ x \in ModelRows
      BY <2>0, <3>2, <3>3 DEF AdminStates, ModelRows
    <3>b. model_versions' = model_versions \cup {x}
      BY <3>1
    <3>c. mreq' = [mreq EXCEPT ![r] = q]
      BY <3>1
    <3>5. /\ Latest(model_versions', k) = Latest(model_versions, k) + 1
          /\ DenseKey(model_versions', k)
      BY <3>1, <3>2, <3>3, <3>4, InsertNext DEF MInv, ModelHistoriesDense
    <3>6. \A j \in ModelIDs \ {k} :
            /\ Latest(model_versions', j) = Latest(model_versions, j)
            /\ DenseKey(model_versions', j)
      BY <3>1, <3>4, InsertElsewhere DEF MInv, ModelHistoriesDense
    <3>7. UniqueRows(model_versions')
      BY <3>1, <3>4, InsertUnique DEF MInv, ModelHistoriesDense
    <3>8. \A j \in ModelIDs : /\ Latest(model_versions', j) \in Nat
                              /\ Latest(model_versions, j) <= Latest(model_versions', j)
                              /\ DenseKey(model_versions', j)
      BY <3>3, <3>5, <3>6 DEF MInv
    <3>9. MTypeOK'
      BY <2>6, <3>a, <3>b, <3>c, <3>4 DEF InsertModel, MInv, MTypeOK
    <3>10. /\ Occupied(model_versions', k, p.next)
           /\ RowAt(model_versions', k, p.next) = x
      BY <3>b, <3>4, <3>7, RowAtInserted
    <3>11. ASSUME NEW j, NEW v, Occupied(model_versions, j, v)
           PROVE  /\ Occupied(model_versions', j, v)
                  /\ RowAt(model_versions', j, v) = RowAt(model_versions, j, v)
      <4>1. model_versions \subseteq model_versions'
        BY <3>b
      <4> QED
        BY <4>1, <3>7, <3>11, RowAtKept
    <3>12. ASSUME NEW s \in AdminRequests PROVE PendingModel(mreq[s])'
      <4>1. CASE s = r
        <5>1. mreq'[s] = q
          BY <3>c, <4>1 DEF MInv, MTypeOK
        <5>2. /\ q.stage = "inserted" /\ q.key = k /\ q.next = p.next
              /\ q.status = p.status
          BY <2>0 DEF AdminStates
        <5> QED
          BY <3>2, <3>3, <3>10, <5>1, <5>2 DEF PendingModel
      <4>2. CASE s # r
        <5>1. mreq'[s] = mreq[s] /\ mreq[s] \in AdminStates /\ PendingModel(mreq[s])
          BY <1>0, <3>c, <4>2 DEF MInv, MTypeOK
        <5>2. mreq[s].stage = "insert" /\ mreq[s].key # NoModel =>
                mreq[s].next <= Latest(model_versions', mreq[s].key) + 1
          BY <3>8, <5>1 DEF PendingModel, AdminStates, MInv
        <5> QED
          BY <3>11, <5>1, <5>2 DEF PendingModel
      <4> QED
        BY <4>1, <4>2
    <3> QED
      BY <3>7, <3>8, <3>9, <3>12 DEF MInv, ModelHistoriesDense
  <2>7. CASE InsertModelRefused(r)
    <3> DEFINE q == [p EXCEPT !.stage = "failed"]
    <3>1. q \in AdminStates /\ PendingModel(q) /\ mreq' = [mreq EXCEPT ![r] = q]
      BY <2>0, <2>7 DEF InsertModelRefused, AdminStates, AdminStages, PendingModel
    <3> QED
      BY <2>7, <3>1, MRequestMoves DEF InsertModelRefused
  <2>8. CASE RespondModel(r)
    <3> DEFINE q == [p EXCEPT !.stage = "ok"]
    <3>1. q \in AdminStates /\ PendingModel(q) /\ mreq' = [mreq EXCEPT ![r] = q]
      BY <2>0, <2>8 DEF RespondModel, AdminStates, AdminStages, PendingModel
    <3> QED
      BY <2>8, <3>1, MRequestMoves DEF RespondModel
  <2>9. CASE AbandonModel(r)
    <3>1. PICK st \in {"gone", "lost"} :
            /\ mreq' = [mreq EXCEPT ![r].stage = st]
            /\ st = "lost" => p.stage = "inserted"
      BY <2>9 DEF AbandonModel
    <3> DEFINE q == [p EXCEPT !.stage = st]
    <3>2. q \in AdminStates /\ PendingModel(q) /\ mreq' = [mreq EXCEPT ![r] = q]
      BY <2>0, <3>1 DEF AdminStates, AdminStages, PendingModel
    <3> QED
      BY <2>9, <3>2, MRequestMoves DEF AbandonModel
  <2> QED
    BY <1>3, <2>1, <2>2, <2>3, <2>4, <2>5, <2>6, <2>7, <2>8, <2>9
       DEF ModelRequest, ModelStep
<1> QED
  BY <1>1, <1>2, <1>3 DEF MNext

\* The rows of model_versions are only ever added to, and what a stored version
\* says does not change.
LEMMA ModelRowsKept ==
  ASSUME ModelAssumption, MInv, [MNext]_mvars, NEW k, NEW v, HasModel(k, v)
  PROVE  /\ HasModel(k, v)'
         /\ RowAt(model_versions', k, v) = RowAt(model_versions, k, v)
<1>1. UniqueRows(model_versions')
  BY MNextInv DEF MInv, ModelHistoriesDense
<1>2. model_versions \subseteq model_versions'
  BY ZenonT(60) DEF MNext, Tick, ModelRequest, ModelStep, CreateModel, SetModelStatus,
     SetModelStatusNotFound, StartInsert, NextModelVersion, InsertModel,
     InsertModelRefused, RespondModel, AbandonModel, mvars
<1> QED
  BY <1>1, <1>2, RowAtKept DEF HasModel

\* A step leaves the table alone or adds one row to it.
LEMMA ModelTableStep ==
  ASSUME MInv, [MNext]_mvars
  PROVE  \/ UNCHANGED model_versions
         \/ \E x \in ModelRows : model_versions' = model_versions \cup {x}
<1>1. ASSUME NEW r \in AdminRequests, InsertModel(r)
      PROVE  \E x \in ModelRows : model_versions' = model_versions \cup {x}
  <2> DEFINE p == mreq[r]
  <2>1. PICK k \in ModelKeys(p) :
          model_versions' = model_versions \cup
            {[key |-> k, version |-> p.next, status |-> p.status,
              created_at |-> p.created_at]}
    BY <1>1 DEF InsertModel
  <2>2. p \in AdminStates /\ 1 <= p.next
    BY <1>1 DEF InsertModel, MInv, MTypeOK, PendingModel
  <2>3. k \in ModelIDs
    BY <2>2 DEF ModelKeys, AdminStates
  <2>4. p.next \in Nat \ {0} /\ p.status \in ModelStatuses /\ p.created_at \in Nat
    BY <2>2 DEF AdminStates
  <2> DEFINE x == [key |-> k, version |-> p.next, status |-> p.status,
                   created_at |-> p.created_at]
  <2>5. x \in ModelRows
    BY <2>3, <2>4 DEF ModelRows
  <2> QED
    BY <2>1, <2>5
<1> QED
  BY <1>1, ZenonT(60) DEF MNext, Tick, ModelRequest, ModelStep, CreateModel, SetModelStatus,
     SetModelStatusNotFound, StartInsert, NextModelVersion,
     InsertModelRefused, RespondModel, AbandonModel, mvars

\* For every number of lineages, requests and clock values.
THEOREM ModelInvariant == MSpec => []MInv
<1>1. MInit => MInv
  BY MInitInv, ModelAssumption
<1>2. MInv /\ [MNext]_mvars => MInv'
  BY MNextInv, ModelAssumption
<1> QED
  BY <1>1, <1>2, PTL DEF MSpec

\* The state of the table and of the handlers is always of the declared type.
THEOREM ModelTypes == MSpec => []MTypeOK
<1>1. MInv => MTypeOK
  BY DEF MInv
<1> QED
  BY <1>1, ModelInvariant, PTL

\* Whatever the races of Create and SetStatus, the versions of a lineage are
\* 1..n, each stored once.
THEOREM ModelDensity == MSpec => []ModelHistoriesDense
<1>1. MInv => ModelHistoriesDense
  BY DEF MInv
<1> QED
  BY <1>1, ModelInvariant, PTL

----------------------------------------------------------------------------
(* The table implements the abstract log.                                  *)

\* The log of a lineage is a function over its stored versions 1..MAX(version).
LEMMA ModelEntriesTyped ==
  ASSUME MInv, NEW k \in ModelIDs
  PROVE  /\ Latest(model_versions, k) \in Nat
         /\ ModelEntries(k) \in [1 .. Latest(model_versions, k) -> ModelStatuses]
         /\ \A v \in 1 .. Latest(model_versions, k) : Occupied(model_versions, k, v)
<1>1. Latest(model_versions, k) \in Nat /\ DenseKey(model_versions, k)
  BY DEF MInv, ModelHistoriesDense
<1>2. \A v \in 1 .. Latest(model_versions, k) : Occupied(model_versions, k, v)
  BY <1>1 DEF DenseKey, Occupied
<1>3. ASSUME NEW v \in 1 .. Latest(model_versions, k)
      PROVE  RowAt(model_versions, k, v).status \in ModelStatuses
  BY <1>2, RowAtStored DEF MInv, MTypeOK, ModelRows
<1> QED
  BY <1>1, <1>2, <1>3 DEF ModelEntries

\* A step of one request changes its phase and its place only.
LEMMA ModelFrame ==
  ASSUME NEW r \in AdminRequests, \A s \in AdminRequests \ {r} : mreq'[s] = mreq[s]
  PROVE  /\ ModelPhases' = [ModelPhases EXCEPT ![r] = ModelPhase(mreq'[r])]
         /\ ModelPhases'[r] = ModelPhase(mreq'[r])
         /\ ModelPlaces' = [ModelPlaces EXCEPT ![r] = ModelAppended(mreq'[r])]
<1>1. /\ ModelPhases' = [s \in AdminRequests |-> ModelPhase(mreq'[s])]
      /\ ModelPlaces' = [s \in AdminRequests |-> ModelAppended(mreq'[s])]
  BY DEF ModelPhases, ModelPlaces, ModelPhase, ModelAppended
<1>2. \A s \in AdminRequests \ {r} :
        /\ ModelPhase(mreq'[s]) = ModelPhase(mreq[s])
        /\ ModelAppended(mreq'[s]) = ModelAppended(mreq[s])
  OBVIOUS
<1> QED
  BY <1>1, <1>2 DEF ModelPhases, ModelPlaces

\* The row that InsertModel commits is the next entry of its lineage.
LEMMA ModelInsertAppends ==
  ASSUME ModelAssumption, MInv, NEW r \in AdminRequests, InsertModel(r)
  PROVE  \E k \in ModelIDs :
           /\ ModelLog!Appends(k)
           /\ ModelPlaces' = [ModelPlaces EXCEPT ![r] = <<k, Len(ModelLogs[k]) + 1>>]
<1> DEFINE p == mreq[r]
<1>0. p \in AdminStates /\ PendingModel(p) /\ p.stage = "insert"
  BY DEF MInv, MTypeOK, InsertModel
<1>1. PICK k \in ModelKeys(p) :
        /\ ModelVersionFree(k, p.next)
        /\ model_versions' = model_versions \cup
             {[key |-> k, version |-> p.next, status |-> p.status,
               created_at |-> p.created_at]}
        /\ mreq' = [mreq EXCEPT ![r].stage = "inserted", ![r].key = k]
  BY DEF InsertModel
<1> DEFINE x == [key |-> k, version |-> p.next, status |-> p.status,
                 created_at |-> p.created_at]
           n == Latest(model_versions, k)
<1>2. k \in ModelIDs
  BY <1>0 DEF ModelKeys, AdminStates
<1>3. n \in Nat /\ DenseKey(model_versions, k)
  BY <1>2 DEF MInv, ModelHistoriesDense
<1>4. 1 <= p.next /\ p.next \in Nat /\ p.next <= n + 1
  <2>1. CASE p.key = NoModel
    <3>1. Versions(model_versions, k) = {}
      BY <2>1 DEF ModelKeys, FreshModel
    <3>2. n = 0
      BY <3>1, LatestOfDense
    <3> QED
      BY <1>0, <2>1, <3>2 DEF PendingModel
  <2>2. CASE p.key # NoModel
    <3>1. k = p.key
      BY <2>2 DEF ModelKeys
    <3> QED
      BY <1>0, <2>2, <3>1 DEF PendingModel, AdminStates
  <2> QED
    BY <2>1, <2>2
<1>5. x.key = k /\ x.version = p.next /\ x.status = p.status
  OBVIOUS
<1>6. model_versions' = model_versions \cup {x}
  BY <1>1
<1>7. ~ Occupied(model_versions, k, p.next)
  BY <1>1 DEF ModelVersionFree, HasModel
<1> HIDE DEF x
<1>8. p.next = n + 1 /\ Latest(model_versions', k) = n + 1
  BY <1>3, <1>4, <1>5, <1>6, <1>7, InsertNext
<1>9. MInv' /\ UniqueRows(model_versions')
  <2>1. MNext
    BY DEF MNext, ModelRequest, ModelStep
  <2>2. MInv'
    BY <2>1, MNextInv
  <2> QED
    BY <2>2 DEF MInv, ModelHistoriesDense
<1>10. ASSUME NEW j \in ModelIDs, NEW v \in 1 .. Latest(model_versions, j)
       PROVE  RowAt(model_versions', j, v) = RowAt(model_versions, j, v)
  BY <1>6, <1>9, RowAtKept, ModelEntriesTyped
<1>11. ASSUME NEW j \in ModelIDs, j # k PROVE ModelEntries(j)' = ModelEntries(j)
  <2>1. Latest(model_versions', j) = Latest(model_versions, j)
    BY <1>5, <1>6, <1>11, InsertElsewhere
  <2> QED
    BY <1>10, <2>1 DEF ModelEntries
<1> DEFINE f == ModelEntries(k)
           g == ModelEntries(k)'
<1>12. f \in [1 .. n -> ModelStatuses]
  BY <1>2, ModelEntriesTyped
<1>13. g \in [1 .. (n + 1) -> ModelStatuses]
  <2>1. \A v \in 1 .. Latest(model_versions', k) : Occupied(model_versions', k, v)
    BY <1>2, <1>9 DEF MInv, ModelHistoriesDense, DenseKey, Occupied
  <2>2. ASSUME NEW v \in 1 .. (n + 1) PROVE RowAt(model_versions', k, v).status \in ModelStatuses
    BY <1>8, <1>9, <2>1, RowAtStored DEF MInv, MTypeOK, ModelRows
  <2> QED
    BY <1>8, <2>2 DEF ModelEntries
<1>14. \A v \in 1 .. n : g[v] = f[v]
  BY <1>2, <1>3, <1>8, <1>10 DEF ModelEntries
<1> HIDE DEF f, g, n
<1>15. Len(f) = n /\ Len(g) = Len(f) + 1 /\ g[Len(f) + 1] \in ModelStatuses
       /\ g = Append(f, g[Len(f) + 1])
  BY <1>3, <1>12, <1>13, <1>14, LogAppend, LogTyped
<1>16. ModelLogs[k] = f /\ ModelLogs'[k] = g
  BY <1>2 DEF ModelLogs, f, g
<1>17. ModelLogs' = [ModelLogs EXCEPT ![k] = g]
  BY <1>2, <1>11 DEF ModelLogs, g
<1>18. ModelLog!Appends(k)
  BY <1>15, <1>16, <1>17 DEF ModelLog!Appends
<1>19. /\ \A s \in AdminRequests \ {r} : mreq'[s] = mreq[s]
       /\ mreq'[r].stage = "inserted" /\ mreq'[r].key = k /\ mreq'[r].next = p.next
  BY <1>0, <1>1 DEF MInv, MTypeOK, AdminStates
<1>20. ModelPlaces' = [ModelPlaces EXCEPT ![r] = <<k, Len(ModelLogs[k]) + 1>>]
  <2>1. ModelAppended(mreq'[r]) = <<k, n + 1>>
    BY <1>8, <1>19 DEF ModelAppended, n
  <2> QED
    BY <1>15, <1>16, <1>19, <2>1, ModelFrame
<1> QED
  BY <1>2, <1>18, <1>20

\* How a request moves when it does not write.
ModelMoves(p, q) ==
  \/ p.stage = "new" /\ q.stage \in {"create", "failed"}
  \/ /\ p.stage \in {"create", "started", "insert"}
     /\ q.stage \in {"started", "insert", "failed", "gone"}
  \/ /\ p.stage = "inserted" /\ q.stage \in {"ok", "lost"}
     /\ q.key = p.key /\ q.next = p.next

\* Such a move opens, answers, fails or loses the request, or is no step of the log.
LEMMA ModelMoveRefines ==
  ASSUME NEW r \in AdminRequests, UNCHANGED model_versions,
         \A s \in AdminRequests \ {r} : mreq'[s] = mreq[s],
         ModelMoves(mreq[r], mreq'[r])
  PROVE  [ModelLog!Next]_(ModelLog!vars)
<1> DEFINE p == mreq[r]
           q == mreq'[r]
<1>1. ModelAppended(q) = ModelAppended(p)
  BY DEF ModelMoves, ModelAppended
<1>2. ModelPlaces[r] = ModelAppended(p) /\ ModelPhases[r] = ModelPhase(p)
  BY DEF ModelPlaces, ModelPhases
<1>3. /\ ModelLogs' = ModelLogs
      /\ ModelPhases' = [ModelPhases EXCEPT ![r] = ModelPhase(q)]
      /\ ModelPhases'[r] = ModelPhase(q)
      /\ ModelPlaces' = ModelPlaces
  BY <1>1, <1>2, ModelFrame DEF ModelLogs, ModelEntries, ModelPlaces
<1>4. CASE ModelPhase(q) = ModelPhase(p)
  <2>1. ModelPhases' = ModelPhases
    BY <1>2, <1>3, <1>4 DEF ModelPhases
  <2> QED
    BY <1>3, <2>1 DEF ModelLog!vars
<1>5. CASE ModelPhase(p) = "new" /\ ModelPhase(q) = "open"
  BY <1>2, <1>3, <1>5 DEF ModelLog!Next, ModelLog!Open, ModelLog!Moves
<1>6. CASE ModelPhase(p) \in {"new", "open"} /\ ModelPhase(q) = "failed"
  BY <1>2, <1>3, <1>6 DEF ModelLog!Next, ModelLog!Fail, ModelLog!Moves
<1>7. CASE ModelPhase(p) = "applied" /\ ModelPhase(q) = "ok"
  BY <1>2, <1>3, <1>7 DEF ModelLog!Next, ModelLog!Answer, ModelLog!Moves
<1>8. CASE ModelPhase(p) \in {"open", "applied"} /\ ModelPhase(q) = "gone"
  BY <1>2, <1>3, <1>8 DEF ModelLog!Next, ModelLog!GoAway, ModelLog!Moves
<1>9. \/ ModelPhase(q) = ModelPhase(p)
      \/ ModelPhase(p) = "new" /\ ModelPhase(q) = "open"
      \/ ModelPhase(p) \in {"new", "open"} /\ ModelPhase(q) = "failed"
      \/ ModelPhase(p) = "applied" /\ ModelPhase(q) = "ok"
      \/ ModelPhase(p) \in {"open", "applied"} /\ ModelPhase(q) = "gone"
  BY DEF ModelMoves, ModelPhase
<1> QED
  BY <1>4, <1>5, <1>6, <1>7, <1>8, <1>9

\* Every step of the table and its requests is a step of the log or none.
LEMMA ModelStepRefines ==
  ASSUME ModelAssumption, MInv, [MNext]_mvars
  PROVE  [ModelLog!Next]_(ModelLog!vars)
<1>t. mreq \in [AdminRequests -> AdminStates]
  BY DEF MInv, MTypeOK
<1>1. CASE UNCHANGED <<model_versions, mreq>>
  BY <1>1 DEF ModelLog!vars, ModelLogs, ModelPhases, ModelPlaces, ModelEntries
<1>2. ASSUME NEW r \in AdminRequests, ModelRequest(r), ~ InsertModel(r)
      PROVE  [ModelLog!Next]_(ModelLog!vars)
  <2>1. UNCHANGED model_versions /\ \A s \in AdminRequests \ {r} : mreq'[s] = mreq[s]
    BY <1>2, <1>t DEF ModelRequest, ModelStep, CreateModel, SetModelStatus,
       SetModelStatusNotFound, StartInsert, NextModelVersion, InsertModelRefused,
       RespondModel, AbandonModel
  <2>2. ModelMoves(mreq[r], mreq'[r])
    <3>0. mreq[r] \in AdminStates
      BY <1>t
    <3>1. CASE CreateModel(r) \/ SetModelStatus(r)
      <4>1. PICK k, st : mreq' = [mreq EXCEPT ![r].stage = "create", ![r].key = k,
                                            ![r].status = st]
        BY <3>1 DEF CreateModel, SetModelStatus
      <4>2. mreq[r].stage = "new" /\ mreq'[r].stage = "create"
        BY <1>t, <3>0, <3>1, <4>1 DEF CreateModel, SetModelStatus, AdminStates
      <4> QED
        BY <4>2 DEF ModelMoves
    <3>2. CASE ~ (CreateModel(r) \/ SetModelStatus(r))
      BY <1>2, <1>t, <3>0, <3>2 DEF ModelRequest, ModelStep,
         SetModelStatusNotFound, StartInsert, NextModelVersion, InsertModelRefused,
         RespondModel, AbandonModel, AdminStates, ModelMoves
    <3> QED
      BY <3>1, <3>2
  <2> QED
    BY <2>1, <2>2, ModelMoveRefines
<1>3. ASSUME NEW r \in AdminRequests, InsertModel(r)
      PROVE  [ModelLog!Next]_(ModelLog!vars)
  <2>1. /\ mreq[r].stage = "insert" /\ mreq'[r].stage = "inserted"
        /\ \A s \in AdminRequests \ {r} : mreq'[s] = mreq[s]
    BY <1>3, <1>t DEF InsertModel, AdminStates
  <2>2. ModelPhase(mreq[r]) = "open" /\ ModelPhase(mreq'[r]) = "applied"
    BY <2>1 DEF ModelPhase
  <2>3. /\ ModelPhases[r] = "open"
        /\ ModelPhases' = [ModelPhases EXCEPT ![r] = "applied"]
        /\ ModelPhases'[r] = "applied"
    BY <2>1, <2>2, ModelFrame DEF ModelPhases
  <2>4. ModelLog!Apply(r)
    BY <1>3, <2>3, ModelInsertAppends DEF ModelLog!Apply, ModelLog!Moves
  <2> QED
    BY <2>4 DEF ModelLog!Next
<1>4. Tick => UNCHANGED <<model_versions, mreq>>
  BY DEF Tick
<1>5. UNCHANGED mvars => UNCHANGED <<model_versions, mreq>>
  BY DEF mvars
<1> QED
  BY <1>1, <1>2, <1>3, <1>4, <1>5 DEF MNext

\* The empty table is the empty log.
LEMMA ModelInitRefines == ASSUME MInit PROVE ModelLog!Init
<1>1. ASSUME NEW k \in ModelIDs PROVE ModelEntries(k) = <<>>
  <2>1. Latest(model_versions, k) = 0
    BY EmptyTable DEF MInit
  <2> QED
    BY <2>1 DEF ModelEntries
<1>2. \A r \in AdminRequests : mreq[r].stage = "new"
  BY DEF MInit
<1> QED
  BY <1>1, <1>2 DEF ModelLog!Init, ModelLogs, ModelPhases, ModelPlaces, ModelPhase,
     ModelAppended

----------------------------------------------------------------------------
(* For the modules that put more beside the table.                         *)

\* A system whose steps leave the table and its requests alone or take a step of
\* theirs keeps the table a log; no fairness is needed for that.
LEMMA ModelTableKeeps == MInit /\ [][MNext]_mvars => ModelTableIsALog
<1>1. MInit => MInv /\ ModelLog!Init
  BY MInitInv, ModelInitRefines, ModelAssumption
<1>2. MInv /\ [MNext]_mvars => MInv'
  BY MNextInv, ModelAssumption
<1>3. MInv /\ [MNext]_mvars => [ModelLog!Next]_(ModelLog!vars)
  BY ModelStepRefines, ModelAssumption
<1> QED
  BY <1>1, <1>2, <1>3, PTL DEF ModelTableIsALog, ModelLog!Spec

\* The table of model versions, with all its statements, races and lost answers,
\* is an append-only log per lineage to which each request appends at most once.
THEOREM ModelImplementsLog == MSpec => ModelTableIsALog
<1> QED
  BY ModelTableKeeps, PTL DEF MSpec
=============================================================================
