-------------------------- MODULE ContractsProofs --------------------------
(***************************************************************************)
(* Theorems about Contracts.  CInv is inductive: beside the dense          *)
(* histories it says, of every request, what the statements it has already *)
(* run leave true although other requests have written since - the version *)
(* it read is still stored, MAX(version) has not gone below what it        *)
(* compared or computed, its resolved pin still names an enabled model.    *)
(***************************************************************************)
EXTENDS Contracts, ModelVersionsProofs

\* The row SetStatus read is still there, with the body and pin it copied.
BaseKept(q) ==
  q.base # 0 =>
    /\ q.key \in ContractIDs
    /\ Occupied(contracts, q.key, q.base)
    /\ RowAt(contracts, q.key, q.base).body = q.body
    /\ RowAt(contracts, q.key, q.base).pin = q.pin

\* A request past the resolve step has a pin; one that Put resolved is enabled.
PinKept(q) ==
  /\ q.stage \in {"check", "next", "insert"} \cup Written => q.pin \in Pins
  /\ q.given = NoPin /\ q.pin # NoPin =>
       /\ q.pin \in Pins
       /\ HasModel(q.pin[1], q.pin[2])
       /\ RowAt(model_versions, q.pin[1], q.pin[2]).status = "enabled"

\* Only SetStatus sends an expected version; once compared, it lies between the
\* version that was read and MAX(version).
ExpectedKept(q) ==
  q.expected # NoVersion =>
    /\ q.key \in ContractIDs
    /\ q.stage \in {"next", "insert"} \cup Written =>
         q.base <= q.expected /\ q.expected <= Latest(contracts, q.key)

\* The version of a pending INSERT is above the one read and the one expected,
\* and at most one above MAX(version).
NextKept(q) ==
  q.stage = "insert" =>
    /\ 1 <= q.next /\ q.base < q.next
    /\ q.expected # NoVersion => q.expected < q.next
    /\ IF q.key = NoContract THEN q.next = 1
                             ELSE q.next <= Latest(contracts, q.key) + 1

\* The row of a request that has written is stored as it was sent.
RowKept(q) ==
  q.stage \in Written =>
    /\ q.key \in ContractIDs
    /\ q.next \in Nat \ {0} /\ q.base < q.next
    /\ q.expected # NoVersion => q.expected < q.next
    /\ Occupied(contracts, q.key, q.next)
    /\ RowAt(contracts, q.key, q.next).status = q.status
    /\ RowAt(contracts, q.key, q.next).body = q.body
    /\ RowAt(contracts, q.key, q.next).pin = q.pin

\* A request that has not started has read and expects nothing.
NewKept(q) == q.stage = "new" => q.base = 0 /\ q.expected = NoVersion

\* Only Create calls Put without a pin.
ResolveKept(q) == q.stage = "resolve" => q.base = 0

Kept(q) == NewKept(q) /\ ResolveKept(q) /\ BaseKept(q) /\ PinKept(q) /\ ExpectedKept(q)
             /\ NextKept(q) /\ RowKept(q)

CInv ==
  /\ MInv
  /\ TypeOK
  /\ \A k \in ContractIDs : Latest(contracts, k) \in Nat
  /\ ContractHistoriesDense
  /\ \A c \in contracts : HasModel(c.pin[1], c.pin[2])
  /\ \A r \in Requests : Kept(creq[r])

\* Nothing is stored and no request has started.
LEMMA CInitInv == ASSUME ModelAssumption, ContractAssumption, Init PROVE CInv
<1> USE DEF Init
<1>1. MInv
  BY MInitInv
<1>2. creq \in [Requests -> States]
  <2>1. (CHOOSE s \in Statuses : TRUE) \in Statuses /\ (CHOOSE b \in Bodies : TRUE) \in Bodies
    BY DEF ContractAssumption
  <2> QED
    BY <2>1 DEF States, Stages
<1>3. \A k \in ContractIDs : Latest(contracts, k) \in Nat /\ DenseKey(contracts, k)
  BY EmptyTable
<1>4. UniqueRows(contracts)
  BY DEF UniqueRows
<1>5. \A r \in Requests : Kept(creq[r])
  BY DEF Kept, NewKept, ResolveKept, BaseKept, PinKept, ExpectedKept, NextKept, RowKept, Written
<1> QED
  BY <1>1, <1>2, <1>3, <1>4, <1>5 DEF CInv, TypeOK, ContractHistoriesDense, MInv

\* A step that leaves every table alone and moves one request to a state that is
\* typed and keeps what its statements have established.
LEMMA CRequestMoves ==
  ASSUME ModelAssumption, CInv, UNCHANGED <<model_versions, clock, mreq, contracts>>,
         NEW r \in Requests, NEW q \in States, Kept(q),
         creq' = [creq EXCEPT ![r] = q]
  PROVE  CInv'
<1>1. MInv'
  <2>1. UNCHANGED mvars
    BY DEF mvars
  <2> QED
    BY <2>1, MNextInv DEF CInv
<1>2. TypeOK'
  BY <1>1 DEF CInv, TypeOK, MInv
<1>3. \A s \in Requests : Kept(creq'[s])
  <2>1. \A s \in Requests : creq'[s] = creq[s] \/ creq'[s] = q
    BY DEF CInv, TypeOK
  <2> QED
    BY <2>1 DEF CInv
<1>4. \A s \in Requests : Kept(creq[s])'
  BY <1>3 DEF Kept, NewKept, ResolveKept, BaseKept, PinKept, ExpectedKept, NextKept, RowKept, HasModel
<1> QED
  BY <1>1, <1>2, <1>4 DEF CInv, ContractHistoriesDense, HasModel

\* The admin requests and the clock do not disturb what a contract request holds:
\* rows of model_versions stay.
LEMMA CModelStep ==
  ASSUME ModelAssumption, CInv, [MNext]_mvars, UNCHANGED <<contracts, creq>>
  PROVE  CInv'
<1>1. MInv'
  BY MNextInv DEF CInv
<1>2. TypeOK'
  BY <1>1 DEF CInv, TypeOK, MInv
<1>3. \A c \in contracts : HasModel(c.pin[1], c.pin[2])'
  BY ModelRowsKept DEF CInv
<1>4. ASSUME NEW r \in Requests PROVE Kept(creq[r])'
  <2>1. Kept(creq[r])
    BY DEF CInv
  <2>2. PinKept(creq[r])'
    BY <2>1, ModelRowsKept DEF CInv, Kept, PinKept
  <2> QED
    BY <2>1, <2>2 DEF Kept, NewKept, ResolveKept, BaseKept, ExpectedKept, NextKept, RowKept
<1> QED
  BY <1>1, <1>2, <1>3, <1>4 DEF CInv, ContractHistoriesDense

\* The row SetStatus reads: WHERE id = k ORDER BY version DESC LIMIT 1.
LEMMA LatestRow ==
  ASSUME CInv, NEW k \in ContractIDs, Versions(contracts, k) # {}
  PROVE  LET row == RowAt(contracts, k, Latest(contracts, k)) IN
           /\ Occupied(contracts, k, Latest(contracts, k))
           /\ row \in contracts /\ row.key = k
           /\ row.version = Latest(contracts, k)
<1>1. Latest(contracts, k) \in Nat /\ Versions(contracts, k) = 1 .. Latest(contracts, k)
  BY DEF CInv, ContractHistoriesDense, DenseKey
<1>2. Latest(contracts, k) \in 1 .. Latest(contracts, k)
  BY <1>1
<1>3. Occupied(contracts, k, Latest(contracts, k))
  BY <1>1, <1>2 DEF Occupied
<1> QED
  BY <1>3, RowAtStored

\* A request reaches Put with the record of its body, or with the row SetStatus
\* read.
LEMMA CCallPut ==
  ASSUME ModelAssumption, ContractAssumption, CInv, NEW r \in Requests,
         Create(r) \/ SetStatus(r) \/ Refuse(r)
  PROVE  CInv'
<1> DEFINE p == creq[r]
<1>0. p \in States /\ Kept(p)
  BY DEF CInv, TypeOK
<1>1. CASE Create(r)
  <2>0. p.stage = "new"
    BY <1>1, ZenonT(60) DEF Create
  <2>1. PICK k \in ContractIDs \cup {NoContract}, s \in Statuses, b \in Bodies,
             g \in (ModelIDs \X (1 .. MaxPinVersion)) \cup {NoPin} :
          creq' = [creq EXCEPT ![r].stage = PutStage(g), ![r].key = k,
                     ![r].status = s, ![r].body = b, ![r].given = g, ![r].pin = g]
    BY <1>1 DEF Create
  <2> DEFINE q == [p EXCEPT !.stage = PutStage(g), !.key = k, !.status = s,
                            !.body = b, !.given = g, !.pin = g]
  <2>2. g \in Pins \cup {NoPin}
    BY DEF Pins, ContractAssumption
  <2>3. q \in States
    BY <1>0, <2>2 DEF States, Stages, PutStage
  <2>4. /\ q.stage \in {"resolve", "check"} /\ (q.stage = "check" => g # NoPin)
        /\ q.base = 0 /\ q.expected = NoVersion /\ q.given = g /\ q.pin = g
    BY <1>0, <2>0 DEF States, PutStage, Kept, NewKept
  <2>5. Kept(q)
    BY <2>2, <2>4 DEF Kept, NewKept, ResolveKept, BaseKept, PinKept, ExpectedKept, NextKept, RowKept, Written
  <2>6. creq' = [creq EXCEPT ![r] = q]
    BY <2>1
  <2> QED
    BY <1>1, <2>3, <2>5, <2>6, CRequestMoves DEF Create
<1>2. CASE SetStatus(r)
  <2>1. PICK k \in ContractIDs, s \in Statuses, e \in (0 .. MaxExpected) \cup {NoVersion} :
          /\ Versions(contracts, k) # {}
          /\ LET row == RowAt(contracts, k, Latest(contracts, k)) IN
               creq' = [creq EXCEPT ![r].stage = PutStage(row.pin), ![r].key = k,
                          ![r].status = s, ![r].body = row.body,
                          ![r].given = row.pin, ![r].pin = row.pin,
                          ![r].expected = e, ![r].base = row.version]
    BY <1>2, ZenonT(60) DEF SetStatus
  <2> DEFINE row == RowAt(contracts, k, Latest(contracts, k))
             q == [p EXCEPT !.stage = "check", !.key = k, !.status = s,
                            !.body = row.body, !.given = row.pin, !.pin = row.pin,
                            !.expected = e, !.base = row.version]
  <2>2. /\ row \in contracts /\ row.version = Latest(contracts, k)
        /\ Occupied(contracts, k, Latest(contracts, k))
    BY <2>1, LatestRow
  <2>3. row \in ContractRows
    BY <2>2 DEF CInv, TypeOK
  <2>4. e \in Nat \cup {NoVersion}
    BY DEF ContractAssumption
  <2>5. q \in States
    BY <1>0, <2>3, <2>4 DEF States, Stages, ContractRows
  <2>6. /\ q.stage = "check" /\ q.key = k /\ q.body = row.body
        /\ q.given = row.pin /\ q.pin = row.pin /\ q.base = Latest(contracts, k)
    BY <1>0, <2>2 DEF States
  <2>7. row.pin \in Pins /\ row.pin # NoPin
    BY <2>3 DEF ContractRows, Pins, ContractAssumption
  <2>8. Kept(q)
    BY <2>2, <2>6, <2>7 DEF Kept, NewKept, ResolveKept, BaseKept, PinKept, ExpectedKept, NextKept, RowKept, Written
  <2>9. creq' = [creq EXCEPT ![r] = q]
    BY <2>1, <2>7 DEF PutStage
  <2> QED
    BY <1>2, <2>5, <2>8, <2>9, CRequestMoves, ZenonT(60) DEF SetStatus
<1>3. CASE Refuse(r)
  <2> DEFINE q == [p EXCEPT !.stage = "failed"]
  <2>1. q \in States
    BY <1>0 DEF States, Stages
  <2>2. /\ q.stage = "failed" /\ q.base = p.base /\ q.key = p.key /\ q.body = p.body
        /\ q.given = p.given /\ q.pin = p.pin /\ q.expected = p.expected
    BY <1>0 DEF States
  <2>3. Kept(q)
    BY <1>0, <2>2 DEF Kept, NewKept, ResolveKept, BaseKept, PinKept, ExpectedKept, NextKept, RowKept, Written
  <2>4. creq' = [creq EXCEPT ![r] = q]
    BY <1>3 DEF Refuse
  <2> QED
    BY <1>3, <2>1, <2>3, <2>4, CRequestMoves DEF Refuse
<1> QED
  BY <1>1, <1>2, <1>3

\* The statements of Put before the INSERT writes, and the ends of a request.
LEMMA CPutMoves ==
  ASSUME ModelAssumption, ContractAssumption, CInv, NEW r \in Requests,
         \/ Resolve(r) \/ NoEnabledModel(r) \/ Check(r) \/ Conflict(r)
         \/ NextVersion(r) \/ InsertRefused(r) \/ Respond(r) \/ Abandon(r)
  PROVE  CInv'
<1> DEFINE p == creq[r]
           SameButStage(q) == /\ q.key = p.key /\ q.status = p.status /\ q.body = p.body
                              /\ q.given = p.given /\ q.pin = p.pin
                              /\ q.expected = p.expected /\ q.base = p.base
                              /\ q.next = p.next
<1>0. p \in States /\ Kept(p)
  BY DEF CInv, TypeOK
<1>1. CASE Resolve(r)
  <2>1. PICK m \in LatestEnabled :
          creq' = [creq EXCEPT ![r].stage = "check", ![r].pin = <<m.key, m.version>>]
    BY <1>1 DEF Resolve
  <2> DEFINE q == [p EXCEPT !.stage = "check", !.pin = <<m.key, m.version>>]
  <2>2. m \in model_versions /\ m \in ModelRows /\ m.status = "enabled"
    BY DEF LatestEnabled, Enabled, CInv, MInv, MTypeOK
  <2>3. <<m.key, m.version>> \in Pins
    BY <2>2 DEF ModelRows, Pins
  <2>4. HasModel(m.key, m.version)
    BY <2>2 DEF HasModel, Occupied, Versions
  <2>5. RowAt(model_versions, m.key, m.version) = m
    BY <2>2, <2>4, RowAtStored DEF HasModel, CInv, MInv, ModelHistoriesDense, UniqueRows
  <2>6. q \in States
    BY <1>0, <2>3 DEF States, Stages
  <2>7. /\ q.stage = "check" /\ q.pin = <<m.key, m.version>>
        /\ q.key = p.key /\ q.body = p.body /\ q.expected = p.expected /\ q.base = p.base
    BY <1>0 DEF States
  <2>8. p.stage = "resolve"
    BY <1>1 DEF Resolve
  <2>9. p.base = 0
    BY <1>0, <2>8 DEF Kept, ResolveKept
  <2>10. Kept(q)
    BY <1>0, <2>2, <2>3, <2>4, <2>5, <2>7, <2>9
       DEF Kept, NewKept, ResolveKept, BaseKept, PinKept, ExpectedKept, NextKept, RowKept, Written
  <2>11. creq' = [creq EXCEPT ![r] = q]
    BY <2>1
  <2> QED
    BY <1>1, <2>6, <2>10, <2>11, CRequestMoves DEF Resolve
<1>2. CASE NoEnabledModel(r)
  <2> DEFINE q == [p EXCEPT !.stage = "failed"]
  <2>1. q \in States
    BY <1>0 DEF States, Stages
  <2>2. q.stage = "failed" /\ SameButStage(q)
    BY <1>0 DEF States
  <2>3. Kept(q)
    BY <1>0, <1>2, <2>2
       DEF NoEnabledModel, Kept, NewKept, ResolveKept, BaseKept, PinKept, ExpectedKept, NextKept, RowKept, Written
  <2>4. creq' = [creq EXCEPT ![r] = q]
    BY <1>2 DEF NoEnabledModel
  <2> QED
    BY <1>2, <2>1, <2>3, <2>4, CRequestMoves DEF NoEnabledModel
<1>3. CASE Check(r)
  <2> DEFINE q == [p EXCEPT !.stage = "next"]
  <2>1. q \in States
    BY <1>0 DEF States, Stages
  <2>2. q.stage = "next" /\ SameButStage(q)
    BY <1>0 DEF States
  <2>3. p.stage = "check" /\ ExpectationHolds(p)
    BY <1>3 DEF Check
  <2>4. ExpectedKept(q)
    <3>1. p.expected # NoVersion =>
            p.base <= p.expected /\ p.expected <= Latest(contracts, p.key)
      <4> SUFFICES ASSUME p.expected # NoVersion
                   PROVE  p.base <= p.expected /\ p.expected <= Latest(contracts, p.key)
        OBVIOUS
      <4>1. /\ p.key \in ContractIDs /\ p.expected = Latest(contracts, p.key)
            /\ p.expected \in Nat /\ p.base \in Nat
        BY <1>0, <2>3 DEF Kept, ExpectedKept, ExpectationHolds, States
      <4>2. p.base # 0 => p.base <= Latest(contracts, p.key)
        BY <1>0, <4>1, DenseVersions DEF Kept, BaseKept, CInv, ContractHistoriesDense
      <4> QED
        BY <4>1, <4>2
    <3> QED
      BY <1>0, <2>2, <3>1 DEF Kept, ExpectedKept
  <2>5. Kept(q)
    BY <1>0, <2>2, <2>3, <2>4
       DEF Kept, NewKept, ResolveKept, BaseKept, PinKept, ExpectedKept, NextKept, RowKept, Written
  <2>6. creq' = [creq EXCEPT ![r] = q]
    BY <1>3 DEF Check
  <2> QED
    BY <1>3, <2>1, <2>5, <2>6, CRequestMoves DEF Check
<1>4. CASE Conflict(r)
  <2> DEFINE q == [p EXCEPT !.stage = "conflict"]
  <2>1. q \in States
    BY <1>0 DEF States, Stages
  <2>2. q.stage = "conflict" /\ SameButStage(q)
    BY <1>0 DEF States
  <2>3. Kept(q)
    BY <1>0, <1>4, <2>2
       DEF Conflict, Kept, NewKept, ResolveKept, BaseKept, PinKept, ExpectedKept, NextKept, RowKept, Written
  <2>4. creq' = [creq EXCEPT ![r] = q]
    BY <1>4 DEF Conflict
  <2> QED
    BY <1>4, <2>1, <2>3, <2>4, CRequestMoves DEF Conflict
<1>5. CASE NextVersion(r)
  <2> DEFINE n == IF p.key = NoContract THEN 1 ELSE Latest(contracts, p.key) + 1
             q == [p EXCEPT !.stage = "insert", !.next = n]
  <2>0. p.stage = "next"
    BY <1>5 DEF NextVersion
  <2>1. n \in Nat /\ 1 <= n /\ n <= n
    BY <1>0 DEF States, CInv
  <2>2. q \in States
    BY <1>0, <2>1 DEF States, Stages
  <2>3. /\ q.stage = "insert" /\ q.next = n
        /\ q.key = p.key /\ q.body = p.body /\ q.given = p.given /\ q.pin = p.pin
        /\ q.expected = p.expected /\ q.base = p.base
    BY <1>0 DEF States
  <2>4. p.base < n
    <3>1. CASE p.base = 0
      BY <2>1, <3>1
    <3>2. CASE p.base # 0
      <4>1. p.key \in ContractIDs /\ p.base \in Nat /\ Latest(contracts, p.key) \in Nat
        BY <1>0, <3>2 DEF Kept, BaseKept, States, CInv
      <4>2. p.base <= Latest(contracts, p.key)
        BY <1>0, <3>2, <4>1, DenseVersions DEF Kept, BaseKept, CInv, ContractHistoriesDense
      <4> QED
        BY <4>1, <4>2 DEF ContractAssumption
    <3> QED
      BY <3>1, <3>2
  <2>5. p.expected # NoVersion => p.expected < n
    <3> SUFFICES ASSUME p.expected # NoVersion PROVE p.expected < n
      OBVIOUS
    <3>1. /\ p.key \in ContractIDs /\ p.expected <= Latest(contracts, p.key)
          /\ p.expected \in Nat /\ Latest(contracts, p.key) \in Nat
      BY <1>0, <2>0 DEF Kept, ExpectedKept, States, CInv
    <3> QED
      BY <3>1 DEF ContractAssumption
  <2>6. NextKept(q)
    BY <2>1, <2>3, <2>4, <2>5 DEF NextKept
  <2>7. Kept(q)
    BY <1>0, <2>0, <2>3, <2>6
       DEF Kept, NewKept, ResolveKept, BaseKept, PinKept, ExpectedKept, RowKept, Written
  <2>8. creq' = [creq EXCEPT ![r] = q]
    BY <1>5 DEF NextVersion
  <2> QED
    BY <1>5, <2>2, <2>7, <2>8, CRequestMoves DEF NextVersion
<1>6. CASE InsertRefused(r)
  <2> DEFINE q == [p EXCEPT !.stage = "failed"]
  <2>1. q \in States
    BY <1>0 DEF States, Stages
  <2>2. q.stage = "failed" /\ SameButStage(q)
    BY <1>0 DEF States
  <2>3. Kept(q)
    BY <1>0, <1>6, <2>2
       DEF InsertRefused, Kept, NewKept, ResolveKept, BaseKept, PinKept, ExpectedKept, NextKept, RowKept, Written
  <2>4. creq' = [creq EXCEPT ![r] = q]
    BY <1>6 DEF InsertRefused
  <2> QED
    BY <1>6, <2>1, <2>3, <2>4, CRequestMoves DEF InsertRefused
<1>7. CASE Respond(r)
  <2> DEFINE q == [p EXCEPT !.stage = "ok"]
  <2>1. q \in States
    BY <1>0 DEF States, Stages
  <2>2. q.stage = "ok" /\ SameButStage(q)
    BY <1>0 DEF States
  <2>3. Kept(q)
    BY <1>0, <1>7, <2>2
       DEF Respond, Kept, NewKept, ResolveKept, BaseKept, PinKept, ExpectedKept, NextKept, RowKept, Written
  <2>4. creq' = [creq EXCEPT ![r] = q]
    BY <1>7 DEF Respond
  <2> QED
    BY <1>7, <2>1, <2>3, <2>4, CRequestMoves DEF Respond
<1>8. CASE Abandon(r)
  <2>1. PICK st \in {"gone", "lost"} :
          /\ creq' = [creq EXCEPT ![r].stage = st]
          /\ st = "lost" => p.stage = "inserted"
    BY <1>8 DEF Abandon
  <2> DEFINE q == [p EXCEPT !.stage = st]
  <2>2. q \in States
    BY <1>0 DEF States, Stages
  <2>3. q.stage = st /\ SameButStage(q)
    BY <1>0 DEF States
  <2>4. Kept(q)
    BY <1>0, <2>1, <2>3
       DEF Kept, NewKept, ResolveKept, BaseKept, PinKept, ExpectedKept, NextKept, RowKept, Written
  <2>5. creq' = [creq EXCEPT ![r] = q]
    BY <2>1
  <2> QED
    BY <1>8, <2>2, <2>4, <2>5, CRequestMoves DEF Abandon
<1> QED
  BY <1>1, <1>2, <1>3, <1>4, <1>5, <1>6, <1>7, <1>8

\* The row is written: version and history continue without a gap, and what the
\* other requests hold is still true of the longer history.
LEMMA CInsert ==
  ASSUME ModelAssumption, ContractAssumption, CInv, NEW r \in Requests, Insert(r)
  PROVE  CInv'
<1> DEFINE p == creq[r]
<1>0. p \in States /\ Kept(p) /\ p.stage = "insert"
  BY DEF CInv, TypeOK, Insert
<1>1. PICK k \in RowKeys(p) :
        /\ Insertable(p, k)
        /\ contracts' = contracts \cup
             {[key |-> k, version |-> p.next, status |-> p.status,
               body |-> p.body, pin |-> p.pin]}
        /\ creq' = [creq EXCEPT ![r].stage = "inserted", ![r].key = k]
  BY DEF Insert
<1> DEFINE x == [key |-> k, version |-> p.next, status |-> p.status,
                 body |-> p.body, pin |-> p.pin]
           q == [p EXCEPT !.stage = "inserted", !.key = k]
<1>2. contracts' = contracts \cup {x} /\ creq' = [creq EXCEPT ![r] = q]
  BY <1>1
<1>3. p.next \in Nat /\ 1 <= p.next /\ p.pin \in Pins
  BY <1>0 DEF Kept, NextKept, PinKept, States
<1>4. /\ k \in ContractIDs /\ p.next <= Latest(contracts, k) + 1
      /\ p.base # 0 => k = p.key
      /\ p.expected # NoVersion => k = p.key
  BY <1>0, <1>3, ContractAssumption DEF RowKeys, Kept, NextKept, BaseKept, ExpectedKept, States, CInv
<1>5. q \in States
  BY <1>0, <1>4 DEF States, Stages
<1>6. /\ q.stage = "inserted" /\ q.key = k /\ q.next = p.next /\ q.status = p.status
      /\ q.body = p.body /\ q.given = p.given /\ q.pin = p.pin
      /\ q.expected = p.expected /\ q.base = p.base
  BY <1>0 DEF States
<1>7. /\ x.key = k /\ x.version = p.next /\ x.status = p.status
      /\ x.body = p.body /\ x.pin = p.pin /\ x \in ContractRows
  BY <1>0, <1>3, <1>4 DEF States, ContractRows, Pins
<1>8. ~ Occupied(contracts, k, p.next) /\ HasModel(p.pin[1], p.pin[2])
  BY <1>1 DEF Insertable
<1>a. /\ UniqueRows(contracts)
      /\ \A j \in ContractIDs : Latest(contracts, j) \in Nat /\ DenseKey(contracts, j)
  BY DEF CInv, ContractHistoriesDense
<1>9. /\ Latest(contracts', k) = Latest(contracts, k) + 1
      /\ DenseKey(contracts', k)
  <2>1. DenseKey(contracts, x.key) /\ Latest(contracts, x.key) \in Nat
    BY <1>4, <1>7, <1>a
  <2>2. /\ x.version \in Nat /\ 1 <= x.version
        /\ x.version <= Latest(contracts, x.key) + 1
        /\ ~ Occupied(contracts, x.key, x.version)
    BY <1>3, <1>4, <1>7, <1>8
  <2>3. /\ Latest(contracts \cup {x}, x.key) = Latest(contracts, x.key) + 1
        /\ DenseKey(contracts \cup {x}, x.key)
    BY <2>1, <2>2, InsertNext
  <2> QED
    BY <1>2, <1>7, <2>3
<1>10. \A j \in ContractIDs \ {k} :
         /\ Latest(contracts', j) = Latest(contracts, j)
         /\ DenseKey(contracts', j)
  <2> SUFFICES ASSUME NEW j \in ContractIDs \ {k}
               PROVE  /\ Latest(contracts', j) = Latest(contracts, j)
                      /\ DenseKey(contracts', j)
    OBVIOUS
  <2>1. x.key # j
    BY <1>7
  <2>2. /\ Latest(contracts \cup {x}, j) = Latest(contracts, j)
        /\ DenseKey(contracts \cup {x}, j) <=> DenseKey(contracts, j)
    BY <2>1, InsertElsewhere
  <2> QED
    BY <1>2, <1>a, <2>2
<1>11. UniqueRows(contracts')
  BY <1>2, <1>7, <1>8, InsertUnique DEF CInv, ContractHistoriesDense
<1>12. \A j \in ContractIDs : /\ Latest(contracts', j) \in Nat
                              /\ Latest(contracts, j) <= Latest(contracts', j)
                              /\ DenseKey(contracts', j)
  BY <1>4, <1>9, <1>10 DEF CInv
<1>13. /\ Occupied(contracts', k, p.next)
       /\ RowAt(contracts', k, p.next) = x
  BY <1>2, <1>7, <1>11, RowAtInserted
<1>14. ASSUME NEW j, NEW v, Occupied(contracts, j, v)
       PROVE  /\ Occupied(contracts', j, v)
              /\ RowAt(contracts', j, v) = RowAt(contracts, j, v)
  <2>1. contracts \subseteq contracts'
    BY <1>2
  <2> QED
    BY <2>1, <1>11, <1>14, RowAtKept
<1>15. UNCHANGED <<model_versions, clock, mreq>>
  BY DEF Insert
<1>16. MInv'
  <2>1. UNCHANGED mvars
    BY <1>15 DEF mvars
  <2> QED
    BY <2>1, MNextInv DEF CInv
<1>17. TypeOK'
  BY <1>2, <1>5, <1>7, <1>16 DEF CInv, TypeOK, MInv
<1>18. \A j, v : HasModel(j, v)' <=> HasModel(j, v)
  BY <1>15 DEF HasModel
<1>19. \A c \in contracts' : HasModel(c.pin[1], c.pin[2])'
  BY <1>2, <1>7, <1>8, <1>18 DEF CInv
<1>20. ASSUME NEW s \in Requests PROVE Kept(creq[s])'
  <2>1. CASE s = r
    <3> DEFINE u == creq[s]
    <3>1. /\ u'.stage = "inserted" /\ u'.key = k /\ u'.next = p.next
          /\ u'.status = p.status /\ u'.body = p.body /\ u'.given = p.given
          /\ u'.pin = p.pin /\ u'.expected = p.expected /\ u'.base = p.base
      BY <1>2, <1>6, <2>1 DEF CInv, TypeOK
    <3>2. BaseKept(u)'
      BY <1>0, <1>4, <1>14, <3>1 DEF Kept, BaseKept
    <3>3. PinKept(u)'
      BY <1>0, <1>3, <1>15, <1>18, <3>1 DEF Kept, PinKept
    <3>4. ExpectedKept(u)'
      <4> SUFFICES ASSUME p.expected # NoVersion
                   PROVE  p.base <= p.expected /\ p.expected <= Latest(contracts', k)
        BY <1>4, <3>1 DEF ExpectedKept
      <4>1. p.base <= p.expected /\ p.expected <= Latest(contracts, k)
        BY <1>0, <1>4 DEF Kept, ExpectedKept
      <4>2. p.expected \in Nat /\ Latest(contracts, k) \in Nat
        BY <1>0, <1>4, <1>a, ContractAssumption DEF States
      <4> QED
        BY <4>1, <4>2, <1>9
    <3>5. RowKept(u)'
      BY <1>0, <1>3, <1>4, <1>7, <1>13, <3>1 DEF Kept, NextKept, RowKept
    <3>6. NewKept(u)' /\ ResolveKept(u)' /\ NextKept(u)'
      BY <3>1 DEF NewKept, ResolveKept, NextKept
    <3> QED
      BY <3>2, <3>3, <3>4, <3>5, <3>6 DEF Kept
  <2>2. CASE s # r
    <3> DEFINE u == creq[s]
    <3>1. creq'[s] = u /\ u \in States /\ Kept(u)
      BY <1>2, <2>2 DEF CInv, TypeOK
    <3>2. BaseKept(creq[s])' /\ RowKept(creq[s])'
      BY <1>14, <3>1 DEF Kept, BaseKept, RowKept
    <3>3. PinKept(creq[s])'
      BY <1>15, <1>18, <3>1 DEF Kept, PinKept
    <3>4. ExpectedKept(creq[s])'
      <4> SUFFICES ASSUME u.expected # NoVersion,
                          u.stage \in {"next", "insert"} \cup Written
                   PROVE  u.expected <= Latest(contracts', u.key)
        BY <3>1 DEF Kept, ExpectedKept
      <4>1. /\ u.key \in ContractIDs /\ u.expected \in Nat
            /\ u.expected <= Latest(contracts, u.key)
        BY <3>1 DEF Kept, ExpectedKept, States
      <4> QED
        BY <4>1, <1>12 DEF CInv
    <3>5. NextKept(creq[s])'
      <4> SUFFICES ASSUME u.stage = "insert", u.key # NoContract
                   PROVE  u.next <= Latest(contracts', u.key) + 1
        BY <3>1 DEF Kept, NextKept
      <4>1. /\ u.key \in ContractIDs /\ u.next \in Nat
            /\ u.next <= Latest(contracts, u.key) + 1
        BY <3>1 DEF Kept, NextKept, States
      <4> QED
        BY <4>1, <1>12 DEF CInv
    <3>6. NewKept(creq[s])' /\ ResolveKept(creq[s])'
      BY <3>1 DEF Kept, NewKept, ResolveKept
    <3> QED
      BY <3>2, <3>3, <3>4, <3>5, <3>6 DEF Kept
  <2> QED
    BY <2>1, <2>2
<1> QED
  BY <1>11, <1>12, <1>16, <1>17, <1>19, <1>20 DEF CInv, ContractHistoriesDense

\* Every step keeps the invariant.
LEMMA CNextInv ==
  ASSUME ModelAssumption, ContractAssumption, CInv, [Next]_vars
  PROVE  CInv'
<1>1. CASE UNCHANGED vars
  BY <1>1, CModelStep DEF vars, mvars
<1>2. CASE MNext /\ UNCHANGED <<contracts, creq>>
  BY <1>2, CModelStep
<1>3. ASSUME NEW r \in Requests, ContractRequest(r) PROVE CInv'
  BY <1>3, CCallPut, CPutMoves, CInsert DEF ContractRequest, PutStep
<1> QED
  BY <1>1, <1>2, <1>3 DEF Next

\* For every number of contracts, models and requests, and every expected version
\* and pin a client may send.
THEOREM ContractInvariant == Spec => []CInv
<1>1. Init => CInv
  BY CInitInv, ModelAssumption, ContractAssumption
<1>2. CInv /\ [Next]_vars => CInv'
  BY CNextInv, ModelAssumption, ContractAssumption
<1> QED
  BY <1>1, <1>2, PTL DEF Spec

\* Tables and handlers are always of the declared type.
THEOREM ContractTypes == Spec => []TypeOK
<1>1. CInv => TypeOK
  BY DEF CInv
<1> QED
  BY <1>1, ContractInvariant, PTL

\* Whatever the races of Create and SetStatus, the versions of a contract are
\* 1..n, each stored once.
THEOREM ContractDensity == Spec => []ContractHistoriesDense
<1>1. CInv => ContractHistoriesDense
  BY DEF CInv
<1> QED
  BY <1>1, ContractInvariant, PTL

\* A row written under expected_version is newer than the version expected.
THEOREM ContractPutAboveExpected == Spec => []PutAboveExpected
<1>1. CInv => PutAboveExpected
  BY DEF CInv, Kept, RowKept, PutAboveExpected
<1> QED
  BY <1>1, ContractInvariant, PTL

\* An accepted status change that names a version existing when it read was made
\* from exactly that version.
THEOREM ContractAcceptedChange == Spec => []AcceptedChangeReadExpected
<1>1. CInv => AcceptedChangeReadExpected
  <2> SUFFICES ASSUME CInv, NEW r \in Requests,
                      creq[r].stage \in {"next", "insert"} \cup Written,
                      creq[r].expected # NoVersion, creq[r].expected <= creq[r].base
               PROVE  creq[r].base = creq[r].expected
    BY DEF AcceptedChangeReadExpected
  <2>1. creq[r].base <= creq[r].expected
    BY DEF CInv, Kept, ExpectedKept
  <2>2. creq[r].base \in Nat /\ creq[r].expected \in Nat
    BY DEF CInv, TypeOK, States
  <2> QED
    BY <2>1, <2>2
<1> QED
  BY <1>1, ContractInvariant, PTL

\* A status change writes a newer version with the body and pin it read.
THEOREM ContractStatusChange == Spec => []StatusChangeKeepsPin
<1>1. CInv => StatusChangeKeepsPin
  BY DEF CInv, Kept, RowKept, BaseKept, StatusChangeKeepsPin
<1> QED
  BY <1>1, ContractInvariant, PTL

\* Every contract version is pinned to a stored model version, an enabled one
\* when Put resolved the pin.
THEOREM ContractPins == Spec => []PinsReplayable
<1>1. CInv => PinsReplayable
  <2> SUFFICES ASSUME CInv, NEW r \in Requests, creq[r].stage \in Written,
                      creq[r].given = NoPin
               PROVE  RowAt(model_versions, creq[r].pin[1], creq[r].pin[2]).status = "enabled"
    BY DEF CInv, PinsReplayable
  <2>1. creq[r].pin # NoPin
    BY ContractAssumption DEF CInv, Kept, PinKept, Pins
  <2> QED
    BY <2>1 DEF CInv, Kept, PinKept
<1> QED
  BY <1>1, ContractInvariant, PTL

\* A step of one request leaves the state of the others alone.
LEMMA CallTouchesOwn ==
  ASSUME TypeOK, NEW s \in Requests, NEW r \in Requests, r # s, ContractRequest(s)
  PROVE  creq'[r] = creq[r]
<1>1. CASE Create(s)
  BY <1>1 DEF Create, TypeOK
<1>2. CASE SetStatus(s)
  BY <1>2 DEF SetStatus, TypeOK
<1>3. CASE Refuse(s) \/ Resolve(s) \/ NoEnabledModel(s) \/ Check(s) \/ Conflict(s)
  BY <1>3 DEF Refuse, Resolve, NoEnabledModel, Check, Conflict, TypeOK
<1>4. CASE NextVersion(s) \/ Insert(s) \/ InsertRefused(s) \/ Respond(s) \/ Abandon(s)
  BY <1>4 DEF NextVersion, Insert, InsertRefused, Respond, Abandon, TypeOK
<1> QED
  BY <1>1, <1>2, <1>3, <1>4 DEF ContractRequest, PutStep

\* Only Put's own statement takes a request from "resolve" to "check".
LEMMA ResolveOnly ==
  ASSUME TypeOK, [Next]_vars, NEW r \in Requests,
         creq[r].stage = "resolve", creq'[r].stage = "check"
  PROVE  Resolve(r)
<1>1. CASE UNCHANGED creq
  BY <1>1
<1>2. ASSUME NEW s \in Requests, ContractRequest(s)
      PROVE  Resolve(r)
  <2>1. s = r
    BY <1>2, CallTouchesOwn
  <2>2. creq[s].stage = "resolve" /\ creq[s] \in States
    BY <2>1 DEF TypeOK
  <2>3. Resolve(s) \/ NoEnabledModel(s) \/ Abandon(s)
    BY <1>2, <2>2 DEF ContractRequest, PutStep, Create, SetStatus, Refuse, Check, Conflict,
       NextVersion, Insert, InsertRefused, Respond
  <2>4. ~ NoEnabledModel(s) /\ ~ Abandon(s)
    BY <2>1, <2>2 DEF NoEnabledModel, Abandon, TypeOK, States
  <2> QED
    BY <2>1, <2>3, <2>4
<1> QED
  BY <1>1, <1>2 DEF Next, vars

\* Put never resolves a pin to a model older than one it has resolved to before.
THEOREM ContractPinsForward == Spec => PinsMoveForward
<1> DEFINE A == \A q, r \in Requests :
                  /\ creq[q].given = NoPin /\ creq[q].pin # NoPin
                  /\ creq[r].stage = "resolve" /\ creq'[r].stage = "check"
                  => PinCreated(creq[q].pin) <= PinCreated(creq'[r].pin)
<1>1. ASSUME CInv, [Next]_vars PROVE [A]_vars
  <2> SUFFICES ASSUME NEW q \in Requests, NEW r \in Requests,
                      creq[q].given = NoPin, creq[q].pin # NoPin,
                      creq[r].stage = "resolve", creq'[r].stage = "check"
               PROVE  PinCreated(creq[q].pin) <= PinCreated(creq'[r].pin)
    OBVIOUS
  <2>1. TypeOK /\ UniqueRows(model_versions)
    BY <1>1 DEF CInv, MInv, ModelHistoriesDense
  <2>2. Resolve(r)
    BY <1>1, <2>1, ResolveOnly
  <2>3. PICK m \in LatestEnabled :
          creq' = [creq EXCEPT ![r].stage = "check", ![r].pin = <<m.key, m.version>>]
    BY <2>2 DEF Resolve
  <2>4. creq'[r].pin = <<m.key, m.version>>
    BY <2>1, <2>3 DEF TypeOK, States
  <2>5. RowAt(model_versions, m.key, m.version) = m
    BY <2>1, RowAtInserted DEF LatestEnabled, Enabled
  <2> DEFINE p == creq[q].pin
             old == RowAt(model_versions, p[1], p[2])
  <2>6. HasModel(p[1], p[2]) /\ old.status = "enabled"
    BY <1>1 DEF CInv, Kept, PinKept
  <2>7. old \in Enabled
    BY <2>6, RowAtStored DEF HasModel, Enabled
  <2>8. old.created_at <= m.created_at
    BY <2>7 DEF LatestEnabled
  <2> QED
    BY <2>4, <2>5, <2>8 DEF PinCreated
<1> QED
  BY <1>1, ContractInvariant, PTL DEF Spec, PinsMoveForward

----------------------------------------------------------------------------
(* The table implements the abstract log.                                  *)

ContractEntry == [status : Statuses, body : Bodies, pin : Pins]

\* The log of a contract is a function over its stored versions 1..MAX(version).
LEMMA ContractEntriesTyped ==
  ASSUME CInv, NEW k \in ContractIDs
  PROVE  /\ Latest(contracts, k) \in Nat
         /\ ContractEntries(k) \in [1 .. Latest(contracts, k) -> ContractEntry]
         /\ \A v \in 1 .. Latest(contracts, k) : Occupied(contracts, k, v)
<1>1. Latest(contracts, k) \in Nat /\ DenseKey(contracts, k)
  BY DEF CInv, ContractHistoriesDense
<1>2. \A v \in 1 .. Latest(contracts, k) : Occupied(contracts, k, v)
  BY <1>1 DEF DenseKey, Occupied
<1>3. ASSUME NEW v \in 1 .. Latest(contracts, k)
      PROVE  Entry(RowAt(contracts, k, v)) \in ContractEntry
  <2>1. RowAt(contracts, k, v) \in ContractRows
    BY <1>2, RowAtStored DEF CInv, TypeOK
  <2> QED
    BY <2>1 DEF ContractRows, Entry, ContractEntry
<1> QED
  BY <1>1, <1>2, <1>3 DEF ContractEntries

\* A step of one request changes its phase and its place only.
LEMMA ContractFrame ==
  ASSUME NEW r \in Requests, \A s \in Requests \ {r} : creq'[s] = creq[s]
  PROVE  /\ ContractPhases' = [ContractPhases EXCEPT ![r] = ContractPhase(creq'[r])]
         /\ ContractPhases'[r] = ContractPhase(creq'[r])
         /\ ContractPlaces' = [ContractPlaces EXCEPT ![r] = ContractAppended(creq'[r])]
<1>1. /\ ContractPhases' = [s \in Requests |-> ContractPhase(creq'[s])]
      /\ ContractPlaces' = [s \in Requests |-> ContractAppended(creq'[s])]
  BY DEF ContractPhases, ContractPlaces, ContractPhase, ContractAppended
<1>2. \A s \in Requests \ {r} :
        /\ ContractPhase(creq'[s]) = ContractPhase(creq[s])
        /\ ContractAppended(creq'[s]) = ContractAppended(creq[s])
  OBVIOUS
<1> QED
  BY <1>1, <1>2 DEF ContractPhases, ContractPlaces

\* The row that Insert commits is the next entry of its contract.
LEMMA ContractInsertAppends ==
  ASSUME ModelAssumption, ContractAssumption, CInv, NEW r \in Requests, Insert(r)
  PROVE  \E k \in ContractIDs :
           /\ ContractLog!Appends(k)
           /\ ContractPlaces' =
                [ContractPlaces EXCEPT ![r] = <<k, Len(ContractLogs[k]) + 1>>]
<1> DEFINE p == creq[r]
<1>0. p \in States /\ Kept(p) /\ p.stage = "insert"
  BY DEF CInv, TypeOK, Insert
<1>1. PICK k \in RowKeys(p) :
        /\ Insertable(p, k)
        /\ contracts' = contracts \cup
             {[key |-> k, version |-> p.next, status |-> p.status,
               body |-> p.body, pin |-> p.pin]}
        /\ creq' = [creq EXCEPT ![r].stage = "inserted", ![r].key = k]
  BY DEF Insert
<1> DEFINE x == [key |-> k, version |-> p.next, status |-> p.status,
                 body |-> p.body, pin |-> p.pin]
           n == Latest(contracts, k)
<1>2. /\ p.next \in Nat /\ 1 <= p.next
      /\ k \in ContractIDs /\ p.next <= n + 1
  BY <1>0, ContractAssumption DEF RowKeys, Kept, NextKept, States, CInv
<1>3. n \in Nat /\ DenseKey(contracts, k)
  BY <1>2 DEF CInv, ContractHistoriesDense
<1>4. x.key = k /\ x.version = p.next
  OBVIOUS
<1>5. contracts' = contracts \cup {x} /\ ~ Occupied(contracts, k, p.next)
  BY <1>1 DEF Insertable
<1> HIDE DEF x
<1>6. p.next = n + 1 /\ Latest(contracts', k) = n + 1
  BY <1>2, <1>3, <1>4, <1>5, InsertNext
<1>7. CInv' /\ UniqueRows(contracts')
  BY CInsert DEF CInv, ContractHistoriesDense
<1>8. ASSUME NEW j \in ContractIDs, NEW v \in 1 .. Latest(contracts, j)
      PROVE  RowAt(contracts', j, v) = RowAt(contracts, j, v)
  <2>1. contracts \subseteq contracts' /\ Occupied(contracts, j, v)
    BY <1>5, <1>8, ContractEntriesTyped
  <2> QED
    BY <1>7, <2>1, RowAtKept
<1>9. ASSUME NEW j \in ContractIDs, j # k PROVE ContractEntries(j)' = ContractEntries(j)
  <2>1. Latest(contracts', j) = Latest(contracts, j)
    BY <1>4, <1>5, <1>9, InsertElsewhere
  <2> QED
    BY <1>8, <2>1 DEF ContractEntries
<1> DEFINE f == ContractEntries(k)
           g == ContractEntries(k)'
<1>10. f \in [1 .. n -> ContractEntry]
  BY <1>2, ContractEntriesTyped
<1>11. g \in [1 .. (n + 1) -> ContractEntry]
  <2>1. \A v \in 1 .. Latest(contracts', k) : Occupied(contracts', k, v)
    BY <1>2, <1>7 DEF CInv, ContractHistoriesDense, DenseKey, Occupied
  <2>2. ASSUME NEW v \in 1 .. (n + 1)
        PROVE  Entry(RowAt(contracts', k, v)) \in ContractEntry
    <3>1. RowAt(contracts', k, v) \in ContractRows
      BY <1>6, <1>7, <2>1, RowAtStored DEF CInv, TypeOK
    <3> QED
      BY <3>1 DEF ContractRows, Entry, ContractEntry
  <2> QED
    BY <1>6, <2>2 DEF ContractEntries
<1>12. \A v \in 1 .. n : g[v] = f[v]
  BY <1>2, <1>3, <1>6, <1>8 DEF ContractEntries
<1> HIDE DEF f, g, n
<1>13. Len(f) = n /\ Len(g) = Len(f) + 1 /\ g[Len(f) + 1] \in ContractEntry
       /\ g = Append(f, g[Len(f) + 1])
  BY <1>3, <1>10, <1>11, <1>12, LogAppend, LogTyped
<1>14. ContractLogs[k] = f /\ ContractLogs'[k] = g
  BY <1>2 DEF ContractLogs, f, g
<1>15. ContractLogs' = [ContractLogs EXCEPT ![k] = g]
  BY <1>2, <1>9 DEF ContractLogs, g
<1>16. ContractLog!Appends(k)
  BY <1>13, <1>14, <1>15 DEF ContractLog!Appends, ContractEntry
<1>17. /\ \A s \in Requests \ {r} : creq'[s] = creq[s]
       /\ creq'[r].stage = "inserted" /\ creq'[r].key = k /\ creq'[r].next = p.next
  BY <1>0, <1>1 DEF CInv, TypeOK, States
<1>18. ContractPlaces' = [ContractPlaces EXCEPT ![r] = <<k, Len(ContractLogs[k]) + 1>>]
  <2>1. ContractAppended(creq'[r]) = <<k, n + 1>>
    BY <1>6, <1>17 DEF ContractAppended, Written, n
  <2> QED
    BY <1>13, <1>14, <1>17, <2>1, ContractFrame
<1> QED
  BY <1>2, <1>16, <1>18

\* How a request moves when it does not write.
ContractMoves(p, q) ==
  \/ p.stage = "new" /\ q.stage \in {"resolve", "check", "failed"}
  \/ /\ p.stage \in {"resolve", "check", "next", "insert"}
     /\ q.stage \in {"check", "next", "insert", "conflict", "failed", "gone"}
  \/ /\ p.stage = "inserted" /\ q.stage \in {"ok", "lost"}
     /\ q.key = p.key /\ q.next = p.next

\* Every action of a request but Insert is such a move and leaves the table
\* alone.
LEMMA ContractRequestMoves ==
  ASSUME CInv, NEW r \in Requests, ContractRequest(r), ~ Insert(r)
  PROVE  UNCHANGED contracts /\ ContractMoves(creq[r], creq'[r])
<1>0. creq \in [Requests -> States] /\ creq[r] \in States
  BY DEF CInv, TypeOK
<1>1. CASE Create(r)
  <2>1. PICK k \in ContractIDs \cup {NoContract}, s \in Statuses, b \in Bodies,
             g \in (ModelIDs \X (1 .. MaxPinVersion)) \cup {NoPin} :
          creq' = [creq EXCEPT ![r].stage = PutStage(g), ![r].key = k,
                     ![r].status = s, ![r].body = b, ![r].given = g, ![r].pin = g]
    BY <1>1 DEF Create
  <2>2. creq[r].stage = "new" /\ creq'[r].stage = PutStage(g) /\ UNCHANGED contracts
    BY <1>0, <1>1, <2>1 DEF Create, States
  <2> QED
    BY <2>2 DEF PutStage, ContractMoves
<1>2. CASE Resolve(r)
  <2>1. PICK p : creq' = [creq EXCEPT ![r].stage = "check", ![r].pin = p]
    BY <1>2 DEF Resolve
  <2>2. creq[r].stage = "resolve" /\ creq'[r].stage = "check"
    BY <1>0, <1>2, <2>1 DEF Resolve, States
  <2> QED
    BY <1>2, <2>2 DEF Resolve, ContractMoves
<1>3. CASE Refuse(r) \/ NoEnabledModel(r) \/ Check(r) \/ Conflict(r)
  BY <1>0, <1>3 DEF Refuse, NoEnabledModel, Check, Conflict, States, ContractMoves
<1>4. CASE NextVersion(r) \/ InsertRefused(r) \/ Respond(r) \/ Abandon(r)
  BY <1>0, <1>4 DEF NextVersion, InsertRefused, Respond, Abandon, States, ContractMoves
<1>5. CASE SetStatus(r)
  <2>1. PICK k \in ContractIDs, s \in Statuses, e \in (0 .. MaxExpected) \cup {NoVersion} :
          /\ Versions(contracts, k) # {}
          /\ LET row == RowAt(contracts, k, Latest(contracts, k)) IN
               creq' = [creq EXCEPT ![r].stage = PutStage(row.pin), ![r].key = k,
                          ![r].status = s, ![r].body = row.body,
                          ![r].given = row.pin, ![r].pin = row.pin,
                          ![r].expected = e, ![r].base = row.version]
    BY <1>5, ZenonT(60) DEF SetStatus
  <2> DEFINE pin == RowAt(contracts, k, Latest(contracts, k)).pin
  <2>2. creq[r].stage = "new" /\ creq'[r].stage = PutStage(pin) /\ UNCHANGED contracts
    BY <1>0, <1>5, <2>1 DEF SetStatus, States
  <2> QED
    BY <2>2 DEF PutStage, ContractMoves
<1> QED
  BY <1>1, <1>2, <1>3, <1>4, <1>5 DEF ContractRequest, PutStep

\* Such a move opens, answers, fails or loses the request, or is no step of the log.
LEMMA ContractMoveRefines ==
  ASSUME NEW r \in Requests, UNCHANGED contracts,
         \A s \in Requests \ {r} : creq'[s] = creq[s],
         ContractMoves(creq[r], creq'[r])
  PROVE  [ContractLog!Next]_(ContractLog!vars)
<1> DEFINE p == creq[r]
           q == creq'[r]
<1>1. ContractAppended(q) = ContractAppended(p)
  BY DEF ContractMoves, ContractAppended, Written
<1>2. ContractPlaces[r] = ContractAppended(p) /\ ContractPhases[r] = ContractPhase(p)
  BY DEF ContractPlaces, ContractPhases
<1>3. /\ ContractLogs' = ContractLogs
      /\ ContractPhases' = [ContractPhases EXCEPT ![r] = ContractPhase(q)]
      /\ ContractPhases'[r] = ContractPhase(q)
      /\ ContractPlaces' = ContractPlaces
  BY <1>1, <1>2, ContractFrame DEF ContractLogs, ContractEntries, ContractPlaces
<1>4. CASE ContractPhase(q) = ContractPhase(p)
  <2>1. ContractPhases' = ContractPhases
    BY <1>2, <1>3, <1>4 DEF ContractPhases
  <2> QED
    BY <1>3, <2>1 DEF ContractLog!vars
<1>5. CASE ContractPhase(p) = "new" /\ ContractPhase(q) = "open"
  BY <1>2, <1>3, <1>5 DEF ContractLog!Next, ContractLog!Open, ContractLog!Moves
<1>6. CASE ContractPhase(p) \in {"new", "open"} /\ ContractPhase(q) = "failed"
  BY <1>2, <1>3, <1>6 DEF ContractLog!Next, ContractLog!Fail, ContractLog!Moves
<1>7. CASE ContractPhase(p) = "applied" /\ ContractPhase(q) = "ok"
  BY <1>2, <1>3, <1>7 DEF ContractLog!Next, ContractLog!Answer, ContractLog!Moves
<1>8. CASE ContractPhase(p) \in {"open", "applied"} /\ ContractPhase(q) = "gone"
  BY <1>2, <1>3, <1>8 DEF ContractLog!Next, ContractLog!GoAway, ContractLog!Moves
<1>9. \/ ContractPhase(q) = ContractPhase(p)
      \/ ContractPhase(p) = "new" /\ ContractPhase(q) = "open"
      \/ ContractPhase(p) \in {"new", "open"} /\ ContractPhase(q) = "failed"
      \/ ContractPhase(p) = "applied" /\ ContractPhase(q) = "ok"
      \/ ContractPhase(p) \in {"open", "applied"} /\ ContractPhase(q) = "gone"
  BY DEF ContractMoves, ContractPhase
<1> QED
  BY <1>4, <1>5, <1>6, <1>7, <1>8, <1>9

\* Every step of the table and its requests is a step of the log or none.
LEMMA ContractStepRefines ==
  ASSUME ModelAssumption, ContractAssumption, CInv, [Next]_vars
  PROVE  [ContractLog!Next]_(ContractLog!vars)
<1>t. TypeOK /\ creq \in [Requests -> States]
  BY DEF CInv, TypeOK
<1>1. CASE UNCHANGED <<contracts, creq>>
  BY <1>1 DEF ContractLog!vars, ContractLogs, ContractPhases, ContractPlaces, ContractEntries
<1>2. ASSUME NEW r \in Requests, ContractRequest(r), ~ Insert(r)
      PROVE  [ContractLog!Next]_(ContractLog!vars)
  <2>1. \A s \in Requests \ {r} : creq'[s] = creq[s]
    BY <1>2, <1>t, CallTouchesOwn
  <2> QED
    BY <1>2, <2>1, ContractRequestMoves, ContractMoveRefines
<1>3. ASSUME NEW r \in Requests, Insert(r)
      PROVE  [ContractLog!Next]_(ContractLog!vars)
  <2>1. /\ creq[r].stage = "insert" /\ creq'[r].stage = "inserted"
        /\ \A s \in Requests \ {r} : creq'[s] = creq[s]
    BY <1>3, <1>t DEF Insert, States
  <2>2. ContractPhase(creq[r]) = "open" /\ ContractPhase(creq'[r]) = "applied"
    BY <2>1 DEF ContractPhase
  <2>3. /\ ContractPhases[r] = "open"
        /\ ContractPhases' = [ContractPhases EXCEPT ![r] = "applied"]
        /\ ContractPhases'[r] = "applied"
    BY <2>1, <2>2, ContractFrame DEF ContractPhases
  <2>4. ContractLog!Apply(r)
    BY <1>3, <2>3, ContractInsertAppends DEF ContractLog!Apply, ContractLog!Moves
  <2> QED
    BY <2>4 DEF ContractLog!Next
<1> QED
  BY <1>1, <1>2, <1>3 DEF Next, vars

\* The empty table is the empty log.
LEMMA ContractInitRefines == ASSUME Init PROVE ContractLog!Init
<1>1. ASSUME NEW k \in ContractIDs PROVE ContractEntries(k) = <<>>
  <2>1. Latest(contracts, k) = 0
    BY EmptyTable DEF Init
  <2> QED
    BY <2>1 DEF ContractEntries
<1>2. \A r \in Requests : creq[r].stage = "new"
  BY DEF Init
<1> QED
  BY <1>1, <1>2 DEF ContractLog!Init, ContractLogs, ContractPhases, ContractPlaces,
     ContractPhase, ContractAppended, Written

\* The table of contracts, with the statements of Put, their races, conflicts and
\* lost answers, is an append-only log per contract to which each request appends
\* at most once.
THEOREM ContractImplementsLog == Spec => ContractTableIsALog
<1>1. Init => ContractLog!Init
  BY ContractInitRefines
<1>2. CInv /\ [Next]_vars => [ContractLog!Next]_(ContractLog!vars)
  BY ContractStepRefines, ModelAssumption, ContractAssumption
<1> QED
  BY <1>1, <1>2, ContractInvariant, PTL DEF Spec, ContractTableIsALog, ContractLog!Spec

\* A request for a contract only reads model_versions: beside the contracts the
\* table of model versions stays a log per lineage.
THEOREM ContractModelLog == Spec => ModelTableIsALog
<1>1. ASSUME NEW r \in Requests, ContractRequest(r) PROVE UNCHANGED mvars
  BY <1>1 DEF ContractRequest, PutStep, Create, SetStatus, Refuse, Resolve, NoEnabledModel,
     Check, Conflict, NextVersion, Insert, InsertRefused, Respond, Abandon, mvars
<1>2. [Next]_vars => [MNext]_mvars
  BY <1>1 DEF Next, vars, mvars
<1>3. Init => MInit
  BY DEF Init
<1> QED
  BY <1>2, <1>3, ModelTableKeeps, PTL DEF Spec
=============================================================================
