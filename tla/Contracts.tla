----------------------------- MODULE Contracts -----------------------------
(***************************************************************************)
(* The contracts table beside model_versions, and the requests that write  *)
(* it: POST /contracts (Create) and PATCH /contracts/{id}/status           *)
(* (SetStatus: Get, then Put of what it read with another status).  Put is *)
(* up to three statements: resolve the model pin, compare expected_version *)
(* with MAX(version), INSERT; each commits by itself, so every other       *)
(* request may run in between.  As for model_versions, the INSERT reads    *)
(* MAX(version) in one step and writes its row in a later one.             *)
(***************************************************************************)
EXTENDS ModelVersions

CONSTANTS
  ContractIDs,      \* contract uuids
  Statuses,         \* contracts.status, free TEXT other than ""
  Bodies,           \* domain, type, action and blob of a contract
  Requests,         \* the requests on /contracts that are ever made
  MaxExpected,      \* bound: the largest expected_version a client sends
  MaxPinVersion,    \* bound: the largest model_version a client sends
  NoContract,       \* id "": the database draws a fresh uuid
  NoPin,            \* model_id "" or model_version 0: Put resolves the pin
  NoVersion         \* no expected_version: the write is unconditional

ASSUME ContractAssumption ==
  /\ Statuses # {} /\ Bodies # {}
  /\ NoContract \notin ContractIDs
  /\ MaxExpected \in Nat
  /\ MaxPinVersion \in Nat
  /\ NoVersion \notin Nat
  /\ NoPin \notin ModelIDs \X (Nat \ {0})

VARIABLES
  contracts,  \* the rows of the table
  creq        \* creq[r]: the handler of contract request r

vars == <<model_versions, clock, mreq, contracts, creq>>

Pins == ModelIDs \X (Nat \ {0})

ContractRows == [key : ContractIDs, version : Nat \ {0}, status : Statuses,
                 body : Bodies, pin : Pins]

Stages == {"new", "resolve", "check", "next", "insert", "inserted",
           "ok", "conflict", "failed", "gone", "lost"}

\* given is the pin of the record Put receives, pin the one it writes; base is
\* the version SetStatus read (0 for Create), next the one the INSERT computed.
States == [stage : Stages, key : ContractIDs \cup {NoContract},
           status : Statuses, body : Bodies,
           given : Pins \cup {NoPin}, pin : Pins \cup {NoPin},
           expected : Nat \cup {NoVersion}, base : Nat, next : Nat]

TypeOK ==
  /\ MTypeOK
  /\ contracts \subseteq ContractRows
  /\ creq \in [Requests -> States]

Init ==
  /\ MInit
  /\ contracts = {}
  /\ creq = [r \in Requests |->
              [stage |-> "new", key |-> NoContract,
               status |-> CHOOSE s \in Statuses : TRUE,
               body |-> CHOOSE b \in Bodies : TRUE,
               given |-> NoPin, pin |-> NoPin,
               expected |-> NoVersion, base |-> 0, next |-> 0]]

----------------------------------------------------------------------------
(* The handlers up to the call of Put.                                     *)

PutStage_AlwaysResolve(pin) == "resolve"

\* The first step of Put: a pin that is not given is resolved.
PutStage(pin) == IF pin = NoPin THEN "resolve" ELSE "check"

\* Create takes the whole record from the body, id and pin included, and never
\* passes an expected version.
Create(r) ==
  /\ creq[r].stage = "new"
  /\ \E k \in ContractIDs \cup {NoContract}, s \in Statuses, b \in Bodies,
        p \in (ModelIDs \X (1 .. MaxPinVersion)) \cup {NoPin} :
       creq' = [creq EXCEPT ![r].stage = PutStage(p), ![r].key = k,
                  ![r].status = s, ![r].body = b, ![r].given = p, ![r].pin = p]
  /\ UNCHANGED <<model_versions, clock, mreq, contracts>>

\* SetStatus: Get returns the latest row, which keeps its body and its pin.
SetStatus(r) ==
  /\ creq[r].stage = "new"
  /\ \E k \in ContractIDs, s \in Statuses,
        e \in (0 .. MaxExpected) \cup {NoVersion} :
       /\ Versions(contracts, k) # {}
       /\ LET row == RowAt(contracts, k, Latest(contracts, k)) IN
            creq' = [creq EXCEPT ![r].stage = PutStage(row.pin), ![r].key = k,
                       ![r].status = s, ![r].body = row.body,
                       ![r].given = row.pin, ![r].pin = row.pin,
                       ![r].expected = e, ![r].base = row.version]
  /\ UNCHANGED <<model_versions, clock, mreq, contracts>>

\* Put refuses a record without a status or a type; SetStatus answers 404 for
\* an id without a row.  Nothing has been written then.
Refuse(r) ==
  /\ creq[r].stage = "new"
  /\ creq' = [creq EXCEPT ![r].stage = "failed"]
  /\ UNCHANGED <<model_versions, clock, mreq, contracts>>

----------------------------------------------------------------------------
(* Put, statement by statement.                                            *)

Resolve(r) ==
  /\ creq[r].stage = "resolve"
  /\ \E m \in LatestEnabled :
       creq' = [creq EXCEPT ![r].stage = "check", ![r].pin = <<m.key, m.version>>]
  /\ UNCHANGED <<model_versions, clock, mreq, contracts>>

NoEnabledModel(r) ==
  /\ creq[r].stage = "resolve"
  /\ LatestEnabled = {}
  /\ creq' = [creq EXCEPT ![r].stage = "failed"]
  /\ UNCHANGED <<model_versions, clock, mreq, contracts>>

ExpectationHolds_NotBehind(q) ==
  q.expected # NoVersion => Latest(contracts, q.key) >= q.expected

ExpectationHolds_NotAhead(q) ==
  q.expected # NoVersion => Latest(contracts, q.key) <= q.expected

\* SELECT COALESCE(MAX(version),0), only for a request with an expected version.
ExpectationHolds(q) ==
  q.expected # NoVersion => Latest(contracts, q.key) = q.expected

Check(r) ==
  /\ creq[r].stage = "check"
  /\ ExpectationHolds(creq[r])
  /\ creq' = [creq EXCEPT ![r].stage = "next"]
  /\ UNCHANGED <<model_versions, clock, mreq, contracts>>

Conflict(r) ==
  /\ creq[r].stage = "check"
  /\ ~ ExpectationHolds(creq[r])
  /\ creq' = [creq EXCEPT ![r].stage = "conflict"]
  /\ UNCHANGED <<model_versions, clock, mreq, contracts>>

FreshContract(k) ==
  /\ Versions(contracts, k) = {}
  /\ \A r \in Requests : creq[r].key # k

\* The snapshot of the INSERT: MAX(version)+1, or version 1 of a new contract.
NextVersion(r) ==
  /\ creq[r].stage = "next"
  /\ creq' = [creq EXCEPT ![r].stage = "insert",
                ![r].next = IF creq[r].key = NoContract THEN 1
                              ELSE Latest(contracts, creq[r].key) + 1]
  /\ UNCHANGED <<model_versions, clock, mreq, contracts>>

RowKeys_NoDefault(q) == {q.key}

\* The uuid of the row: DEFAULT gen_random_uuid() when the record has none.
RowKeys(q) == IF q.key = NoContract THEN {k \in ContractIDs : FreshContract(k)}
                                 ELSE {q.key}

Insertable_NoPrimaryKey(q, k) == HasModel(q.pin[1], q.pin[2])

Insertable_NoForeignKey(q, k) == ~ Occupied(contracts, k, q.next)

\* What the table's constraints ask of a new row of k: its primary key is free
\* and its pin is a row of model_versions (FOREIGN KEY).
Insertable(q, k) ==
  /\ ~ Occupied(contracts, k, q.next)
  /\ HasModel(q.pin[1], q.pin[2])

Insert(r) ==
  /\ creq[r].stage = "insert"
  /\ \E k \in RowKeys(creq[r]) :
       /\ Insertable(creq[r], k)
       /\ contracts' = contracts \cup
            {[key |-> k, version |-> creq[r].next, status |-> creq[r].status,
              body |-> creq[r].body, pin |-> creq[r].pin]}
       /\ creq' = [creq EXCEPT ![r].stage = "inserted", ![r].key = k]
  /\ UNCHANGED <<model_versions, clock, mreq>>

InsertRefused_Ignored(r) ==
  /\ creq[r].stage = "insert"
  /\ \E k \in RowKeys(creq[r]) : ~ Insertable(creq[r], k)
  /\ creq' = [creq EXCEPT ![r].stage = "ok"]
  /\ UNCHANGED <<model_versions, clock, mreq, contracts>>

InsertRefused_Unanswered(r) == FALSE

\* A constraint refuses the row.  It is not mapped to ErrConflict: 500.
InsertRefused(r) ==
  /\ creq[r].stage = "insert"
  /\ \E k \in RowKeys(creq[r]) : ~ Insertable(creq[r], k)
  /\ creq' = [creq EXCEPT ![r].stage = "failed"]
  /\ UNCHANGED <<model_versions, clock, mreq, contracts>>

Respond(r) ==
  /\ creq[r].stage = "inserted"
  /\ creq' = [creq EXCEPT ![r].stage = "ok"]
  /\ UNCHANGED <<model_versions, clock, mreq, contracts>>

\* As AbandonModel: the client, the process or the database connection goes away,
\* before the row was committed ("gone") or after ("lost").  A handler that is left
\* running then answers 500, in the second case with its row stored, because Put
\* cannot scan the row it inserted.
Abandon(r) ==
  /\ \/ /\ creq[r].stage \in {"resolve", "check", "next", "insert"}
        /\ creq' = [creq EXCEPT ![r].stage = "gone"]
     \/ /\ creq[r].stage = "inserted"
        /\ creq' = [creq EXCEPT ![r].stage = "lost"]
  /\ UNCHANGED <<model_versions, clock, mreq, contracts>>

PutStep(r) ==
  \/ Resolve(r) \/ NoEnabledModel(r) \/ Check(r) \/ Conflict(r)
  \/ NextVersion(r) \/ Insert(r) \/ InsertRefused(r) \/ Respond(r)

ContractRequest(r) ==
  \/ Create(r) \/ SetStatus(r) \/ Refuse(r) \/ PutStep(r) \/ Abandon(r)

Next ==
  \/ MNext /\ UNCHANGED <<contracts, creq>>
  \/ \E r \in Requests : ContractRequest(r)

\* As MFairness: a handler that has started is run.
Fairness == /\ \A r \in AdminRequests : WF_vars(ModelStep(r) /\ UNCHANGED <<contracts, creq>>)
            /\ \A r \in Requests : WF_vars(PutStep(r))

Spec == Init /\ [][Next]_vars /\ Fairness

----------------------------------------------------------------------------
(* What the table promises.                                                *)

Written == {"inserted", "ok", "lost"}

\* The rows of a contract are versions 1..n, each once, whatever the races
\* between the MAX(version) read and the INSERT of concurrent requests.
ContractHistoriesDense ==
  /\ UniqueRows(contracts)
  /\ \A k \in ContractIDs : DenseKey(contracts, k)

\* A row written under expected_version e is newer than e, so the version the
\* client named is still there below it.
PutAboveExpected ==
  \A r \in Requests :
    creq[r].stage \in Written /\ creq[r].expected # NoVersion
      => creq[r].expected < creq[r].next

\* SetStatus reads the row before Put compares the expected version.  A status
\* change that names a version that existed when it read, and is accepted, was
\* made from exactly that version.
AcceptedChangeReadExpected ==
  \A r \in Requests :
    /\ creq[r].stage \in {"next", "insert"} \cup Written
    /\ creq[r].expected # NoVersion
    /\ creq[r].expected <= creq[r].base
    => creq[r].base = creq[r].expected

\* A status change moves the contract to a newer version, with the body and the
\* model pin of the version it read, even when that is no longer the latest one: it
\* is never pinned to another model.
StatusChangeKeepsPin ==
  \A r \in Requests :
    creq[r].stage \in Written /\ creq[r].base # 0
      => /\ creq[r].base < creq[r].next
         /\ LET old == RowAt(contracts, creq[r].key, creq[r].base)
                new == RowAt(contracts, creq[r].key, creq[r].next)
            IN  new.pin = old.pin /\ new.body = old.body

\* The model version that a contract version is pinned to is a row of the table,
\* whatever pin the client named, and a pin that Put resolved itself is an enabled
\* one, although other requests write model versions between the two statements.
PinsReplayable ==
  /\ \A c \in contracts : HasModel(c.pin[1], c.pin[2])
  /\ \A r \in Requests :
       creq[r].stage \in Written /\ creq[r].given = NoPin
         => RowAt(model_versions, creq[r].pin[1], creq[r].pin[2]).status = "enabled"

PinCreated(p) == RowAt(model_versions, p[1], p[2]).created_at

\* Put never resolves a pin to a model created before one it has resolved to, although
\* created_at follows neither the order of commits nor the versions of a lineage.
\* Part of the reason is no merit: a model that is disabled stays resolvable by its
\* superseded row (DisabledModelNotResolved).
PinsMoveForward ==
  [][\A q, r \in Requests :
       /\ creq[q].given = NoPin /\ creq[q].pin # NoPin
       /\ creq[r].stage = "resolve" /\ creq'[r].stage = "check"
       => PinCreated(creq[q].pin) <= PinCreated(creq'[r].pin)]_vars

\* Every request that has started answers or is abandoned, whatever the others
\* write in between (the ids that the bound leaves to draw may run out first).
RequestsEnd ==
  \A r \in Requests :
    creq[r].stage \in {"resolve", "check"}
      ~> \/ creq[r].stage \in {"ok", "conflict", "failed", "gone", "lost"}
         \/ RowKeys(creq[r]) = {}

\* The log of a contract is what its rows say; a request is "applied" from the
\* step that commits its row.
Entry(c) == [status |-> c.status, body |-> c.body, pin |-> c.pin]

ContractEntries(k) ==
  [v \in 1 .. Latest(contracts, k) |-> Entry(RowAt(contracts, k, v))]

ContractPhase(q) ==
  CASE q.stage \in {"resolve", "check", "next", "insert"} -> "open"
    [] q.stage = "inserted" -> "applied"
    [] q.stage = "conflict" -> "failed"
    [] q.stage = "lost" -> "gone"
    [] OTHER -> q.stage

ContractAppended(q) == IF q.stage \in Written THEN <<q.key, q.next>> ELSE <<>>

ContractLogs == [k \in ContractIDs |-> ContractEntries(k)]
ContractPhases == [r \in Requests |-> ContractPhase(creq[r])]
ContractPlaces == [r \in Requests |-> ContractAppended(creq[r])]

\* The table is a log per contract: a request appends at most one version,
\* between its arrival and its answer, and never rewrites one.  A request that Put
\* or the database refuses, and that keeps its connection, has appended nothing; one
\* that lost its connection may have appended, a 500 notwithstanding.
ContractLog == INSTANCE VersionLog WITH
  Keys <- ContractIDs,
  Entries <- [status : Statuses, body : Bodies, pin : Pins],
  Requests <- Requests,
  log <- ContractLogs, phase <- ContractPhases, at <- ContractPlaces

ContractTableIsALog == ContractLog!Spec

\* The store declares the capability CapCAS ("cas"): a write under
\* expected_version e is made on top of version e.
PutOnExpected ==
  \A r \in Requests :
    creq[r].stage \in Written /\ creq[r].expected # NoVersion
      => creq[r].next = creq[r].expected + 1
=============================================================================
