--------------------------- MODULE ModelVersions ---------------------------
(***************************************************************************)
(* The model_versions table and the requests that write it:                *)
(* POST /model_versions (Create) and PATCH .../status (SetStatus), which   *)
(* re-creates the row it read with another status.  There is no            *)
(* transaction: each SQL statement commits by itself, so a request is a    *)
(* sequence of steps between which the other requests run.  The INSERT is  *)
(* three steps, because now() is fixed when its implicit transaction       *)
(* starts, MAX(version) is read in the snapshot it takes next, and the     *)
(* primary key is checked when the row is written.                         *)
(*                                                                         *)
(* A request identifier is used once, so mreq is also the history.         *)
(***************************************************************************)
EXTENDS VersionedRows

CONSTANTS
  ModelIDs,        \* lineages: the uuids a client sends or the database draws
  ModelStatuses,   \* model_versions.status is free TEXT: any value is stored
  AdminRequests,   \* the requests on /model_versions that are ever made
  MaxClock,        \* bound: the clock stops here
  NoModel          \* model_id "": the database draws a fresh uuid

ASSUME ModelAssumption ==
  /\ {"draft", "enabled"} \subseteq ModelStatuses
  /\ NoModel \notin ModelIDs
  /\ MaxClock \in Nat

VARIABLES
  model_versions,  \* the rows of the table
  clock,           \* the database clock, as created_at shows it
  mreq             \* mreq[r]: the handler of admin request r

mvars == <<model_versions, clock, mreq>>

\* Operators with a suffix after "_" are faulty variants of the definition that
\* follows them; they are not part of the specification.

OrDraft_NoDefault(s) == s

\* status "" is read as "draft".
OrDraft(s) == IF s = "" THEN "draft" ELSE s

ModelRows == [key : ModelIDs, version : Nat \ {0}, status : ModelStatuses,
              created_at : Nat]

AdminStages == {"new", "create", "started", "insert", "inserted",
                "ok", "failed", "gone", "lost"}

AdminStates == [stage : AdminStages, key : ModelIDs \cup {NoModel},
                status : ModelStatuses, created_at : Nat, next : Nat]

MTypeOK ==
  /\ model_versions \subseteq ModelRows
  /\ clock \in Nat
  /\ mreq \in [AdminRequests -> AdminStates]

MInit ==
  /\ model_versions = {}
  /\ clock = 0
  /\ mreq = [r \in AdminRequests |->
              [stage |-> "new", key |-> NoModel, status |-> "draft",
               created_at |-> 0, next |-> 0]]

----------------------------------------------------------------------------
(* Reads.                                                                  *)

Enabled == {m \in model_versions : m.status = "enabled"}

LatestEnabled_Unordered == Enabled

\* WHERE status = 'enabled' ORDER BY created_at DESC LIMIT 1: on a tie the
\* database returns any of them.
LatestEnabled == {m \in Enabled : \A n \in Enabled : n.created_at <= m.created_at}

HasModel(k, v) == Occupied(model_versions, k, v)

ModelVersionFree_NoPrimaryKey(k, v) == TRUE

\* PRIMARY KEY (tenant_id, model_id, version).
ModelVersionFree(k, v) == ~ HasModel(k, v)

\* A uuid the database draws is one that no row and no request has.
FreshModel(k) ==
  /\ Versions(model_versions, k) = {}
  /\ \A r \in AdminRequests : mreq[r].key # k

----------------------------------------------------------------------------
(* The handlers.                                                           *)

CreateModel(r) ==
  /\ mreq[r].stage = "new"
  /\ \E k \in ModelIDs \cup {NoModel}, s \in ModelStatuses \cup {""} :
       mreq' = [mreq EXCEPT ![r].stage = "create", ![r].key = k,
                            ![r].status = OrDraft(s)]
  /\ UNCHANGED <<model_versions, clock>>

\* SetStatus: Get of the exact version, a 404 when there is none; the row read
\* goes on to Create with the status of the body.
SetModelStatus(r) ==
  /\ mreq[r].stage = "new"
  /\ \E m \in model_versions, s \in ModelStatuses \cup {""} :
       mreq' = [mreq EXCEPT ![r].stage = "create", ![r].key = m.key,
                            ![r].status = OrDraft(s)]
  /\ UNCHANGED <<model_versions, clock>>

\* A client can always name a version that does not exist.
SetModelStatusNotFound(r) ==
  /\ mreq[r].stage = "new"
  /\ mreq' = [mreq EXCEPT ![r].stage = "failed"]
  /\ UNCHANGED <<model_versions, clock>>

\* The transaction of the INSERT starts: created_at DEFAULT now().
StartInsert(r) ==
  /\ mreq[r].stage = "create"
  /\ mreq' = [mreq EXCEPT ![r].stage = "started", ![r].created_at = clock]
  /\ UNCHANGED <<model_versions, clock>>

\* The statement takes its snapshot: WITH next AS (SELECT MAX(version)+1), or
\* version 1 of a new lineage.
NextModelVersion(r) ==
  /\ mreq[r].stage = "started"
  /\ mreq' = [mreq EXCEPT ![r].stage = "insert",
                ![r].next = IF mreq[r].key = NoModel THEN 1
                              ELSE Latest(model_versions, mreq[r].key) + 1]
  /\ UNCHANGED <<model_versions, clock>>

\* The uuid of the row: DEFAULT gen_random_uuid() when the request has none.
ModelKeys(q) == IF q.key = NoModel THEN {k \in ModelIDs : FreshModel(k)} ELSE {q.key}

\* The row is written and committed, unless a concurrent INSERT has taken the
\* version: then the primary key refuses it and the answer is a 500.
InsertModel(r) ==
  /\ mreq[r].stage = "insert"
  /\ \E k \in ModelKeys(mreq[r]) :
       /\ ModelVersionFree(k, mreq[r].next)
       /\ model_versions' = model_versions \cup
            {[key |-> k, version |-> mreq[r].next, status |-> mreq[r].status,
              created_at |-> mreq[r].created_at]}
       /\ mreq' = [mreq EXCEPT ![r].stage = "inserted", ![r].key = k]
  /\ UNCHANGED clock

InsertModelRefused_Ignored(r) ==
  /\ mreq[r].stage = "insert"
  /\ \E k \in ModelKeys(mreq[r]) : ~ ModelVersionFree(k, mreq[r].next)
  /\ mreq' = [mreq EXCEPT ![r].stage = "ok"]
  /\ UNCHANGED <<model_versions, clock>>

InsertModelRefused(r) ==
  /\ mreq[r].stage = "insert"
  /\ \E k \in ModelKeys(mreq[r]) : ~ ModelVersionFree(k, mreq[r].next)
  /\ mreq' = [mreq EXCEPT ![r].stage = "failed"]
  /\ UNCHANGED <<model_versions, clock>>

RespondModel(r) ==
  /\ mreq[r].stage = "inserted"
  /\ mreq' = [mreq EXCEPT ![r].stage = "ok"]
  /\ UNCHANGED <<model_versions, clock>>

\* The client goes away, the server stops or the connection to the database
\* breaks, before the row was committed ("gone") or after ("lost").  Nobody is
\* answered, or it is a 500: the Scan of the RETURNING row fails on a broken
\* connection though the row is stored.  The client cannot tell the two apart.
AbandonModel(r) ==
  /\ \/ /\ mreq[r].stage \in {"create", "started", "insert"}
        /\ mreq' = [mreq EXCEPT ![r].stage = "gone"]
     \/ /\ mreq[r].stage = "inserted"
        /\ mreq' = [mreq EXCEPT ![r].stage = "lost"]
  /\ UNCHANGED <<model_versions, clock>>

\* The clock does not go back; two statements may see the same time.
Tick ==
  /\ clock < MaxClock
  /\ clock' = clock + 1
  /\ UNCHANGED <<model_versions, mreq>>

ModelStep(r) ==
  \/ StartInsert(r) \/ NextModelVersion(r) \/ InsertModel(r)
  \/ InsertModelRefused(r) \/ RespondModel(r)

ModelRequest(r) ==
  \/ CreateModel(r) \/ SetModelStatus(r) \/ SetModelStatusNotFound(r)
  \/ ModelStep(r) \/ AbandonModel(r)

MNext == Tick \/ \E r \in AdminRequests : ModelRequest(r)

\* The server runs each handler it has started; clients, the clock and
\* failures are not obliged to do anything.
MFairness == \A r \in AdminRequests : WF_mvars(ModelStep(r))

MSpec == MInit /\ [][MNext]_mvars /\ MFairness

----------------------------------------------------------------------------
(* What the table promises.                                                *)

\* The rows of a lineage are versions 1..n, each once, whatever the races
\* between the MAX(version) read and the INSERT of concurrent requests.
ModelHistoriesDense ==
  /\ UniqueRows(model_versions)
  /\ \A k \in ModelIDs : DenseKey(model_versions, k)

\* README.md:12 "reads fetch MAX(version)": the model that unpinned writes resolve
\* to is not a lineage whose newest version says that it is disabled.
DisabledModelNotResolved ==
  \A m \in LatestEnabled :
    RowAt(model_versions, m.key, Latest(model_versions, m.key)).status # "disabled"

\* The log of a lineage is the statuses of its rows; a request is "applied" from
\* the step that commits its row.
ModelEntries(k) ==
  [v \in 1 .. Latest(model_versions, k) |-> RowAt(model_versions, k, v).status]

ModelPhase(q) ==
  CASE q.stage \in {"create", "started", "insert"} -> "open"
    [] q.stage = "inserted" -> "applied"
    [] q.stage = "lost" -> "gone"
    [] OTHER -> q.stage

ModelAppended(q) ==
  IF q.stage \in {"inserted", "ok", "lost"} THEN <<q.key, q.next>> ELSE <<>>

ModelLogs == [k \in ModelIDs |-> ModelEntries(k)]
ModelPhases == [r \in AdminRequests |-> ModelPhase(mreq[r])]
ModelPlaces == [r \in AdminRequests |-> ModelAppended(mreq[r])]

\* The table is a log per lineage: Create and SetStatus append at most one
\* version each, between their arrival and their answer, never rewrite one, and
\* a request that is refused (403, 404, the 500 of a taken version or a closed
\* pool) has appended nothing.  One that has lost its connection, to the database
\* or to the client, may have appended its version, a 500 notwithstanding.
ModelLog == INSTANCE VersionLog WITH
  Keys <- ModelIDs, Entries <- ModelStatuses, Requests <- AdminRequests,
  log <- ModelLogs, phase <- ModelPhases, at <- ModelPlaces

ModelTableIsALog == ModelLog!Spec

=============================================================================
