----------------------------- MODULE ModelGraph -----------------------------
(***************************************************************************)
(* What a model version contains: the rows of graph_nodes, graph_edges,    *)
(* properties and contracts that are pinned to it.  They are written by    *)
(* HTTP requests and by the import of a bundle, which creates its model    *)
(* version first and then puts the rows one by one, and read table after   *)
(* table by the analyses and the export, whose file may be imported again. *)
(* No transaction spans any of it.                                         *)
(*                                                                         *)
(* The four repositories write alike (Put), so the four tables are one     *)
(* relation, rows; a key belongs to one table.  The type, ends, value or   *)
(* blob that a caller sends is told from another's by the caller only.     *)
(***************************************************************************)
EXTENDS ModelVersions, Sequences

CONSTANTS
  Nodes, Edges, Properties, ContractKeys,  \* the logical keys of the tables
  From, To,        \* the ends of an edge: no foreign key asks for the nodes
  Bundles,         \* the sets of keys a bundle file may hold
  TenantIDs,       \* the uuids a tenant may get; every bundle names one tenant
  Statuses, Types, \* the registry entries a bundle lists
  Writers,         \* the HTTP requests that put a row
  Readers,         \* the analyses and exports
  Kinds,           \* which of them are made
  MaxExpected,     \* bound: the largest expected_version a client sends
  MaxPinVersion,   \* bound: the largest model_version a client sends
  NoPin,           \* no model_id or no model_version
  NoVersion,       \* no expected_version, or one that does not parse
  NoKey, NoTenant, NoFile

Tables == <<Nodes, Edges, Properties, ContractKeys>>
Keys == Nodes \cup Edges \cup Properties \cup ContractKeys
Pins == ModelIDs \X (Nat \ {0})
Entries == Statuses \cup Types

ASSUME GraphAssumption ==
  /\ \A i, j \in 1 .. 4 : i # j => Tables[i] \cap Tables[j] = {}
  /\ From \in [Edges -> Nodes] /\ To \in [Edges -> Nodes]
  /\ Bundles \subseteq SUBSET Keys
  /\ NoKey \notin Keys /\ NoTenant \notin TenantIDs /\ NoFile \notin Readers
  /\ Statuses \cap Types = {} /\ Keys \cap Entries = {}
  /\ Kinds \subseteq {"graph", "paths", "gaps", "export", "fullexport"}
  /\ NoPin \notin ModelIDs \X (Nat \ {0})
  /\ NoVersion \notin Nat
  /\ MaxExpected \in Nat /\ MaxPinVersion \in Nat
  /\ Writers \cap AdminRequests = {}

VARIABLES
  tenants,   \* the rows of tenants that have the bundles' name
  registry,  \* <<tenant, entry>>: the rows of types and statuses
  rows,      \* the rows of the four tables
  put,       \* put[c]: the call of Put that c, a request or an import, is in
  imp,       \* imp[i]: the import that uses i to create its model version
  ana        \* ana[a]: an analysis or an export

reg == <<tenants, registry>>
gvars == <<model_versions, clock, mreq, tenants, registry, rows, put, imp, ana>>

Callers == Writers \cup AdminRequests

PutStages == {"new", "resolve", "check", "next", "insert", "inserted",
              "conflict", "failed", "gone", "lost"}

GraphRows == [key : Keys, version : Nat \ {0}, pin : Pins, blob : Callers]

PutStates == [stage : PutStages, key : Keys \cup {NoKey}, pin : Pins \cup {NoPin},
              expected : Nat \cup {NoVersion}, next : Nat]

\* bundle is what the file holds, left what of it has not been put, skip what never
\* will be: the contracts, unless the command was given --with-contracts; entries
\* are the registry entries that have not been written.
ImportStates ==
  [stage : {"new", "tenant", "create", "register", "active", "done", "stopped"},
   tenant : TenantIDs \cup {NoTenant}, entries : SUBSET Entries,
   file : Readers \cup {NoFile}, skip : {{}, ContractKeys}, pin : Pins \cup {NoPin},
   bundle : SUBSET Keys, left : SUBSET Keys]

\* at counts the statements made, read is what they returned; base is history:
\* the keys that the model version had at the beginning.
AnaStates == [stage : {"new", "read", "ok", "failed"}, kind : Kinds \cup {"none"},
              pin : Pins \cup {NoPin}, at : 0 .. 6,
              read : SUBSET (Keys \cup Entries), base : SUBSET Keys]

GTypeOK ==
  /\ MTypeOK
  /\ rows \subseteq GraphRows
  /\ put \in [Callers -> PutStates]
  /\ tenants \subseteq TenantIDs
  /\ registry \subseteq TenantIDs \X Entries
  /\ imp \in [AdminRequests -> ImportStates]
  /\ ana \in [Readers -> AnaStates]

GInit ==
  /\ MInit
  /\ tenants = {} /\ registry = {}
  /\ rows = {}
  /\ put = [c \in Callers |-> [stage |-> "new", key |-> NoKey, pin |-> NoPin,
                               expected |-> NoVersion, next |-> 0]]
  /\ imp = [i \in AdminRequests |->
             [stage |-> "new", tenant |-> NoTenant, entries |-> Entries,
              file |-> NoFile, skip |-> {}, pin |-> NoPin, bundle |-> {}, left |-> {}]]
  /\ ana = [a \in Readers |-> [stage |-> "new", kind |-> "none", pin |-> NoPin,
                               at |-> 0, read |-> {}, base |-> {}]]

----------------------------------------------------------------------------
(* The snapshot of a model version.                                        *)

Snapshot_LatestOnly(p) ==
  {x \in rows : x.pin = p /\ x.version = Latest(rows, x.key)}

\* SELECT DISTINCT ON (key) ... WHERE model ... ORDER BY version DESC: of the
\* rows pinned to p, the latest of each key.
Snapshot(p) ==
  {x \in rows : /\ x.pin = p
                /\ \A y \in rows : y.pin = p /\ y.key = x.key => y.version <= x.version}

Content(p) == {x.key : x \in Snapshot(p)}

\* The keys that were ever put into p.
Pinned(p) == {x.key : x \in {y \in rows : y.pin = p}}

----------------------------------------------------------------------------
(* Put, for a row of any of the tables.                                    *)

Call(key, pin, expected) ==
  [stage |-> IF pin = NoPin THEN "resolve" ELSE "check",
   key |-> key, pin |-> pin, expected |-> expected, next |-> 0]

\* CreateNode, UpdateNode, CreateEdge, UpdateEdge, PUT of a property and POST of
\* a contract.  Only UpdateNode and the property pass an expected version; an id
\* the database draws is a key that nobody else uses.
Write(w) ==
  /\ put[w].stage = "new" /\ tenants # {}
  /\ \E k \in Keys, p \in (ModelIDs \X (1 .. MaxPinVersion)) \cup {NoPin},
        e \in (0 .. MaxExpected) \cup {NoVersion} :
       /\ k \in Edges \cup ContractKeys => e = NoVersion
       /\ put' = [put EXCEPT ![w] = Call(k, p, e)]
  /\ UNCHANGED <<model_versions, clock, mreq, reg, rows, imp, ana>>

PutResolve(c) ==
  /\ put[c].stage = "resolve"
  /\ \/ \E m \in LatestEnabled :
          put' = [put EXCEPT ![c].stage = "check", ![c].pin = <<m.key, m.version>>]
     \/ /\ LatestEnabled = {}
        /\ put' = [put EXCEPT ![c].stage = "failed"]
  /\ UNCHANGED <<model_versions, clock, mreq, reg, rows, imp, ana>>

PutCheck(c) ==
  /\ put[c].stage = "check"
  /\ put' = [put EXCEPT ![c].stage =
              IF put[c].expected \in {NoVersion, Latest(rows, put[c].key)}
                THEN "next" ELSE "conflict"]
  /\ UNCHANGED <<model_versions, clock, mreq, reg, rows, imp, ana>>

\* The snapshot of the INSERT ... SELECT MAX(version)+1.
PutNext(c) ==
  /\ put[c].stage = "next"
  /\ put' = [put EXCEPT ![c].stage = "insert", ![c].next = Latest(rows, put[c].key) + 1]
  /\ UNCHANGED <<model_versions, clock, mreq, reg, rows, imp, ana>>

RowAllowed_NoPrimaryKey(q) == HasModel(q.pin[1], q.pin[2])

\* The primary key of the table and the foreign key to model_versions.
RowAllowed(q) ==
  /\ ~ Occupied(rows, q.key, q.next)
  /\ HasModel(q.pin[1], q.pin[2])

PutInsert(c) ==
  /\ put[c].stage = "insert"
  /\ IF RowAllowed(put[c])
       THEN /\ rows' = rows \cup {[key |-> put[c].key, version |-> put[c].next,
                                   pin |-> put[c].pin, blob |-> c]}
            /\ put' = [put EXCEPT ![c].stage = "inserted"]
       ELSE /\ put' = [put EXCEPT ![c].stage = "failed"]
            /\ UNCHANGED rows
  /\ UNCHANGED <<model_versions, clock, mreq, reg, imp, ana>>

\* The statement is cancelled or its connection lost, before the commit or after.
PutAbandon(c) ==
  /\ \/ /\ put[c].stage \in {"resolve", "check", "next", "insert"}
        /\ put' = [put EXCEPT ![c].stage = "gone"]
     \/ /\ put[c].stage = "inserted"
        /\ c \in AdminRequests => imp[c].stage = "active"
        /\ put' = [put EXCEPT ![c].stage = "lost"]
  /\ UNCHANGED <<model_versions, clock, mreq, reg, rows, imp, ana>>

PutStep(c) == PutResolve(c) \/ PutCheck(c) \/ PutNext(c) \/ PutInsert(c)

----------------------------------------------------------------------------
(* ImportBundle.                                                           *)

Exported(a) == ana[a].stage = "ok" /\ ana[a].kind \in {"export", "fullexport"}

\* The file is read and parsed: one written by hand, or by an export.
ImportStart(i) ==
  /\ imp[i].stage = "new" /\ mreq[i].stage = "new"
  /\ \E s \in {{}, ContractKeys} :
       \/ \E b \in Bundles :
            imp' = [imp EXCEPT ![i].stage = "tenant", ![i].skip = s,
                               ![i].bundle = b, ![i].left = b]
       \/ \E a \in Readers :
            /\ Exported(a)
            /\ imp' = [imp EXCEPT ![i].stage = "tenant", ![i].skip = s, ![i].file = a,
                                  ![i].entries = ana[a].read \cap Entries,
                                  ![i].bundle = ana[a].read \cap Keys,
                                  ![i].left = ana[a].read \cap Keys]
  /\ UNCHANGED <<model_versions, clock, mreq, reg, rows, put, ana>>

\* GetByName; whatever its error is, Create is tried.
ImportTenant(i) ==
  /\ imp[i].stage = "tenant"
  /\ \/ \E t \in tenants : imp' = [imp EXCEPT ![i].stage = "register", ![i].tenant = t]
     \/ imp' = [imp EXCEPT ![i].stage = "create"]
  /\ UNCHANGED <<model_versions, clock, mreq, reg, rows, put, ana>>

TenantCreated_NoConflictClause == TenantIDs \ tenants

\* INSERT ... ON CONFLICT (name) DO UPDATE ... RETURNING id: the row there is,
\* or a new one.
TenantCreated == IF tenants = {} THEN TenantIDs ELSE tenants

ImportCreateTenant(i) ==
  /\ imp[i].stage = "create"
  /\ \E t \in TenantCreated :
       /\ tenants' = tenants \cup {t}
       /\ imp' = [imp EXCEPT ![i].stage = "register", ![i].tenant = t]
  /\ UNCHANGED <<model_versions, clock, mreq, registry, rows, put, ana>>

\* The statuses and then the types, each ON CONFLICT DO UPDATE.
ImportRegister(i) ==
  /\ imp[i].stage = "register"
  /\ \E x \in IF imp[i].entries \cap Statuses # {} THEN imp[i].entries \cap Statuses
                                                   ELSE imp[i].entries :
       /\ registry' = registry \cup {<<imp[i].tenant, x>>}
       /\ imp' = [imp EXCEPT ![i].entries = @ \ {x}]
  /\ UNCHANGED <<model_versions, clock, mreq, tenants, rows, put, ana>>

\* Then the model version is created, as POST /model_versions would: "enabled"
\* with --enable or if the bundle says so, else what the bundle says or "draft".
ImportModel(i) ==
  /\ imp[i].stage = "register" /\ imp[i].entries = {}
  /\ imp' = [imp EXCEPT ![i].stage = "active"]
  /\ CreateModel(i)
  /\ UNCHANGED <<reg, rows, put, ana>>

ImportPin_Unset(i) == NoPin

\* The version that Create returned; the one named in the bundle is not used.
ImportPin(i) == <<mreq[i].key, mreq[i].next>>

ImportReady(i) ==
  /\ imp[i].stage = "active" /\ mreq[i].stage = "ok"
  /\ put[i].stage \in {"new", "inserted"}

Due_AsListed(i) == imp[i].left

\* What is still to be put, and what was to be put at the beginning.
Due(i) == imp[i].left \ imp[i].skip

Wanted(i) == imp[i].bundle \ imp[i].skip

NextItems_EdgesFirst(i) == IF Due(i) \cap Edges # {} THEN Due(i) \cap Edges ELSE Due(i)

\* First the nodes, then the edges, the properties and the contracts; the order
\* within a list is the bundle's.
NextItems(i) ==
  LET first == CHOOSE t \in 1 .. 4 :
                 /\ Due(i) \cap Tables[t] # {}
                 /\ \A u \in 1 .. (t - 1) : Due(i) \cap Tables[u] = {}
  IN  Due(i) \cap Tables[first]

ImportPut(i) ==
  /\ ImportReady(i)
  /\ Due(i) # {}
  /\ \E k \in NextItems(i) :
       /\ put' = [put EXCEPT ![i] = Call(k, ImportPin(i), NoVersion)]
       /\ imp' = [imp EXCEPT ![i].left = @ \ {k}, ![i].pin = <<mreq[i].key, mreq[i].next>>]
  /\ UNCHANGED <<model_versions, clock, mreq, reg, rows, ana>>

ImportDone(i) ==
  /\ ImportReady(i)
  /\ Due(i) = {}
  /\ imp' = [imp EXCEPT ![i].stage = "done"]
  /\ UNCHANGED <<model_versions, clock, mreq, reg, rows, put, ana>>

ImportError_Unhandled(i) == FALSE

\* The first error ends the import; nothing that was written is undone.
ImportError(i) ==
  /\ imp[i].stage = "active"
  /\ \/ mreq[i].stage \in {"failed", "gone", "lost"}
     \/ put[i].stage \in {"conflict", "failed", "gone", "lost"}
  /\ imp' = [imp EXCEPT ![i].stage = "stopped"]
  /\ UNCHANGED <<model_versions, clock, mreq, reg, rows, put, ana>>

\* The process is killed, or a statement on tenants, statuses or types fails
\* (for the later ones see the two Abandon actions).
ImportCrash(i) ==
  /\ ImportReady(i) \/ imp[i].stage \in {"tenant", "create", "register"}
  /\ imp' = [imp EXCEPT ![i].stage = "stopped"]
  /\ UNCHANGED <<model_versions, clock, mreq, reg, rows, put, ana>>

ImportStep(i) ==
  \/ ImportTenant(i) \/ ImportCreateTenant(i) \/ ImportRegister(i) \/ ImportModel(i)
  \/ ImportPut(i) \/ ImportDone(i) \/ ImportError(i)

----------------------------------------------------------------------------
(* The analyses and the export.                                            *)

\* GetLatestEnabled; no enabled model is a 404.
Analyse(a) ==
  /\ ana[a].stage = "new"
  /\ \E kind \in Kinds :
       \/ \E m \in LatestEnabled :
            ana' = [ana EXCEPT ![a].stage = "read", ![a].kind = kind,
                               ![a].pin = <<m.key, m.version>>,
                               ![a].base = Pinned(<<m.key, m.version>>)]
       \/ /\ LatestEnabled = {}
          /\ ana' = [ana EXCEPT ![a].stage = "failed", ![a].kind = kind]
  /\ UNCHANGED <<model_versions, clock, mreq, reg, rows, put, imp>>

loadGraph_EdgesFirst == <<Edges, Nodes>>

\* The tables each of them reads, one statement after the other.
loadGraph == <<Nodes, Edges>>

PathsReads == <<Nodes, Edges>>

detectGaps == <<Nodes, Edges, Properties>>

ExportReads == <<Types, Statuses, Nodes, Edges, Properties>>

\* With --with-contracts (their reasons and obligations are read too).
FullExportReads == <<Types, Statuses, Nodes, Edges, Properties, ContractKeys>>

ReadOrder(kind) ==
  CASE kind = "graph"      -> loadGraph
    [] kind = "paths"      -> PathsReads
    [] kind = "gaps"       -> detectGaps
    [] kind = "export"     -> ExportReads
    [] kind = "fullexport" -> FullExportReads

Registered == {x \in Entries : \E t \in tenants : <<t, x>> \in registry}

\* The statement that a is about to make, and the rows it returns.
NextTable(a) == ReadOrder(ana[a].kind)[ana[a].at + 1]

RowsRead(a) == (Content(ana[a].pin) \cup Registered) \cap NextTable(a)

Reading(a) == ana[a].stage = "read" /\ ana[a].at < Len(ReadOrder(ana[a].kind))

AnaRead(a) ==
  /\ Reading(a)
  /\ ana' = [ana EXCEPT ![a].at = @ + 1, ![a].read = @ \cup RowsRead(a)]
  /\ UNCHANGED <<model_versions, clock, mreq, reg, rows, put, imp>>

RowsErrChecked_NotInGaps(kind, table) == kind # "gaps"

\* rows.Err is looked at after every loop but that over the properties in Gaps.
RowsErrChecked(kind, table) == ~ (kind = "gaps" /\ table = Properties)

\* The connection is lost while the rows come in: an error, or the rows that came.
AnaReadCut(a) ==
  /\ Reading(a)
  /\ IF RowsErrChecked(ana[a].kind, NextTable(a))
       THEN ana' = [ana EXCEPT ![a].stage = "failed"]
       ELSE \E part \in SUBSET RowsRead(a) :
              ana' = [ana EXCEPT ![a].at = @ + 1, ![a].read = @ \cup part]
  /\ UNCHANGED <<model_versions, clock, mreq, reg, rows, put, imp>>

Ends(e) == {From[e], To[e]}

ClosedGraph(ks) == \A e \in ks \cap Edges : Ends(e) \subseteq ks

\* AddEdge fails on an edge whose node is not a vertex; the gaps and the export
\* build no graph.
GraphBuilds(a) == ana[a].kind \in {"graph", "paths"} => ClosedGraph(ana[a].read)

AnaAnswer_OnlyBuilt(a) ==
  /\ ana[a].stage = "read"
  /\ ana[a].at = Len(ReadOrder(ana[a].kind))
  /\ GraphBuilds(a)
  /\ ana' = [ana EXCEPT ![a].stage = "ok"]
  /\ UNCHANGED <<model_versions, clock, mreq, reg, rows, put, imp>>

\* The analysis of a graph that does not build is answered with a 500.
AnaAnswer(a) ==
  /\ ana[a].stage = "read"
  /\ ana[a].at = Len(ReadOrder(ana[a].kind))
  /\ ana' = [ana EXCEPT ![a].stage = IF GraphBuilds(a) THEN "ok" ELSE "failed"]
  /\ UNCHANGED <<model_versions, clock, mreq, reg, rows, put, imp>>

----------------------------------------------------------------------------

HTTPModelRequest(r) ==
  /\ imp[r].stage = "new" /\ tenants # {}
  /\ CreateModel(r) \/ SetModelStatus(r) \/ SetModelStatusNotFound(r)

ModelNext ==
  /\ Tick \/ \E r \in AdminRequests :
       HTTPModelRequest(r) \/ ModelStep(r) \/ AbandonModel(r)
  /\ UNCHANGED <<reg, rows, put, imp, ana>>

GNext ==
  \/ ModelNext
  \/ \E w \in Writers : Write(w)
  \/ \E c \in Callers : PutStep(c) \/ PutAbandon(c)
  \/ \E i \in AdminRequests : ImportStart(i) \/ ImportStep(i) \/ ImportCrash(i)
  \/ \E a \in Readers : Analyse(a) \/ AnaRead(a) \/ AnaReadCut(a) \/ AnaAnswer(a)

\* The server runs its handlers, the command its import; nobody else has to.
GFairness ==
  /\ \A r \in AdminRequests :
       /\ WF_gvars(ModelStep(r) /\ UNCHANGED <<reg, rows, put, imp, ana>>)
       /\ WF_gvars(ImportStep(r))
  /\ \A c \in Callers : WF_gvars(PutStep(c))
  /\ \A a \in Readers : WF_gvars(AnaRead(a) \/ AnaAnswer(a))

GSpec == GInit /\ [][GNext]_gvars /\ GFairness

----------------------------------------------------------------------------
(* What a snapshot promises.                                               *)

\* As for contracts: whatever imports and requests race on a key, its rows are
\* versions 1..n, each once.
RowHistoriesDense ==
  /\ UniqueRows(rows)
  /\ \A k \in Keys : DenseKey(rows, k)

\* A key never leaves the snapshot of a model version it was written to: the
\* newer version of a node under another model hides it from GetNode, not from
\* the analyses of the first model.
SnapshotsGrow ==
  [][\A p \in {x.pin : x \in rows} : Content(p) \subseteq Content(p)']_gvars

\* Two imports never write into the same model version, not even when both
\* continue the same lineage at the same time.
ImportsKeepApart ==
  \A i, j \in AdminRequests :
    i # j /\ imp[i].pin # NoPin /\ imp[j].pin # NoPin => imp[i].pin # imp[j].pin

\* The keys that an import has put.
PutBy(i) == {x.key : x \in {y \in rows : y.blob = i}}

\* An import that reports success has put, into the snapshot of its model version
\* where it still is, every item its bundle lists and its options ask for, and
\* nothing else: without --with-contracts the contracts of the file are skipped,
\* with it none is.
ImportComplete ==
  \A i \in AdminRequests :
    imp[i].stage = "done" => PutBy(i) = Wanted(i) /\ Wanted(i) \subseteq Content(imp[i].pin)

\* Wherever an import of a closed bundle is, or stops: an edge it has put, or is
\* putting, has both its nodes in the snapshot.  So an import that dies halfway
\* leaves a graph that the analyses can build.
ImportedPrefixClosed ==
  \A i \in AdminRequests :
    ClosedGraph(imp[i].bundle) =>
      \A e \in (imp[i].bundle \ imp[i].left) \cap Edges : Ends(e) \subseteq Content(imp[i].pin)

\* A row that an import puts changes the snapshot of its own model version only:
\* decisions pinned to another version still replay with what they saw.
ImportTouchesOwnModel ==
  [][\A i \in AdminRequests :
       put[i].stage = "insert" /\ put'[i].stage = "inserted" =>
         \A p \in {x.pin : x \in rows} \ {imp[i].pin} : Snapshot(p)' = Snapshot(p)]_gvars

\* What the bundle of an import lists.
Listed(i) == IF imp[i].file = NoFile THEN Entries ELSE ana[imp[i].file].read \cap Entries

\* Imports for one tenant name fill one tenant, also when all of them found none;
\* and the model version of an import exists only when whatever its bundle lists
\* is registered there.
ImportsShareTenant ==
  /\ \A i, j \in AdminRequests :
       NoTenant \notin {imp[i].tenant, imp[j].tenant} => imp[i].tenant = imp[j].tenant
  /\ \A i \in AdminRequests :
       imp[i].stage \notin {"new", "stopped"} /\ mreq[i].stage \in {"inserted", "ok", "lost"} =>
         \A x \in Listed(i) : <<imp[i].tenant, x>> \in registry

\* What a restore by import i from the file of a was told to carry over: contracts
\* take the option on both commands.
Carried(i, a) ==
  IF imp[i].skip = {} /\ ana[a].kind = "fullexport" THEN Keys ELSE Keys \ ContractKeys

\* An export that is imported again: the import has put every key the exported
\* model version had when the export began, and no key it never had, though the
\* export reads table after table while rows are put, and though the restored
\* rows are newer versions of the same keys.  The contracts are among them only
\* when both commands were given --with-contracts.  (Keys, not values: a value
\* that is not a JSON object comes back as null.)
RestoreComplete ==
  \A i \in AdminRequests :
    imp[i].stage = "done" /\ imp[i].file # NoFile =>
      LET a == imp[i].file
      IN  /\ ana[a].base \cap Carried(i, a) \subseteq PutBy(i)
          /\ PutBy(i) \subseteq Content(ana[a].pin)

\* An analysis that answers has worked with every node and every edge that its
\* model version had when it began, whatever is put meanwhile and wherever a
\* connection is lost while rows come in: that is an error, not a smaller graph.
AnswersComplete ==
  \A a \in Readers :
    ana[a].stage = "ok" => ana[a].base \cap (Nodes \cup Edges) \subseteq ana[a].read

IsolatedIn(n, ks) == n \in ks /\ \A e \in ks \cap Edges : n \notin Ends(e)

\* The later one of the statements that read the nodes and the edges comes next.
ReadsTheOther(a) ==
  \E i \in 1 .. ana[a].at : {ReadOrder(ana[a].kind)[i], NextTable(a)} = {Nodes, Edges}

\* The nodes and the edges are read in two statements.  A node the frontier
\* analysis is going to report as isolated, or whose providers Gaps is going to
\* miss, has no edge at the time the later statement is made.
IsolatedWhenRead ==
  [][\A a \in Readers :
       Reading(a) /\ ana'[a].at # ana[a].at /\ ReadsTheOther(a) =>
         \A n \in Nodes : IsolatedIn(n, ana'[a].read) => IsolatedIn(n, Content(ana[a].pin))]_gvars

\* Every import that has started comes to an end, and every analysis answers.
ImportsEnd == \A i \in AdminRequests :
                imp[i].stage = "tenant" ~> imp[i].stage \in {"done", "stopped"}

AnalysesEnd == \A a \in Readers :
                 ana[a].stage = "read" ~> ana[a].stage \in {"ok", "failed"}

\* A call of Put is named by its caller and its key: an import makes one for each
\* item.  When the import goes on, the call before remains "applied".
Calls == Callers \X Keys

RowsOf(c, k) == {x \in rows : x.blob = c /\ x.key = k}

RowPhase(c, k) ==
  CASE put[c].key # k -> IF RowsOf(c, k) = {} THEN "new" ELSE "applied"
    [] put[c].key = k /\ put[c].stage = "inserted" -> "applied"
    [] put[c].key = k /\ put[c].stage \in {"conflict", "failed"} -> "failed"
    [] put[c].key = k /\ put[c].stage \in {"gone", "lost"} -> "gone"
    [] OTHER -> "open"

RowPlace(c, k) ==
  IF RowsOf(c, k) = {} THEN <<>> ELSE <<k, (CHOOSE x \in RowsOf(c, k) : TRUE).version>>

RowEntry(x) == [pin |-> x.pin, blob |-> x.blob]

RowEntries(k) == [v \in 1 .. Latest(rows, k) |-> RowEntry(RowAt(rows, k, v))]

RowLogs == [k \in Keys |-> RowEntries(k)]
RowPhases == [r \in Calls |-> RowPhase(r[1], r[2])]
RowPlaces == [r \in Calls |-> RowPlace(r[1], r[2])]

RowLog == INSTANCE VersionLog WITH
  Keys <- Keys,
  Entries <- [pin : Pins, blob : Callers],
  Requests <- Calls,
  log <- RowLogs, phase <- RowPhases, at <- RowPlaces

\* Each of the four tables is a log per key.  Whatever imports and requests race
\* on it, a call of Put appends one version of its key or none, an import one for
\* each item, nothing is rewritten, and a call that returned an error without
\* losing its answer has appended nothing.
RowTableIsALog == RowLog!Spec

\* resolution/types.go:5 "a specific, replayable model snapshot": what an enabled
\* model version contains does not change any more.
EnabledSnapshotsFixed ==
  [][\A m \in Enabled : Snapshot(<<m.key, m.version>>)' = Snapshot(<<m.key, m.version>>)]_gvars
=============================================================================
