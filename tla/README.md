# Contrato in TLA+

A verification development for the Contrato service (`src/` of the repository):
TLA+ modules that model its core, TLC configurations that check them on small
instances, and theorems that TLAPS checks for every value of the constants.

Contrato keeps, per tenant, versioned **models** (graphs of actors,
capabilities, policies and the edges between them) and **contracts** (requests
for a decision) that are *pinned* to a model version, so that a decision can be
replayed. It is a Go HTTP service and a CLI over one PostgreSQL database. What
makes it hard is that no handler uses a transaction: a request is a sequence of
SQL statements, each of which commits by itself, and the rows of every other
request, import or process fall in between. The schema's keys, not the code, are
what holds concurrent writers apart. Most of this development is about what is
left of the promises of the code and the docs under those conditions.

Line numbers below are those of the repository, with paths under `src/`.

## 1. Inventory

| Component (sources) | State | Operations | Interacts with | What makes it correct |
|---|---|---|---|---|
| **Model versions** (`internal/storage/sqlstore/model_versions_repo.go`, `.../handlers/model_versions.go`) | table `model_versions`: (lineage, version) → status, created_at | POST (Create), PATCH status (Get, then Create), GetLatestEnabled, Get | everything below resolves or refers to its rows | each lineage is a dense append-only history; a request appends at most once, and one that is refused appended nothing; a disabled model is not resolved (it is) |
| **Contracts** (`contracts_repo.go`, `.../handlers/contracts.go`) | table `contracts`: (id, version) → status, body, pin | POST (Create), PATCH status (Get, then Put) | Put resolves the pin in `model_versions`, the row refers to it | dense histories; `expected_version` protects from lost updates as far as it does; every version is pinned to a model that exists; a status change keeps the pin |
| **Graph and property tables** (`graph_repo.go`, `properties_repo.go`, `.../handlers/graph.go`, `.../handlers/properties.go`) | `graph_nodes`, `graph_edges`, `properties`: (key, version) → pin, blob | the Put of each, the queries by model version | written by HTTP and by imports, read by analyses and exports | dense histories under races; a key never leaves the snapshot of a model version |
| **Bundle import** (`internal/modelio/io.go`, `tenants_repo.go`, `types_repo.go`, `statuses_repo.go`) | none of its own: a tenant, registry entries, one `model_versions` row, then one row per item | `ImportBundle` | runs in a process of its own beside the server; writes every table | imports share the tenant and keep their models apart, a partial import leaves a readable graph, success means that what was asked for is there |
| **Bundle export** (`io.go`) | the file | `ExportLatestEnabled` | reads six tables, one statement each; its file is imported elsewhere or again | what was in the model when it began comes back (the contracts if both commands are told so), and nothing else |
| **Frontier analyses** (`.../handlers/frontier/analysis.go`) | — | Holes, Boundary, ImpliedEdges | read nodes, then edges, of the latest enabled model | the edges do not lag the nodes; an answer rests on all of them; the suggestions are exactly what is implied |
| **Waypoint analyses** (`.../handlers/waypoint/analysis.go`) | — | Gaps, Paths | as above, and the properties | agree with Frontier and the linter |
| **Linter** (`internal/modelio/lint.go`) | — | `LintBundle` in modes `bootstrap` and `enabled_model` | run by the CLI before an import | what lints clean has none of the holes it claims to exclude |
| **Policy evaluation** (`internal/opa/eval.go`) | the running decision | `Eval`, `mergeDecision` | takes a `resolution.Result` | a deny wins, no decision from half of the policies |
| **Objects** (`objects_repo.go`) | table `objects`: (node, version), not a key → payload or URL, expiry | Put, GetByNodeID, DeleteByNodeID; TTL, If-Match, expected version | no route reaches it: whoever holds the store | no gaps, and reads that do not go back, as long as nobody deletes |
| **Registries** (tenants, types, statuses repositories) | natural-key tables | idempotent upserts | written by imports, read by exports | one tenant per name; what a bundle lists is there before its model is |
| **Store, transactions** (`store.go`, `tx.go`) | pool, optional `*sql.Tx` | repositories, `BeginTx` | `BeginTx` is used for one read (ListNodes), `Commit` by nobody | that writers use no transaction is the premise of every module |
| **Server** (`cmd/contrato/main.go`, `internal/app`) | main goroutine, listener goroutine, pool | configuration check, start, signal, 5 s shutdown, close of the pool | runs the handlers and cuts them off | the handlers are drained or the deadline is over; a signal ends the process; what was committed survives |
| **Routing, authn, authz, config** (`httpapi/server.go`, `middleware.go`, no-op providers, `config.go`) | the configuration | `withAuth`, `FromEnv` | in front of every handler | nothing is served under "allow everything" outside dev |
| **Resolution types** | — | declarations; the routes answer 501 | | *not modelled* |

The behaviours that are hard to test, each at its line, with the property that is
about it, are the `hazards` of `PROJECT.json`. They fall into nine groups:

1. **Read-then-insert races.** `MAX(version)+1` and the row it is for are one
   statement, but under READ COMMITTED two of them may compute the same version;
   the primary key then refuses one (`ContractHistoriesDense`,
   `ModelHistoriesDense`, and the refinements of the three).
2. **Check-then-act across statements.** `expected_version` is compared in one
   statement and used in none; SetStatus writes back what it read; the pin is
   resolved before the row is written (`PutAboveExpected`,
   `AcceptedChangeReadExpected`, `StatusChangeKeepsPin`, `PinsReplayable`,
   `PinsMoveForward`; `PutOnExpected` fails).
3. **`now()` against commit order.** `created_at` is the start of the inserting
   transaction, and the latest enabled model is chosen by it (`PinsMoveForward`),
   whatever PATCH has done to newer versions since (`DisabledModelNotResolved` fails).
4. **Partial failure and crash.** An import is some hundred independent
   statements (`ImportedPrefixClosed`, `ImportComplete`, `ImportsKeepApart`,
   `ImportTouchesOwnModel`, `ImportsEnd`); an answer may be lost after the commit, or
   be a 500 although the row is stored (the refinements).
5. **Programs that must agree**: two personas and the linter judge the same graph
   from differently built indexes (`LintedModelIsSound`, `PersonasAgree`,
   `BoundaryHangsLoose`, `RepairsLast`, `AcceptedIsImplied`, `QuietMeansComplete`).
6. **Reads in several statements.** Nodes, edges and properties of a model are read
   one after the other while they are written, on a connection that may break, and
   one of the loops does not look at `rows.Err` (`IsolatedWhenRead`, `AnswersComplete`,
   `AnalysesEnd`, `RestoreComplete`, `SnapshotsGrow`).
7. **Check-then-create of a tenant.** The first two imports of a tenant name both
   find nothing (`ImportsShareTenant`).
8. **A table without a key over versions.** Two Puts of an object may get one
   version, a DELETE misses what is committed beside it, rows expire
   (`VersionsContiguous`, `ObjectPutAboveExpected`, `ReadsNeverGoBack`).
9. **The life of the process.** A signal before the listener has run, a connection
   accepted before the signal whose handler starts after it, a deadline before the
   handlers have ended, a kill and a restart (`ShutdownDrains`,
   `SignalEnds`, `ServedOnlyInDev`, and the properties of `model_versions`).

A hazard without a property says there why it has none: mostly because no document
or test of the repository says what should happen (If-Match, an `expected_version`
that does not parse, content that stays with the draft when PATCH enables it, an
expected version across a DELETE, a listener whose failure nobody notices).

## 2. Modules

```
VersionedRows
 ├─ ModelVersions          implements VersionLog
 │   ├─ Contracts          implements VersionLog
 │   ├─ Server
 │   └─ ModelGraph         implements VersionLog
 └─ Objects

AnalysisGraph
 ├─ GraphAnalysis
 └─ ImpliedEdges                             OpaEval

VersionedRowsProofs
 ├─ ModelVersionsProofs
 │   ├─ ContractsProofs
 │   ├─ ServerProofs
 │   └─ ModelGraphProofs
 └─ ObjectsProofs          AnalysesProofs    OpaEvalProofs
```

Each line extends the one it hangs from; `<Module>Proofs` extends `<Module>` too, and
AnalysesProofs holds the theorems of both GraphAnalysis and ImpliedEdges.
`MC<Module>` instantiates `<Module>` for TLC. An operator `Name_Suffix` that
stands before `Name` is a faulty variant of it (a dropped guard, a swapped
order, an ignored error). It is no part of the specification; it is there to
confirm that a property notices that fault.

**VersionedRows** - the vocabulary of the append-only tables: a table is a set of
records with a `key` and a `version`; `Latest` is `COALESCE(MAX(version),0)`,
`Occupied` the primary key of `migrations/postgres/0001_init.sql`. The rows are
those of one tenant, since every statement filters on `tenant_id`.

**ModelVersions** - `model_versions`, the database `clock`, and `mreq[r]`, the
handler of request `r`. A handler is modelled statement by statement:

| Action | Code |
|---|---|
| `CreateModel` | POST: status "" is "draft"; `model_id` may be left to the database |
| `SetModelStatus`, `SetModelStatusNotFound` | PATCH: `Get` of an exact version, then `Create` of the row read with another status - a *new* version |
| `StartInsert` | the INSERT's implicit transaction starts, and `now()` is fixed |
| `NextModelVersion` | its snapshot: `MAX(version)+1`, or 1 |
| `InsertModel` / `InsertModelRefused` | the row is written, or the primary key refuses it (500) |
| `RespondModel`, `AbandonModel` | the answer; or client, process or connection gone, before the commit ("gone") or after it ("lost"); a handler that lost the connection to the database answers 500 in either case, since the Scan of the inserted row fails (`model_versions_repo.go:105`) |
| `Tick` | time passes; two statements may see the same time |

`LatestEnabled` is the set of rows that `ORDER BY created_at DESC LIMIT 1` may
return: on a tie, any.

**Contracts** extends it with `contracts` and `creq[r]`. `Create` and `SetStatus`
lead into the statements of `Put`: `Resolve` / `NoEnabledModel`, `Check` /
`Conflict` (409), `NextVersion`, `Insert` / `InsertRefused` (primary key or
foreign key: 500), `Respond`, `Abandon`. A contract's domain, type, action and
blob are one value `body`. Requests of both tables interleave.

**VersionLog** - the abstract specification of a versioned table: per key an
append-only log; a request appends at most one entry, at one instant between its
arrival and its answer; a refused one has appended nothing; one that lost a
connection, to its caller or to the database, may have, even when it is answered with
an error. It knows neither statements nor keys nor races. `ModelVersions`,
`Contracts` and `ModelGraph` implement it (`ModelTableIsALog`, `ContractTableIsALog`,
`RowTableIsALog`): the log of a key is the sequence of its rows (`ModelLogs`,
`ContractLogs`, `RowLogs`), and a request is "applied" from the step that commits its
row. In ModelGraph the requests of the log are the calls of Put, named by caller and
key, since one import makes many.

**Server** composes `ModelVersions` with the process its handlers run in:
`StartServer` (with a configuration, which app.New may refuse), `OpenStore`,
`Listen`, `ListenerFails`, `Signal`, `Deadline` (the timer of
`context.WithTimeout`), `ShutdownReturns` (nothing is left to wait for, or the timer
has fired), `MainReturns`, `Kill`, `DropHandler` and `Gone` (what is left goes, one
handler after the other). A request arrives on a connection that is accepted while the
listener is open (`Accept`) and is closed (`CloseConn`), or read and `Serve`d or
`Forbid`den by `withAuth`: also while Shutdown waits, and after it gave up. Its handler
then takes its steps (`HandlerStep`), unless it needs a connection of a pool that is
closed (`StatementRefused`). The process may start again on the same tables. net/http
is taken at its documented word: Shutdown closes the listener first, waits for every
connection that is not idle, and does not start a handler on one it has closed as idle.

**Objects** - the `objects` table, `oreq[r]`, the call `r`, and time. `Put` checks
version and tag in a statement of its own (`PutCheck`), then computes and writes
(`PutNext`, `PutInsert`) as the other tables do, but nothing refuses the row;
`GetSelect`/`GetAnswer` read the newest row and then look at its expiry;
`DeleteSnapshot`/`DeleteRows` delete what the statement saw. `seen` and `deleted`
are history: the largest version any answer carried, and the nodes that were deleted.

**ModelGraph** - what a model version *contains*. The four repositories write
alike, so the four tables are one relation `rows` keyed by the union of their
keys; `Snapshot(p)` is `SELECT DISTINCT ON (key) … WHERE model = p ORDER BY version
DESC`. Writers (`Write` and the statements of Put), imports and readers run
concurrently. An import reads its bundle (`ImportStart`: one written by hand, or the
file of an export), finds or creates its tenant (`ImportTenant`,
`ImportCreateTenant`), registers statuses and types (`ImportRegister`), creates its
model version through the actions of ModelVersions (`ImportModel`), and puts nodes,
edges, properties and contracts through those of Put (`ImportPut`); it ends with
`ImportDone`, `ImportError` or `ImportCrash`. An analysis or export resolves the
model (`Analyse`), reads its tables one statement each (`AnaRead`), any of which may
break off (`AnaReadCut`), and answers (`AnaAnswer`). `skip` is what an import leaves
out: the contracts, unless it was given `--with-contracts`; the export is of kind
"export" without that option and "fullexport" with it. A bundle is a set of keys: a
file that lists one key twice is outside the model. Type, ends, value and blob are
one value, the caller whose payload it is.

**AnalysisGraph** - the edges of one model version and what the graph library makes of
them, shared by the next two: `Walk(E, n)` tables what at most i edges lead to, and
`Reach(E, n)` is its last entry. Edge domains are collapsed into one.

**GraphAnalysis** - Holes, Boundary, Gaps and the linter as functions of one model's
nodes, edges and availability properties, while clients build that model in every
order. The graph library is modelled by what the code uses of it: one edge between
two vertices (so a degree counts neighbours), AddEdge failing on an unknown
vertex, strongly connected components (nodes that reach each other).

**ImpliedEdges** - `detectImpliedEdges` (the suggestions `ByRequirement` and
`ByDelegation`) and the loop around it: clients state edges (`StateEdge`) and accept
suggested ones (`Accept`), in any order, and ask again. It is compared with an
independent definition, `ProvidedFrom`: what is reached by a chain of delegations, one
*provides* and a chain of requirements. `AllPathsBetween` is modelled as reachability,
the trivial path from a node to itself included.

**OpaEval** - `Eval`'s loop, with every way of giving up, and `mergeDecision`. The
Rego engine is outside: what each policy evaluates to is the input.

## 3. What the runs check

Properties that hold:

| Run | Instance | Shows |
|---|---|---|
| `model_versions` | 2 requests, 2 lineages, clock 0..1, a server started up to twice in any of 32 configurations | over races, signals, kills and restarts, every lineage is 1..n (`ModelHistoriesDense`); the table implements the log (`ModelTableIsALog`); nothing is served outside dev (`ServedOnlyInDev`); the pool is closed under a handler that runs, or that may start on an accepted connection, only after the timer has fired (`ShutdownDrains`), also when the listener comes up after the signal; a signal ends the process (`SignalEnds`) |
| `objects` | 3 calls on one node, payload inline, by URL or missing, TTL 0..1, clock 0..2 | while nobody deletes: no gaps, an accepted expected version existed and is below the row written, reads never go back and find nothing only when what was seen has expired |
| `contracts` | 3 requests on one contract, 2 bodies, 1 admin request | dense histories; what `expected_version` does guarantee: the row written is newer than the one expected, and a status change that names a version that existed was made from exactly that one; the log; every request ends |
| `contracts_pins` | 2 contract and 2 admin requests, 2 lineages, clock 0..1 | pins exist, are of enabled models when Put resolved them, survive status changes, and never move back in creation time while models are created and raced (that disabling one does not move a pin back either is the divergence of `model_versions_disabled`) |
| `model_graph` | 2 imports (bundle of a node and a contract, one status, one type), each with or without `--with-contracts`, and an export with or without it; 2 uuids for the tenant; one lineage | the imports share the tenant they both create; what a bundle lists is registered before its model exists; they never share a model version; success means that exactly what was asked for is there (`ImportComplete`); an import of the export restores what was exported (`RestoreComplete`); an import changes no other version's snapshot, and no key leaves one |
| `model_graph_read` | import (2 nodes and the edge between them) + HTTP writer (of a property too) + one analysis of kind graph or gaps, connection may break | whatever import and writer race on a key, its rows are a log to which each call of Put appends at most once (`RowTableIsALog`); an edge that the import has put has its nodes, wherever it stops (`ImportedPrefixClosed`); an analysis that answers has read all nodes and edges there were when it began (`AnswersComplete`); reading nodes *before* edges never reports an isolated node that is not isolated at the second statement; imports and analyses end |
| `graph_analysis` | every graph of 3 nodes, 3 edges, 3 node types, 2 edge types | linter, Frontier and Waypoint agree where they overlap; the boundary nodes are those that hang on at most one other node in one direction, each reported as isolated or as a structural hole (`BoundaryHangsLoose`); a repaired node stays repaired |
| `implied_edges` | 3 nodes, up to 5 stated edges of 3 types | accepting suggestions in any order reaches exactly the closure of the two rules |
| `opa_eval` | all lists of up to 3 policy outcomes | a deny wins, otherwise the first action; no decision of some of the policies; merged in order |

Statements of the repository that the code does not keep; TLC gives the
counterexample:

| Run, property | The document | What happens |
|---|---|---|
| `contracts_cas`, `PutOnExpected` | the driver declares `CapCAS`, "cas" (`internal/storage/drivers/postgres/driver.go:35`) | the compare and the insert are separate statements: two writers that both expect version 1 are both accepted, as 2 and 3 |
| `model_graph_fixed`, `EnabledSnapshotsFixed` | `internal/resolution/types.go:5` "a specific, replayable model snapshot" | a row can be put into an enabled model version at any time, so its snapshot changes; with `--enable` an import does just that to the version it fills |
| `model_versions_disabled`, `DisabledModelNotResolved` | README.md:12 "reads fetch `MAX(version)`", README.md:29 `draft\|enabled\|disabled` | GetLatestEnabled takes the newest *enabled row*: after PATCH status=disabled, a new version, the superseded enabled one is still resolved by unpinned writes, analyses and exports |

Smaller divergences were seen while modelling and have no run.

- `frontier/analysis.go:248` "singleton SCCs that have both incoming and outgoing
  inter-SCC edges": one edge of either direction is enough, so in an acyclic model
  every connected node is a structural hole (theorem `AcyclicHoles`).
- README.md:4 "FK constrained", README.md:29 and the comments at
  `internal/storage/storage.go:109` and `:126`-`:128`: no column `type` or `status` of
  `0001_init.sql` has a foreign key to `types` or `statuses`. The models therefore
  let any status be stored.
- The description "Leaf node (degree 1)" (`frontier/analysis.go:335`) is only ever
  given to nodes of degree 0, since each node of degree 1 is a source or a sink.
- `frontier/analysis.go:445` "to verify reachability for candidate implied edges,
  ensuring we only surface edges that are genuinely implied": the candidate comes from
  two edges of the same list of edges, so the path is always there and the check
  refuses nothing (theorem `PathCheckRefusesNothing`).
- `mergeDecision` copies any string a policy returns into `Decision.Action`, not only
  the six listed in `internal/resolution/types.go:33`.
- An export reads the nodes before the edges, so its file may have an edge without
  its node; it has reasons and obligations of contracts, which no import reads; a
  property value that is not a JSON object is exported as null
  (`internal/modelio/io.go:255`).

**Bounds.** A request identifier is used once, so the number of requests is the
number of interleaved histories; every race in the code is between two writers of
one key, or between one writer and the reader of a value used two statements
later, so two writers show it, and three let the loser's state be overtaken once
more. `MaxClock = 1` gives two created_at values, in both orders and tied.
`MaxExpected`, `MaxPinVersion` bound what clients send; they cover a version that
does not exist yet, the current one and an outdated one. In the graph modules, the
rules look at a node, its neighbours and one more hop; three nodes hold each
pattern together with cycles, loops, parallel edges and a disconnected node.
`MaxEdges` bounds edges stated by clients. An analysis of kind "paths" makes the same
two reads in the same order as one of kind "graph" and answers alike, so no instance
has both; the theorems are about all kinds. Two starts give a life of the process after
a kill or shutdown; `model_versions_disabled` needs one only. For the tenant two uuids are needed to see two tenants, for an
import to be an import of an export the second import. Three calls on one node are
two racing Puts and a read, or a Put on both sides of a Delete; the clock passes an
expiry once. Two properties say where the bound on uuids would show: a request that
leaves its id to the database cannot go on when the instance has none left. The
theorems of section 4 need none of these bounds to be small.

**Symmetry** (requests, imports, tenant uuids, object callers, uuids, nodes) is used in
runs without liveness properties only. The runs `objects`, `graph_analysis` and
`opa_eval` check no type invariant beside their properties; those of `Objects` and
`OpaEval` are part of the invariants proved. **Deadlock** is off where identifiers are used up or an evaluation is over: the
modelled system then really has nothing to do. It is on in `GraphAnalysis`.

**Fairness.** Weak fairness is assumed of exactly the steps that the Go runtime and
PostgreSQL take by themselves once a handler, import or analysis runs: its next
statement and its answer. No statement of the code waits for another request (the
only wait, for the other inserter of the same primary key, ends when that one
commits, and an implicit transaction holds nothing else). In `Server` not even the
handlers are assumed to go on: `SignalEnds` needs only the steps of main after the
signal, its timer (`Deadline`: `context.WithTimeout` fires whatever the handlers do)
and the operating system taking a process down. Clients, connections, the clock, signals
and failures have no fairness. No strong fairness is needed.

## 4. What is proved

TLAPS checks the following for every number of requests, keys, statuses, policies
and every bound. The assumptions are the named `ASSUME`s of the modules: that the
"nothing given" values are not members of the sets they stand beside, that the
bounds are naturals, that there is a status and a body, that "dev" and "noop" are
among the settings, that the keys of the four tables differ, the ends of an edge are
nodes, writers are not imports, the nodes of one model are finitely many, and the three
edge types that the implied edges look at are edge types. Each is evaluated by TLC in
the runs.

*VersionedRowsProofs.* Lemmas about tables: `Latest` of a dense key, density after the
next version is added, stability of `RowAt` while rows with unique keys are added,
`Latest` of a key whose versions are merely bounded (a well-founded descent on the
distance to the bound), and the rows of a key as a sequence that grows by `Append`.

*ModelVersionsProofs.* `MInv` is `MTypeOK`, density, and `PendingModel`: a request in
stage "insert" holds a version at most one above the latest of its lineage, and the
row of a request that has written is there as it was sent. Density alone is not
inductive: the insert of a version computed earlier keeps the history dense only
because histories never shrink, so that the version is either free and exactly the
next, or taken and refused by the key. For the refinement, `ModelMoveRefines` maps every move of a request that does
not write to a step of the log or a stutter, and `ModelInsertAppends` shows that the
one that writes appends the next entry and changes no other log. `ModelTableKeeps` says
that the refinement needs no more than the initial state and the steps of the table,
so a module that puts more beside it has it as soon as its steps map to those.
→ `ModelTypes`, `ModelDensity`, `ModelImplementsLog`.

*ServerProofs.* A step of the server is a step of ModelVersions or the 500 of a closed
pool (`ServerStep`), so `MInv` carries over; `SInv` adds that no handler runs and no
connection is accepted before the store is open, that nothing listens once main waits in
Shutdown, that what is left when the pool is closed is left because the timer has fired
(`LifeInv`: a handler that starts then was waited for as a connection before), and that
the configuration in force is none that app.New refuses (`ConfInv`).
→ `ServerTypes`, `ServerDensity`, `ServerImplementsLog`, `ServerGuardsNoop`,
`ServerDrains`.

*ContractsProofs.* `CInv` strengthens this with what a handler knows at each of its
stages (`Kept`): the row SetStatus read is still there, with the body and the pin it
copies, below the version it will write; an expected version that was compared lies
between the version read and the latest; a pin that Put resolved is an enabled row.
That a later resolution is not older follows from the last of these: the model
resolved earlier is still among the enabled rows, whose newest is taken. The
refinement is laid out as that of model versions.
→ `ContractTypes`, `ContractDensity`, `ContractPutAboveExpected`,
`ContractAcceptedChange`, `ContractStatusChange`, `ContractPins`,
`ContractPinsForward`, `ContractImplementsLog`, `ContractModelLog`.

*ObjectsProofs.* Nothing refuses a second row of a version; `OInv` rests on `MAX(version)`
only growing while nobody deletes, so that a version computed earlier is at most one
above it whenever it is written. Where rows were deleted, only that the versions are
bounded is known.
→ `ObjectDensity`, `ObjectExpectation`, `ObjectReadsForward`.

*ModelGraphProofs.* `TableInv` is the analogue for the four tables (`PutKept`: what a
call of Put has in hand), the reading positions of analyses and the tenant of the
imports. A key is in a snapshot exactly when a row of it is pinned there
(`Content = Pinned`: a bounded non-empty set of versions has a largest), and rows
stay, so snapshots only grow.
→ `GraphTypes`, `GraphDensity`, `GraphSnapshotsGrow`, `GraphModelLog`.

What an import has done is spread over its own state, the request that makes its model
version, its call of Put and the tables. `ImportInv` relates them for one import at a
time: what is registered (`EntriesKept`), that its pin is the version its request wrote
(`PinKept`), where every item it has taken from its bundle is (`ItemsKept`), that its
file stays what the export read (`FileKept`), and for an analysis that what it has read
is in the snapshot (`ReadKept`). That two requests never wrote one version
(`WroteApart`) keeps the imports apart.
→ `ImportsApart`, `ImportsComplete`, `ImportPrefix`, `ImportsOneTenant`,
`RestoresComplete`, `ImportOwnModel`, `IsolatedAtRead`, `AnswersRead`.

The refinement of the log needs one thing more, that a call of Put has at most one row
and none before it inserts (`OneCall`, in `CallsInv`). It is not a consequence of the
primary key: an import uses one `put` for item after item, and that it never takes an
item twice is known to `ImportInv` only. When the import goes on, two calls are
concerned in one step, the one that has written and the one that begins; the first
stays "applied" in the log, so that `RowFrame` can show that each step moves one call.
→ `GraphImplementsLog`.

*AnalysesProofs.* The library's induction theorems cannot be used here, since they
take an operator as a parameter. That the table of walks exists, and has the entries its
definition gives, is shown by a least counterexample instead (`LeastNatural`, from the
well-foundedness of `<` on Nat). It grows with each edge until it stops, and a set of
nodes cannot grow more often than there are nodes; so `Reach` is the least set that
holds its first node and that no edge leaves (`ReachClosed`, `ReachLeast`), and nothing
else is used of it. `ImpliedInv` says that every accepted edge is a *provides* within
`ProvidedFrom` of the stated ones; a suggestion stays within it because a chain can be
prolonged at both ends (`ProvidedSteps`). Conversely, when nothing is suggested, the
*provides* relation is closed under both rules, so that the chain can be walked: the
requirements forwards for a fixed actor, the delegations for a fixed capability. The
theorems about GraphAnalysis need that the edges of a model are finitely many, that a
degree is 0 just when there is no edge and at most 1 just when all edges lead to one
neighbour (`Degrees`), that edges are never removed, and that a node with edges in one
direction only is a component of its own (`HangingAlone`).
→ `AcceptedImplied`, `QuietComplete`, `QuietExact` (what a client that accepts
everything ends with does not depend on the order), `PathCheckRefusesNothing`;
`LintedSound`, `PersonasAgreed`, `BoundaryLoose`, `RepairsKept`, `AcyclicHoles`.

*OpaEvalProofs.* `Inv` adds to the properties that no merged policy failed.
→ `EvalTypes`, `EvalDenyWins`, `EvalNoPartialDecision` as invariants and
`EvalMergedInOrder` as an action property, for any list of policies.

Checked by TLC only: liveness (`RequestsEnd`, `ImportsEnd`, `AnalysesEnd`, `SignalEnds`),
which is out of the prover's reach, with ENABLED. Every other property of a run that
holds is a theorem.

## 5. Not modelled, and why

*Store and transactions*: the one transaction of the code reads a single row; that
writers use none is modelled everywhere. *The JSON of a bundle and of blobs*: which
keys there are is modelled, what is in a value is not. *Edge domains*: one.
*Rego*: a library. *The list of paths* is the library's; how its graph is read and
fails to build is in ModelGraph. *Resolution*: declarations, the routes answer 501.
*The table of routes, paging, the health check, reads of single rows*: they hold no
state. *goose*: there is one migration; opening the store succeeds or ends the
process. *The draw of a uuid* is modelled as any uuid that no row and no request has.

## 6. Plan

1. *(done)* VersionedRows, ModelVersions, Contracts, VersionLog; ModelGraph;
   GraphAnalysis, ImpliedEdges, OpaEval.
2. *(done)* Objects; Server around the handlers of ModelVersions; tenants, registries,
   export and restore, the reads of Gaps and Paths in ModelGraph.
3. *(done)* The invariants and action properties of every table, imports and exports
   included; ModelVersions, Server, Contracts and ModelGraph implement VersionLog.
4. *(done)* What Reach computes; the theorems of GraphAnalysis and ImpliedEdges.
5. Next: several edge domains, with the count of providers in Gaps; ModelGraph under
   the life cycle of Server.
