--------------------------- MODULE GraphAnalysis ---------------------------
(***************************************************************************)
(* The answers of GET /analysis/holes, /boundary and /gaps and the report  *)
(* of the linter, as functions of what one model version contains, while   *)
(* clients put nodes, edges and availability properties into it.  How the  *)
(* tables are read is the subject of ModelGraph; here every answer is that *)
(* of a reader that nobody disturbs.                                       *)
(***************************************************************************)
EXTENDS AnalysisGraph

CONSTANTS
  NodeTypes,   \* graph_nodes.type
  Registered,  \* <<domain, name>> of the types in a bundle of this model
  Described    \* the nodes whose blob has a ref and a job

ASSUME AnalysisAssumption ==
  /\ {"actor", "capability", "policy"} \subseteq NodeTypes
  /\ {"provides", "governs"} \subseteq EdgeTypes
  /\ Described \subseteq NodeIDs

VARIABLES
  type,  \* type[n] of the latest row of each node of the model
  off    \* the owners whose property "availability" is false

vars == <<type, edges, off>>

Init == type = <<>> /\ edges = {} /\ off = {}

nodes == DOMAIN type

\* A first version of a node, or a newer one of another type.
PutNode(n, t) ==
  /\ type' = [m \in nodes \cup {n} |-> IF m = n THEN t ELSE type[m]]
  /\ UNCHANGED <<edges, off>>

\* An edge may be put before its nodes, or without them.
PutEdge(e) ==
  /\ Cardinality(edges \cup {e}) <= MaxEdges
  /\ edges' = edges \cup {e}
  /\ UNCHANGED <<type, off>>

PutAvailability(n, available) ==
  /\ off' = IF available THEN off \ {n} ELSE off \cup {n}
  /\ UNCHANGED <<type, edges>>

Next ==
  \/ \E n \in NodeIDs, t \in NodeTypes : PutNode(n, t)
  \/ \E e \in Edges : PutEdge(e)
  \/ \E n \in NodeIDs, b \in BOOLEAN : PutAvailability(n, b)

Spec == Init /\ [][Next]_vars

----------------------------------------------------------------------------
(* buildGraph: the library's graph has one edge between two vertices, so   *)
(* the degrees count neighbours; a loop counts on both sides.              *)

\* AddEdge asks for both vertices; any other failure than a duplicate is a 500.
Builds == \A e \in edges : {e.from, e.to} \subseteq nodes

To(n) == {e \in edges : e.to = n}
From(n) == {e \in edges : e.from = n}

inDeg_Edges(n) == Cardinality(To(n))

inDeg(n) == Cardinality({e.from : e \in To(n)})
outDeg(n) == Cardinality({e.to : e \in From(n)})

\* The strongly connected component of a node.
SCC(n) == {m \in nodes : m \in Reach(edges, n) /\ n \in Reach(edges, m)}

----------------------------------------------------------------------------
(* detectHoles.                                                            *)

Isolated(n) == inDeg(n) = 0 /\ outDeg(n) = 0

HasEdge_All(E, t) == E # {} /\ \A e \in E : e.type = t

HasEdge(E, t) == \E e \in E : e.type = t

StructuralHole(n) ==
  /\ SCC(n) = {n}
  /\ \E e \in To(n) \cup From(n) : SCC(e.from) # SCC(e.to)

CapabilityHoles(n) ==
  {k \in {"capability_no_provider", "capability_no_policy"} :
     /\ type[n] = "capability"
     /\ k = "capability_no_provider" => ~ HasEdge(To(n), "provides")
     /\ k = "capability_no_policy" => ~ HasEdge(To(n), "governs")}

\* The holes of the loop over the nodes: an isolated one is only that.
RoleHoles(n) ==
  IF Isolated(n) THEN {"isolated_node"}
  ELSE CapabilityHoles(n)
       \cup {k \in {"policy_governs_nothing"} : type[n] = "policy" /\ ~ HasEdge(From(n), "governs")}
       \cup {k \in {"actor_no_capabilities"} : type[n] = "actor" /\ outDeg(n) = 0}

\* The kinds of hole reported of a node.
Holes(n) == RoleHoles(n) \cup {k \in {"structural_hole"} : StructuralHole(n)}

----------------------------------------------------------------------------
(* Boundary, Gaps and LintBundle.                                          *)

Boundary == {n \in nodes : inDeg(n) + outDeg(n) <= 1}

providerCount(n) == Cardinality({e \in To(n) : e.type = "provides"})

Gaps_Neighbours(n) ==
  {k \in {"no_provider", "single_provider", "unavailable"} :
     /\ type[n] = "capability"
     /\ k = "no_provider" => inDeg(n) = 0
     /\ k = "single_provider" => inDeg(n) = 1
     /\ k = "unavailable" => n \in off}

\* The kinds of gap reported of a node; no graph is built for them.
Gaps(n) ==
  {k \in {"no_provider", "single_provider", "unavailable"} :
     /\ type[n] = "capability"
     /\ k = "no_provider" => providerCount(n) = 0
     /\ k = "single_provider" => providerCount(n) = 1
     /\ k = "unavailable" => n \in off}

RequiredTypes(mode) ==
  {<<"node", "capability">>, <<"node", "policy">>, <<"edge", "provides">>,
   <<"edge", "requires">>, <<"edge", "governs">>}
  \cup (IF mode = "bootstrap" THEN {} ELSE {<<"node", "actor">>})

OfType(t) == {n \in nodes : type[n] = t}

BadRefs_FromOnly == {e \in edges : e.from \notin nodes}

BadRefs == {e \in edges : {e.from, e.to} \cap nodes # {e.from, e.to}}

CapabilityIssues(c) ==
  {i \in {"CAP_NO_PROVIDER", "CAP_NO_POLICY", "CAP_NO_BLOB"} :
     /\ i = "CAP_NO_PROVIDER" => ~ HasEdge(To(c), "provides")
     /\ i = "CAP_NO_POLICY" => ~ HasEdge(To(c), "governs")
     /\ i = "CAP_NO_BLOB" => c \notin Described}

\* LintBundle(b, mode).OK, for the bundle an export of this model writes.
LintOK(mode) ==
  /\ RequiredTypes(mode) \subseteq Registered
  /\ OfType("policy") # {}
  /\ BadRefs = {}
  /\ mode # "bootstrap" =>
       /\ OfType("actor") # {} /\ OfType("capability") # {}
       /\ \A c \in OfType("capability") : CapabilityIssues(c) = {}

----------------------------------------------------------------------------

\* The linter and the two analyses are three programs with one idea of a sound
\* model: what lints clean as an enabled model builds, and neither Holes nor Gaps
\* finds a capability without provider or policy in it.
LintedModelIsSound ==
  /\ LintOK("enabled_model") =>
       /\ Builds
       /\ \A c \in OfType("capability") :
            /\ Holes(c) \cap {"isolated_node", "capability_no_provider",
                              "capability_no_policy"} = {}
            /\ "no_provider" \notin Gaps(c)
  /\ LintOK("bootstrap") => Builds

\* The personas agree: Waypoint misses the provider of a capability exactly where
\* Frontier calls it isolated or without provider, although one counts edges by
\* type and the other neighbours first.
PersonasAgree ==
  Builds => \A c \in OfType("capability") :
    "no_provider" \in Gaps(c)
      <=> Holes(c) \cap {"isolated_node", "capability_no_provider"} # {}

\* All edges at n, of whatever types, join it to one other node in one direction;
\* or there are none.
HangsLoose(n) ==
  \/ To(n) \cup From(n) = {}
  \/ \E m \in nodes \ {n} : \/ From(n) = {} /\ \A e \in To(n) : e.from = m
                            \/ To(n) = {} /\ \A e \in From(n) : e.to = m

\* Boundary shows exactly the nodes that hang loose: parallel edges of several types
\* do not hide one, a loop or an edge each way takes one off.  And Holes misses none
\* of them: what hangs on another node is a structural hole, what does not is isolated.
BoundaryHangsLoose ==
  Builds => \A n \in nodes :
    /\ n \in Boundary <=> HangsLoose(n)
    /\ n \in Boundary
         => ("structural_hole" \in Holes(n) <=> "isolated_node" \notin Holes(n))

\* What was repaired stays repaired: no edge and no newer version of another node
\* makes a node isolated again, or takes its provider, policy, governed
\* capability or assignment away, since rows never leave a model version.
RepairsLast ==
  [][\A n \in nodes :
       /\ ~ Isolated(n) => ~ Isolated(n)'
       /\ type'[n] = type[n] /\ ~ Isolated(n) => RoleHoles(n)' \subseteq RoleHoles(n)]_vars
=============================================================================
