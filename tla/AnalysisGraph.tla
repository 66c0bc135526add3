--------------------------- MODULE AnalysisGraph ---------------------------
(***************************************************************************)
(* What the analyses of both personas have in common: the edges of one     *)
(* model version as loadGraph returns them, and what the graph library     *)
(* makes of them.  The library has one edge between two vertices, whatever *)
(* the types.                                                              *)
(***************************************************************************)
EXTENDS Naturals, FiniteSets

CONSTANTS
  NodeIDs,
  EdgeTypes,  \* graph_edges.type
  MaxEdges    \* bound: the edges that clients put

ASSUME NodesFinite == IsFiniteSet(NodeIDs)

ASSUME EdgeBound == MaxEdges \in Nat

VARIABLE edges

Edges == [from : NodeIDs, to : NodeIDs, type : EdgeTypes]

\* S and the nodes one edge further on.
Step(E, S) == S \cup {e.to : e \in {d \in E : d.from \in S}}

\* Walk(E, n)[i]: where at most i of the edges E lead from n.
Walk(E, n) ==
  LET after[i \in 0 .. Cardinality(NodeIDs)] ==
        IF i = 0 THEN {n} ELSE Step(E, after[i - 1])
  IN  after

\* Where they lead at all: no path needs more edges than there are nodes.
Reach(E, n) == Walk(E, n)[Cardinality(NodeIDs)]
=============================================================================
