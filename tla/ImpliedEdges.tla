---------------------------- MODULE ImpliedEdges ----------------------------
(***************************************************************************)
(* GET /analysis/implied-edges, and what it is for: a client reviews the   *)
(* edges it lists and posts the ones it accepts, which changes what the    *)
(* next answer lists.  The edges are those of one model version; its nodes *)
(* only matter for the type shown beside an edge.                          *)
(***************************************************************************)
EXTENDS AnalysisGraph

ASSUME ImpliedAssumption == {"provides", "requires", "can_delegate_to"} \subseteq EdgeTypes

VARIABLE stated  \* the edges that were not accepted from an answer

ivars == <<edges, stated>>

Succ(E, t, n) == {e.to : e \in {d \in E : d.type = t /\ d.from = n}}

\* "provides", "requires" and "can_delegate_to" edges leaving a node.
provides(E, n) == Succ(E, "provides", n)
requires(E, n) == Succ(E, "requires", n)
delegates(E, n) == Succ(E, "can_delegate_to", n)

\* The edges that an answer may list, as long as they are not there (edgeSet).
Provisions == [from : NodeIDs, to : NodeIDs, type : {"provides"}]

\* actor -provides-> capability -requires-> dep, and no actor -provides-> dep.
ByRequirement(E) ==
  {e \in Provisions \ E :
     /\ \E cap \in provides(E, e.from) : e.to \in requires(E, cap)
     /\ e.to \in Reach(E, e.from)}

ByDelegation_Reversed(E) ==
  {e \in Provisions \ E :
     \E d \in NodeIDs : e.from \in delegates(E, d) /\ e.to \in provides(E, d)}

\* actor -can_delegate_to-> delegate -provides-> capability.
ByDelegation(E) ==
  {e \in Provisions \ E : \E d \in delegates(E, e.from) : e.to \in provides(E, d)}

detectImpliedEdges_NoDelegation(E) == ByRequirement(E)

detectImpliedEdges(E) == ByRequirement(E) \cup ByDelegation(E)

IInit == edges = {} /\ stated = {}

\* A client posts an edge of its own (PutEdge into the model).
StateEdge(e) ==
  /\ Cardinality(stated) < MaxEdges
  /\ edges' = edges \cup {e}
  /\ stated' = stated \cup {e}

\* The client posts one of the edges of the answer.
Accept(e) ==
  /\ e \in detectImpliedEdges(edges)
  /\ edges' = edges \cup {e}
  /\ UNCHANGED stated

INext == \E e \in Edges : StateEdge(e) \/ Accept(e)

ISpec == IInit /\ [][INext]_ivars

----------------------------------------------------------------------------
(* The reference: the least "provides" relation closed under both rules is *)
(* what a chain of delegations, one providing and a chain of requirements  *)
(* reach.                                                                  *)

Along(E, t, n) == Reach({e \in E : e.type = t}, n)

ProvidedFrom(E, a) ==
  UNION {Along(E, "requires", e.to) :
         e \in {d \in E : d.type = "provides" /\ d.from \in Along(E, "can_delegate_to", a)}}

\* Whatever the order in which implied edges are accepted, no accepted edge says
\* that an actor provides what it does not reach by delegating, providing and
\* requiring along the edges that were stated.
AcceptedIsImplied ==
  \A e \in edges \ stated : e.to \in ProvidedFrom(stated, e.from)

\* When the analysis has nothing left to suggest, every actor provides all that
\* it so reaches: the two rules together miss nothing, also when delegation and
\* requirement alternate or run in cycles.
QuietMeansComplete ==
  detectImpliedEdges(edges) = {} =>
    \A a \in NodeIDs : \A c \in ProvidedFrom(stated, a) :
      [from |-> a, to |-> c, type |-> "provides"] \in edges
=============================================================================
