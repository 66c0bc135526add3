--------------------------- MODULE AnalysesProofs ---------------------------
(***************************************************************************)
(* Theorems about the analyses: the linter and both personas agree on the  *)
(* graphs they all see (GraphAnalysis), and accepting implied edges, in    *)
(* whatever order, leads to the closure of their two rules (ImpliedEdges). *)
(*                                                                         *)
(* The second needs what Reach computes.  Its lemmas say that it is the    *)
(* least set that holds the first node and that no edge leaves, which is   *)
(* all that is used of it afterwards.                                      *)
(***************************************************************************)
EXTENDS GraphAnalysis, ImpliedEdges, FiniteSetTheorems, TLAPS

----------------------------------------------------------------------------
(* What Reach computes.                                                    *)

Smaller == {p \in Nat \X Nat : p[1] < p[2]}

\* A set of naturals that is not empty has a least element.
LEMMA LeastNatural ==
  ASSUME NEW T, T \subseteq Nat, T # {}
  PROVE  \E m \in T : \A i \in T : m <= i
<1>1. IsWellFoundedOn(Smaller, Nat)
  BY NatLessThanWellFounded DEF OpToRel, Smaller
<1>2. PICK m \in T : \A i \in T : ~ (<<i, m>> \in Smaller)
  BY <1>1, WFMin
<1>3. ASSUME NEW i \in T PROVE m <= i
  <2>1. i \in Nat /\ m \in Nat
    OBVIOUS
  <2>2. ~ (i < m)
    BY <1>2, <2>1 DEF Smaller
  <2> QED
    BY <2>1, <2>2
<1> QED
  BY <1>3

\* What f is like when it is the table of walks of up to k edges.
IsWalk(f, E, n, k) == f = [i \in 0 .. k |-> IF i = 0 THEN {n} ELSE Step(E, f[i - 1])]

\* There is such a table for every k: the one for k - 1 has all that it looks up.
LEMMA WalkExists ==
  ASSUME NEW E, NEW n, NEW k \in Nat
  PROVE  \E f : IsWalk(f, E, n, k)
<1> DEFINE T == {j \in Nat : ~ \E f : IsWalk(f, E, n, j)}
<1>1. ASSUME T # {} PROVE FALSE
  <2>1. PICK m \in T : \A i \in T : m <= i
    BY <1>1, LeastNatural
  <2>2. CASE m = 0
    <3> DEFINE f == [i \in 0 .. 0 |-> {n}]
    <3>1. f = [i \in 0 .. 0 |-> IF i = 0 THEN {n} ELSE Step(E, f[i - 1])]
      OBVIOUS
    <3>2. IsWalk(f, E, n, 0)
      BY <3>1 DEF IsWalk
    <3> QED
      BY <2>1, <2>2, <3>2
  <2>3. CASE m # 0
    <3>1. m \in Nat /\ m - 1 \in Nat
      BY <2>3
    <3>2. m - 1 \notin T
      BY <2>1, <3>1
    <3>3. PICK f : IsWalk(f, E, n, m - 1)
      BY <3>1, <3>2
    <3> DEFINE g == [i \in 0 .. m |-> IF i = 0 THEN {n} ELSE Step(E, f[i - 1])]
    <3>4. ASSUME NEW i \in 0 .. m, i # 0 PROVE g[i - 1] = f[i - 1]
      <4>1. i - 1 \in 0 .. m /\ i - 1 \in 0 .. (m - 1)
        BY <3>1, <3>4
      <4>2. g[i - 1] = IF i - 1 = 0 THEN {n} ELSE Step(E, f[(i - 1) - 1])
        BY <4>1
      <4>3. f = [h \in 0 .. (m - 1) |-> IF h = 0 THEN {n} ELSE Step(E, f[h - 1])]
        BY <3>3 DEF IsWalk
      <4> HIDE DEF g
      <4>4. f[i - 1] = IF i - 1 = 0 THEN {n} ELSE Step(E, f[(i - 1) - 1])
        BY <4>1, <4>3
      <4> QED
        BY <4>2, <4>4
    <3>5. \A i \in 0 .. m :
            (IF i = 0 THEN {n} ELSE Step(E, f[i - 1])) = (IF i = 0 THEN {n} ELSE Step(E, g[i - 1]))
      BY <3>4
    <3>6. g = [i \in 0 .. m |-> IF i = 0 THEN {n} ELSE Step(E, g[i - 1])]
      BY <3>1, <3>5
    <3> HIDE DEF g
    <3>7. IsWalk(g, E, n, m)
      BY <3>6 DEF IsWalk
    <3> QED
      BY <2>1, <3>7
  <2> QED
    BY <2>2, <2>3
<1> QED
  BY <1>1

\* Walk is the table for as many edges as there are nodes.
LEMMA WalkSteps ==
  ASSUME NodesFinite, NEW E, NEW n
  PROVE  /\ Cardinality(NodeIDs) \in Nat
         /\ Walk(E, n)[0] = {n}
         /\ \A i \in 1 .. Cardinality(NodeIDs) :
              Walk(E, n)[i] = Step(E, Walk(E, n)[i - 1])
<1> DEFINE k == Cardinality(NodeIDs)
           w == Walk(E, n)
<1>1. k \in Nat
  BY FS_CardinalityType DEF NodesFinite
<1>2. w = CHOOSE f : f = [i \in 0 .. k |-> IF i = 0 THEN {n} ELSE Step(E, f[i - 1])]
  BY DEF Walk
<1>3. \E f : f = [i \in 0 .. k |-> IF i = 0 THEN {n} ELSE Step(E, f[i - 1])]
  <2>1. PICK f : IsWalk(f, E, n, k)
    BY <1>1, WalkExists
  <2> QED
    BY <2>1 DEF IsWalk
<1> HIDE DEF w, k
<1>4. w = [i \in 0 .. k |-> IF i = 0 THEN {n} ELSE Step(E, w[i - 1])]
  BY <1>2, <1>3
<1>5. w[0] = {n}
  BY <1>1, <1>4
<1>6. ASSUME NEW i \in 1 .. k PROVE w[i] = Step(E, w[i - 1])
  <2>1. i \in 0 .. k /\ i # 0
    BY <1>1
  <2>2. w[i] = IF i = 0 THEN {n} ELSE Step(E, w[i - 1])
    BY <1>4, <2>1
  <2> QED
    BY <2>1, <2>2
<1> QED
  BY <1>1, <1>5, <1>6 DEF w, k

\* S is left by no edge.
Closed(E, S) == \A e \in E : e.from \in S => e.to \in S

\* Reach is in every set that holds n and that no edge leaves.
LEMMA ReachLeast ==
  ASSUME NodesFinite, NEW E, NEW n, NEW S, n \in S, Closed(E, S)
  PROVE  Reach(E, n) \subseteq S
<1> DEFINE k == Cardinality(NodeIDs)
           w == Walk(E, n)
           T == {i \in 0 .. k : ~ (w[i] \subseteq S)}
<1>1. k \in Nat /\ w[0] = {n} /\ \A i \in 1 .. k : w[i] = Step(E, w[i - 1])
  BY WalkSteps
<1> HIDE DEF w, k
<1>2. ASSUME T # {} PROVE FALSE
  <2>1. T \subseteq Nat
    BY <1>1
  <2>2. PICK m \in T : \A i \in T : m <= i
    BY <1>2, <2>1, LeastNatural
  <2>3. m # 0
    BY <1>1, <2>2
  <2>4. m \in 1 .. k /\ m - 1 \in 0 .. k /\ ~ (m <= m - 1)
    BY <1>1, <2>3
  <2>5. w[m - 1] \subseteq S
    BY <2>2, <2>4
  <2>6. w[m] \subseteq S
    BY <1>1, <2>4, <2>5 DEF Step, Closed
  <2> QED
    BY <2>6
<1>3. w[k] \subseteq S
  BY <1>1, <1>2
<1> QED
  BY <1>3 DEF Reach, w, k

\* A walk stays among the nodes, never loses one, and as long as it has not found
\* all of them it has found one more with each edge.
LEMMA WalkGrows ==
  ASSUME NodesFinite, NEW E \in SUBSET Edges, NEW n \in NodeIDs,
         NEW i \in 0 .. Cardinality(NodeIDs)
  PROVE  /\ n \in Walk(E, n)[i]
         /\ Walk(E, n)[i] \subseteq NodeIDs
         /\ Closed(E, Walk(E, n)[i]) \/ Cardinality(Walk(E, n)[i]) >= i + 1
<1> DEFINE k == Cardinality(NodeIDs)
           w == Walk(E, n)
           Good(j) == /\ n \in w[j] /\ w[j] \subseteq NodeIDs
                      /\ Closed(E, w[j]) \/ Cardinality(w[j]) >= j + 1
           T == {j \in 0 .. k : ~ Good(j)}
<1>1. k \in Nat /\ w[0] = {n} /\ \A j \in 1 .. k : w[j] = Step(E, w[j - 1])
  BY WalkSteps
<1> HIDE DEF w, k
<1>2. ASSUME T # {} PROVE FALSE
  <2>1. T \subseteq Nat
    BY <1>1
  <2>2. PICK m \in T : \A j \in T : m <= j
    BY <1>2, <2>1, LeastNatural
  <2>3. CASE m = 0
    <3>1. Cardinality(w[0]) = 1
      BY <1>1, FS_Singleton
    <3> QED
      BY <1>1, <2>2, <2>3, <3>1
  <2>4. CASE m # 0
    <3> DEFINE u == w[m - 1]
               v == w[m]
    <3>1. m \in 1 .. k /\ m - 1 \in 0 .. k /\ ~ (m <= m - 1)
      BY <1>1, <2>4
    <3>2. m - 1 \notin T
      BY <2>2, <3>1
    <3>3. /\ n \in u /\ u \subseteq NodeIDs
          /\ Closed(E, u) \/ Cardinality(u) >= (m - 1) + 1
      BY <3>1, <3>2
    <3>4. v = Step(E, u)
      BY <1>1, <3>1
    <3> HIDE DEF u, v
    <3>5. u \subseteq v /\ v \subseteq NodeIDs
      BY <3>3, <3>4 DEF Step, Edges
    <3>6. CASE Closed(E, u)
      <4>1. v = u
        BY <3>4, <3>6 DEF Step, Closed
      <4> QED
        BY <2>2, <3>3, <3>6, <4>1 DEF u, v
    <3>7. CASE ~ Closed(E, u)
      <4>1. PICK x \in v : x \notin u
        BY <3>4, <3>7 DEF Step, Closed
      <4>2. IsFiniteSet(u) /\ IsFiniteSet(v)
        BY <3>3, <3>5, FS_Subset DEF NodesFinite
      <4>3. Cardinality(u \cup {x}) = Cardinality(u) + 1
        BY <4>1, <4>2, FS_AddElement
      <4>4. u \cup {x} \in SUBSET v
        BY <3>5, <4>1
      <4>5. Cardinality(u \cup {x}) <= Cardinality(v)
        BY <4>2, <4>4, FS_Subset
      <4>6. Cardinality(u) \in Nat /\ Cardinality(v) \in Nat
        BY <4>2, FS_CardinalityType
      <4>7. Cardinality(v) >= m + 1
        BY <3>1, <3>3, <3>7, <4>3, <4>5, <4>6
      <4> QED
        BY <2>2, <3>3, <3>5, <4>7 DEF v
    <3> QED
      BY <3>6, <3>7
  <2> QED
    BY <2>3, <2>4
<1>3. i \in 0 .. k
  BY DEF k
<1>4. Good(i)
  BY <1>2, <1>3
<1> QED
  BY <1>4 DEF w

\* Reach holds the node it starts from, and no edge leaves it: a set that has not
\* stopped growing would have more nodes than there are.
LEMMA ReachClosed ==
  ASSUME NodesFinite, NEW E \in SUBSET Edges, NEW n \in NodeIDs
  PROVE  /\ n \in Reach(E, n)
         /\ Reach(E, n) \subseteq NodeIDs
         /\ Closed(E, Reach(E, n))
<1> DEFINE k == Cardinality(NodeIDs)
           r == Reach(E, n)
<1>1. k \in Nat
  BY FS_CardinalityType DEF NodesFinite
<1>2. k \in 0 .. k
  BY <1>1
<1>3. n \in r /\ r \subseteq NodeIDs /\ (Closed(E, r) \/ Cardinality(r) >= k + 1)
  BY <1>2, WalkGrows DEF Reach
<1> HIDE DEF r
<1>4. Cardinality(r) <= k /\ IsFiniteSet(r)
  BY <1>3, FS_Subset DEF NodesFinite
<1>5. Cardinality(r) \in Nat
  BY <1>4, FS_CardinalityType
<1>6. ~ (Cardinality(r) >= k + 1)
  BY <1>1, <1>4, <1>5
<1> QED
  BY <1>3, <1>6 DEF r

\* More edges reach no less.
LEMMA ReachMonotone ==
  ASSUME NodesFinite, NEW F \in SUBSET Edges, NEW E \in SUBSET F, NEW n \in NodeIDs
  PROVE  Reach(E, n) \subseteq Reach(F, n)
<1>1. n \in Reach(F, n) /\ Closed(F, Reach(F, n))
  BY ReachClosed
<1>2. Closed(E, Reach(F, n))
  BY <1>1 DEF Closed
<1> QED
  BY <1>1, <1>2, ReachLeast

----------------------------------------------------------------------------
(* The closure of the two rules.                                           *)

\* The ends of an edge.
LEMMA EdgeEnds ==
  ASSUME NEW E \in SUBSET Edges, NEW e \in E
  PROVE  e.from \in NodeIDs /\ e.to \in NodeIDs
BY DEF Edges

\* What a walk along the edges of one type does: it stands still, or goes on.
LEMMA AlongSteps ==
  ASSUME NodesFinite, NEW E \in SUBSET Edges, NEW t, NEW n \in NodeIDs
  PROVE  /\ n \in Along(E, t, n)
         /\ \A e \in E : e.type = t /\ e.from \in Along(E, t, n) => e.to \in Along(E, t, n)
<1> DEFINE F == {e \in E : e.type = t}
<1>1. F \in SUBSET Edges
  OBVIOUS
<1>2. Along(E, t, n) = Reach(F, n)
  BY DEF Along
<1>3. n \in Reach(F, n) /\ Closed(F, Reach(F, n))
  BY <1>1, ReachClosed
<1> QED
  BY <1>2, <1>3 DEF Closed

\* It goes nowhere else.
LEMMA AlongLeast ==
  ASSUME NodesFinite, NEW E, NEW t, NEW n, NEW S, n \in S,
         \A e \in E : e.type = t /\ e.from \in S => e.to \in S
  PROVE  Along(E, t, n) \subseteq S
<1> DEFINE F == {e \in E : e.type = t}
<1>1. Closed(F, S)
  BY DEF Closed
<1> QED
  BY <1>1, ReachLeast DEF Along

\* ProvidedFrom, with the providing edge named.
LEMMA ProvidedVia ==
  ASSUME NEW E, NEW a, NEW c
  PROVE  c \in ProvidedFrom(E, a) <=>
           \E e \in E : /\ e.type = "provides"
                       /\ e.from \in Along(E, "can_delegate_to", a)
                       /\ c \in Along(E, "requires", e.to)
BY DEF ProvidedFrom

\* More edges provide no less.
LEMMA ProvidedMonotone ==
  ASSUME NodesFinite, NEW F \in SUBSET Edges, NEW E \in SUBSET F, NEW a \in NodeIDs
  PROVE  ProvidedFrom(E, a) \subseteq ProvidedFrom(F, a)
<1>1. ASSUME NEW t, NEW n \in NodeIDs PROVE Along(E, t, n) \subseteq Along(F, t, n)
  <2> DEFINE D == {e \in E : e.type = t}
             G == {e \in F : e.type = t}
  <2>1. D \in SUBSET G /\ G \in SUBSET Edges
    OBVIOUS
  <2> HIDE DEF D, G
  <2>2. Reach(D, n) \subseteq Reach(G, n)
    BY <2>1, ReachMonotone
  <2> QED
    BY <2>2 DEF Along, D, G
<1>2. ASSUME NEW c \in ProvidedFrom(E, a) PROVE c \in ProvidedFrom(F, a)
  <2>1. PICK e \in E : /\ e.type = "provides"
                       /\ e.from \in Along(E, "can_delegate_to", a)
                       /\ c \in Along(E, "requires", e.to)
    BY <1>2, ProvidedVia
  <2>2. e \in F /\ e.to \in NodeIDs
    BY EdgeEnds
  <2>3. e.from \in Along(F, "can_delegate_to", a) /\ c \in Along(F, "requires", e.to)
    BY <1>1, <2>1, <2>2
  <2> QED
    BY <2>1, <2>2, <2>3, ProvidedVia
<1> QED
  BY <1>2

\* A providing edge, a requirement after what is provided and a delegation before
\* it all stay within what is provided.
LEMMA ProvidedSteps ==
  ASSUME NodesFinite, NEW E \in SUBSET Edges
  PROVE  /\ \A e \in E : e.type = "provides" => e.to \in ProvidedFrom(E, e.from)
         /\ \A e \in E, a \in NodeIDs :
              e.type = "requires" /\ e.from \in ProvidedFrom(E, a)
                => e.to \in ProvidedFrom(E, a)
         /\ \A e \in E :
              e.type = "can_delegate_to"
                => ProvidedFrom(E, e.to) \subseteq ProvidedFrom(E, e.from)
<1>1. ASSUME NEW e \in E, e.type = "provides" PROVE e.to \in ProvidedFrom(E, e.from)
  <2>1. e.from \in NodeIDs /\ e.to \in NodeIDs
    BY EdgeEnds
  <2>2. e.from \in Along(E, "can_delegate_to", e.from) /\ e.to \in Along(E, "requires", e.to)
    BY <2>1, AlongSteps
  <2> QED
    BY <1>1, <2>2, ProvidedVia
<1>2. ASSUME NEW e \in E, NEW a \in NodeIDs,
             e.type = "requires", e.from \in ProvidedFrom(E, a)
      PROVE  e.to \in ProvidedFrom(E, a)
  <2>1. PICK d \in E : /\ d.type = "provides"
                       /\ d.from \in Along(E, "can_delegate_to", a)
                       /\ e.from \in Along(E, "requires", d.to)
    BY <1>2, ProvidedVia
  <2>2. d.to \in NodeIDs
    BY EdgeEnds
  <2>3. e.to \in Along(E, "requires", d.to)
    BY <1>2, <2>1, <2>2, AlongSteps
  <2> QED
    BY <2>1, <2>3, ProvidedVia
<1>3. ASSUME NEW e \in E, e.type = "can_delegate_to", NEW c \in ProvidedFrom(E, e.to)
      PROVE  c \in ProvidedFrom(E, e.from)
  <2>1. e.from \in NodeIDs /\ e.to \in NodeIDs
    BY EdgeEnds
  <2> DEFINE S == Along(E, "can_delegate_to", e.from)
  <2>2. /\ e.from \in S
        /\ \A d \in E : d.type = "can_delegate_to" /\ d.from \in S => d.to \in S
    BY <2>1, AlongSteps
  <2>3. Along(E, "can_delegate_to", e.to) \subseteq S
    <3>1. e.to \in S
      BY <1>3, <2>2
    <3> HIDE DEF S
    <3> QED
      BY <2>2, <3>1, AlongLeast
  <2>4. PICK d \in E : /\ d.type = "provides"
                       /\ d.from \in Along(E, "can_delegate_to", e.to)
                       /\ c \in Along(E, "requires", d.to)
    BY <1>3, ProvidedVia
  <2> QED
    BY <2>3, <2>4, ProvidedVia
<1> QED
  BY <1>1, <1>2, <1>3

\* What the edges of a node say, read off the edges.
LEMMA SuccEdge ==
  ASSUME NEW E, NEW t, NEW n, NEW m \in Succ(E, t, n)
  PROVE  \E d \in E : d.type = t /\ d.from = n /\ d.to = m
BY DEF Succ

----------------------------------------------------------------------------
(* Accepting implied edges.                                                *)

\* An accepted edge is of type "provides", and implied by what was stated.
ImpliedInv ==
  /\ edges \subseteq Edges
  /\ stated \subseteq edges
  /\ \A e \in edges \ stated : e.type = "provides"
  /\ AcceptedIsImplied

\* Whatever is provided, by a stated edge or an accepted one, is implied by the
\* stated ones.
LEMMA ProvidesIsImplied ==
  ASSUME NodesFinite, ImpliedInv, NEW e \in edges, e.type = "provides"
  PROVE  e.to \in ProvidedFrom(stated, e.from)
<1>1. stated \in SUBSET Edges
  BY DEF ImpliedInv
<1>2. CASE e \in stated
  BY <1>1, <1>2, ProvidedSteps
<1>3. CASE e \notin stated
  BY <1>3 DEF ImpliedInv, AcceptedIsImplied
<1> QED
  BY <1>2, <1>3

\* So is whatever the analysis suggests.
LEMMA SuggestedIsImplied ==
  ASSUME NodesFinite, ImpliedInv, NEW e \in detectImpliedEdges(edges)
  PROVE  e \in Provisions /\ e.to \in ProvidedFrom(stated, e.from)
<1>0. e \in Provisions /\ stated \in SUBSET Edges
  BY DEF detectImpliedEdges, ByRequirement, ByDelegation, ImpliedInv
<1>1. e.from \in NodeIDs
  BY <1>0 DEF Provisions
<1>2. CASE e \in ByRequirement(edges)
  <2>1. PICK cap \in provides(edges, e.from) : e.to \in requires(edges, cap)
    BY <1>2 DEF ByRequirement
  <2>2. PICK d \in edges : d.type = "provides" /\ d.from = e.from /\ d.to = cap
    BY SuccEdge DEF provides
  <2>3. PICK r \in edges : r.type = "requires" /\ r.from = cap /\ r.to = e.to
    BY <2>1, SuccEdge DEF requires
  <2>4. r \in stated
    BY <2>3 DEF ImpliedInv
  <2>5. cap \in ProvidedFrom(stated, e.from)
    BY <2>2, ProvidesIsImplied
  <2> QED
    BY <1>0, <1>1, <2>3, <2>4, <2>5, ProvidedSteps
<1>3. CASE e \in ByDelegation(edges)
  <2>1. PICK d \in delegates(edges, e.from) : e.to \in provides(edges, d)
    BY <1>3 DEF ByDelegation
  <2>2. PICK f \in edges : f.type = "can_delegate_to" /\ f.from = e.from /\ f.to = d
    BY SuccEdge DEF delegates
  <2>3. PICK p \in edges : p.type = "provides" /\ p.from = d /\ p.to = e.to
    BY <2>1, SuccEdge DEF provides
  <2>4. f \in stated
    BY <2>2 DEF ImpliedInv
  <2>5. e.to \in ProvidedFrom(stated, d)
    BY <2>3, ProvidesIsImplied
  <2>6. ProvidedFrom(stated, d) \subseteq ProvidedFrom(stated, e.from)
    BY <1>0, <2>2, <2>4, ProvidedSteps
  <2> QED
    BY <1>0, <2>5, <2>6
<1> QED
  BY <1>2, <1>3 DEF detectImpliedEdges

\* Every step keeps the invariant.
LEMMA ImpliedStep ==
  ASSUME NodesFinite, ImpliedAssumption, ImpliedInv, [INext]_ivars
  PROVE  ImpliedInv'
<1>1. ASSUME NEW e \in Edges, StateEdge(e) PROVE ImpliedInv'
  <2>1. edges' = edges \cup {e} /\ stated' = stated \cup {e}
    BY <1>1 DEF StateEdge
  <2>2. /\ edges' \subseteq Edges /\ stated' \subseteq edges'
        /\ \A d \in edges' \ stated' : d \in edges \ stated
    BY <2>1 DEF ImpliedInv
  <2>3. stated' \in SUBSET Edges /\ stated \in SUBSET stated'
    BY <2>1, <2>2
  <2>4. ASSUME NEW d \in edges' \ stated' PROVE d.to \in ProvidedFrom(stated', d.from)
    <3>1. d \in edges \ stated
      BY <2>2
    <3>2. d.from \in NodeIDs
      BY <3>1, EdgeEnds DEF ImpliedInv
    <3>3. d.to \in ProvidedFrom(stated, d.from)
      BY <3>1 DEF ImpliedInv, AcceptedIsImplied
    <3> QED
      BY <2>3, <3>2, <3>3, ProvidedMonotone
  <2> QED
    BY <2>2, <2>4 DEF ImpliedInv, AcceptedIsImplied
<1>2. ASSUME NEW e \in Edges, Accept(e) PROVE ImpliedInv'
  <2>1. edges' = edges \cup {e} /\ stated' = stated
    BY <1>2 DEF Accept
  <2>2. e \in Provisions /\ e.to \in ProvidedFrom(stated, e.from)
    BY <1>2, SuggestedIsImplied DEF Accept
  <2>3. e.type = "provides"
    BY <2>2 DEF Provisions
  <2> QED
    BY <2>1, <2>2, <2>3 DEF ImpliedInv, AcceptedIsImplied
<1>3. CASE UNCHANGED ivars
  BY <1>3 DEF ivars, ImpliedInv, AcceptedIsImplied
<1> QED
  BY <1>1, <1>2, <1>3 DEF INext

\* An answer that is empty although something is missing would overlook one of
\* the two rules: what is provided is closed under requiring, and under being
\* delegated to from the other end.
LEMMA QuietIsClosed ==
  ASSUME NodesFinite, ImpliedAssumption, ImpliedInv, detectImpliedEdges(edges) = {}
  PROVE  QuietMeansComplete
<1> DEFINE P(a, c) == [from |-> a, to |-> c, type |-> "provides"]
<1>0. edges \in SUBSET Edges /\ stated \in SUBSET Edges /\ stated \subseteq edges
  BY DEF ImpliedInv
<1>1. ASSUME NEW a \in NodeIDs, NEW c \in NodeIDs PROVE P(a, c) \in Provisions
  BY DEF Provisions
<1>2. ASSUME NEW e \in edges, e.type = "provides" PROVE e = P(e.from, e.to)
  BY <1>0, <1>2 DEF Edges
<1>3. ASSUME NEW a \in NodeIDs, NEW e \in stated, e.type = "requires", P(a, e.from) \in edges
      PROVE  P(a, e.to) \in edges
  <2>1. e.from \in NodeIDs /\ e.to \in NodeIDs
    BY <1>0, EdgeEnds
  <2>2. e.from \in provides(edges, a)
    BY <1>3 DEF provides, Succ
  <2>3. e.to \in requires(edges, e.from)
    BY <1>0, <1>3 DEF requires, Succ
  <2>4. e.to \in Reach(edges, a)
    <3>1. a \in Reach(edges, a) /\ Closed(edges, Reach(edges, a))
      BY <1>0, ReachClosed
    <3>2. e.from \in Reach(edges, a)
      BY <1>3, <3>1 DEF Closed
    <3> QED
      BY <1>0, <3>1, <3>2 DEF Closed
  <2>5. P(a, e.to) \notin ByRequirement(edges)
    BY DEF detectImpliedEdges
  <2> QED
    BY <1>1, <2>1, <2>2, <2>3, <2>4, <2>5 DEF ByRequirement
<1>4. ASSUME NEW c \in NodeIDs, NEW e \in stated, e.type = "can_delegate_to", P(e.to, c) \in edges
      PROVE  P(e.from, c) \in edges
  <2>1. e.from \in NodeIDs /\ e.to \in NodeIDs
    BY <1>0, EdgeEnds
  <2>2. c \in provides(edges, e.to)
    BY <1>4 DEF provides, Succ
  <2>3. e.to \in delegates(edges, e.from)
    BY <1>0, <1>4 DEF delegates, Succ
  <2>4. P(e.from, c) \notin ByDelegation(edges)
    BY DEF detectImpliedEdges
  <2> QED
    BY <1>1, <2>1, <2>2, <2>3, <2>4 DEF ByDelegation
<1>5. ASSUME NEW a \in NodeIDs, NEW c \in ProvidedFrom(stated, a) PROVE P(a, c) \in edges
  <2>1. PICK e \in stated : /\ e.type = "provides"
                            /\ e.from \in Along(stated, "can_delegate_to", a)
                            /\ c \in Along(stated, "requires", e.to)
    BY <1>5, ProvidedVia
  <2>2. e.from \in NodeIDs /\ e.to \in NodeIDs
    BY <1>0, EdgeEnds
  <2>3. P(e.from, c) \in edges /\ c \in NodeIDs
    <3> DEFINE S == {m \in NodeIDs : P(e.from, m) \in edges}
    <3>1. e.to \in S
      BY <1>0, <1>2, <2>1, <2>2
    <3>2. ASSUME NEW d \in stated, d.type = "requires", d.from \in S PROVE d.to \in S
      BY <1>0, <1>3, <2>2, <3>2, EdgeEnds
    <3> HIDE DEF S
    <3>3. Along(stated, "requires", e.to) \subseteq S
      BY <3>1, <3>2, AlongLeast
    <3> QED
      BY <2>1, <3>3 DEF S
  <2>4. ASSUME P(a, c) \notin edges PROVE FALSE
    <3> DEFINE S == {m \in NodeIDs : P(m, c) \notin edges}
    <3>1. a \in S
      BY <2>4
    <3>2. ASSUME NEW d \in stated, d.type = "can_delegate_to", d.from \in S PROVE d.to \in S
      BY <1>0, <1>4, <2>3, <3>2, EdgeEnds
    <3> HIDE DEF S
    <3>3. Along(stated, "can_delegate_to", a) \subseteq S
      BY <3>1, <3>2, AlongLeast
    <3> QED
      BY <2>1, <2>3, <3>3 DEF S
  <2> QED
    BY <2>4
<1> QED
  BY <1>5 DEF QuietMeansComplete

\* The invariant holds from the empty graph on.
LEMMA ImpliedInvariant == ISpec => []ImpliedInv
<1>1. IInit => ImpliedInv
  BY DEF IInit, ImpliedInv, AcceptedIsImplied
<1>2. ImpliedInv /\ [INext]_ivars => ImpliedInv'
  BY ImpliedStep, NodesFinite, ImpliedAssumption
<1> QED
  BY <1>1, <1>2, PTL DEF ISpec

\* In whatever order implied edges are accepted, and whatever is stated meanwhile,
\* no accepted edge says more than the stated edges imply.
THEOREM AcceptedImplied == ISpec => []AcceptedIsImplied
<1>1. ImpliedInv => AcceptedIsImplied
  BY DEF ImpliedInv
<1> QED
  BY <1>1, ImpliedInvariant, PTL

\* An empty answer means that nothing is left to accept.
THEOREM QuietComplete == ISpec => []QuietMeansComplete
<1>1. ImpliedInv => QuietMeansComplete
  <2>1. detectImpliedEdges(edges) # {} => QuietMeansComplete
    BY DEF QuietMeansComplete
  <2> QED
    BY <2>1, QuietIsClosed, NodesFinite, ImpliedAssumption
<1> QED
  BY <1>1, ImpliedInvariant, PTL

\* Where a client that accepts everything arrives does not depend on the order: as
\* soon as the answer is empty, an actor provides exactly what the stated edges imply.
QuietIsClosure ==
  detectImpliedEdges(edges) = {} =>
    \A a, c \in NodeIDs :
      [from |-> a, to |-> c, type |-> "provides"] \in edges <=> c \in ProvidedFrom(stated, a)

\* The two previous theorems together: once nothing is suggested, the "provides"
\* edges are a function of the stated ones.
THEOREM QuietExact == ISpec => []QuietIsClosure
<1>1. ImpliedInv => QuietIsClosure
  <2> SUFFICES ASSUME ImpliedInv, detectImpliedEdges(edges) = {},
                      NEW a \in NodeIDs, NEW c \in NodeIDs
               PROVE  [from |-> a, to |-> c, type |-> "provides"] \in edges
                        <=> c \in ProvidedFrom(stated, a)
    BY DEF QuietIsClosure
  <2> DEFINE p == [from |-> a, to |-> c, type |-> "provides"]
  <2>1. p.from = a /\ p.to = c /\ p.type = "provides"
    OBVIOUS
  <2>2. c \in ProvidedFrom(stated, a) => p \in edges
    BY QuietIsClosed, NodesFinite, ImpliedAssumption DEF QuietMeansComplete
  <2> HIDE DEF p
  <2>3. p \in edges => c \in ProvidedFrom(stated, a)
    BY <2>1, ProvidesIsImplied, NodesFinite
  <2> QED
    BY <2>2, <2>3 DEF p
<1> QED
  BY <1>1, ImpliedInvariant, PTL

\* detectImpliedEdges asks graph.AllPathsBetween whether the actor reaches the
\* required capability at all, "ensuring we only surface edges that are genuinely
\* implied".  It always does: the check refuses no edge, in any graph.
THEOREM PathCheckRefusesNothing ==
  ASSUME NEW E \in SUBSET Edges, NEW e \in Provisions,
         \E cap \in provides(E, e.from) : e.to \in requires(E, cap)
  PROVE  e.to \in Reach(E, e.from)
<1>1. PICK cap \in provides(E, e.from) : e.to \in requires(E, cap)
  OBVIOUS
<1>2. PICK p \in E : p.from = e.from /\ p.to = cap
  BY SuccEdge DEF provides
<1>3. PICK r \in E : r.from = cap /\ r.to = e.to
  BY <1>1, SuccEdge DEF requires
<1>4. e.from \in NodeIDs
  BY DEF Provisions
<1>5. e.from \in Reach(E, e.from) /\ Closed(E, Reach(E, e.from))
  BY <1>4, ReachClosed, NodesFinite
<1>6. cap \in Reach(E, e.from)
  BY <1>2, <1>5 DEF Closed
<1> QED
  BY <1>3, <1>5, <1>6 DEF Closed

----------------------------------------------------------------------------
(* The analyses and the linter on one graph.                               *)

\* A finite set has finitely many images: none only when it is empty, and one when
\* all its members have the same.
LEMMA Images ==
  ASSUME NEW S, IsFiniteSet(S), NEW f, DOMAIN f = S
  PROVE  LET T == {f[x] : x \in S}
         IN  /\ Cardinality(T) \in Nat /\ (Cardinality(T) = 0 <=> S = {})
             /\ Cardinality(T) <= 1 <=> \A x, y \in S : f[x] = f[y]
<1> DEFINE T == {f[x] : x \in S}
           g == [x \in S |-> f[x]]
<1>1. g \in [S -> T] /\ \A t \in T : \E x \in S : g[x] = t
  OBVIOUS
<1>2. g \in Surjection(S, T)
  BY <1>1 DEF Surjection
<1>3. IsFiniteSet(T)
  BY <1>2, FS_Surjection
<1>4. Cardinality(T) \in Nat
  BY <1>3, FS_CardinalityType
<1>5. Cardinality(T) = 0 <=> T = {}
  BY <1>3, FS_EmptySet
<1>6. T = {} <=> S = {}
  OBVIOUS
<1>7. Cardinality(T) <= 1 <=> T = {} \/ \E t : T = {t}
  <2>1. Cardinality(T) = 1 <=> \E t : T = {t}
    BY <1>3, FS_Singleton
  <2>2. Cardinality(T) <= 1 <=> Cardinality(T) = 0 \/ Cardinality(T) = 1
    BY <1>4
  <2> QED
    BY <1>5, <2>1, <2>2
<1>8. (T = {} \/ \E t : T = {t}) <=> \A x, y \in S : f[x] = f[y]
  <2>1. ASSUME NEW t, T = {t}, NEW x \in S, NEW y \in S PROVE f[x] = f[y]
    BY <2>1
  <2>2. ASSUME \A x, y \in S : f[x] = f[y], NEW x \in S PROVE T = {f[x]}
    BY <2>2
  <2> QED
    BY <1>6, <2>1, <2>2
<1> QED
  BY <1>4, <1>5, <1>6, <1>7, <1>8

\* A part of a finite set of edges has no neighbours only if it has no edge, and
\* at most one only if all of them lead to the same.
LEMMA Neighbours ==
  ASSUME NEW E, IsFiniteSet(E), NEW F \in SUBSET E
  PROVE  /\ Cardinality(F) \in Nat
         /\ Cardinality(F) = 0 <=> F = {}
         /\ Cardinality({e.from : e \in F}) \in Nat
         /\ Cardinality({e.from : e \in F}) = 0 <=> F = {}
         /\ Cardinality({e.from : e \in F}) <= 1 <=> \A d, e \in F : d.from = e.from
         /\ Cardinality({e.to : e \in F}) \in Nat
         /\ Cardinality({e.to : e \in F}) = 0 <=> F = {}
         /\ Cardinality({e.to : e \in F}) <= 1 <=> \A d, e \in F : d.to = e.to
<1>1. IsFiniteSet(F)
  BY FS_Subset
<1>2. Cardinality(F) \in Nat /\ (Cardinality(F) = 0 <=> F = {})
  BY <1>1, FS_CardinalityType, FS_EmptySet
<1>3. /\ Cardinality({e.from : e \in F}) \in Nat
      /\ Cardinality({e.from : e \in F}) = 0 <=> F = {}
      /\ Cardinality({e.from : e \in F}) <= 1 <=> \A d, e \in F : d.from = e.from
  <2> DEFINE f == [e \in F |-> e.from]
  <2>1. /\ DOMAIN f = F /\ {f[e] : e \in F} = {e.from : e \in F}
        /\ \A e \in F : f[e] = e.from
    OBVIOUS
  <2> HIDE DEF f
  <2>2. /\ Cardinality({f[e] : e \in F}) \in Nat
        /\ Cardinality({f[e] : e \in F}) = 0 <=> F = {}
        /\ Cardinality({f[e] : e \in F}) <= 1 <=> \A d, e \in F : f[d] = f[e]
    BY <1>1, <2>1, Images
  <2>3. (\A d, e \in F : f[d] = f[e]) <=> \A d, e \in F : d.from = e.from
    BY <2>1
  <2>4. {f[e] : e \in F} = {e.from : e \in F}
    BY <2>1
  <2> QED
    BY <2>2, <2>3, <2>4
<1>4. /\ Cardinality({e.to : e \in F}) \in Nat
      /\ Cardinality({e.to : e \in F}) = 0 <=> F = {}
      /\ Cardinality({e.to : e \in F}) <= 1 <=> \A d, e \in F : d.to = e.to
  <2> DEFINE f == [e \in F |-> e.to]
  <2>1. /\ DOMAIN f = F /\ {f[e] : e \in F} = {e.to : e \in F}
        /\ \A e \in F : f[e] = e.to
    OBVIOUS
  <2> HIDE DEF f
  <2>2. /\ Cardinality({f[e] : e \in F}) \in Nat
        /\ Cardinality({f[e] : e \in F}) = 0 <=> F = {}
        /\ Cardinality({f[e] : e \in F}) <= 1 <=> \A d, e \in F : f[d] = f[e]
    BY <1>1, <2>1, Images
  <2>3. (\A d, e \in F : f[d] = f[e]) <=> \A d, e \in F : d.to = e.to
    BY <2>1
  <2>4. {f[e] : e \in F} = {e.to : e \in F}
    BY <2>1
  <2> QED
    BY <2>2, <2>3, <2>4
<1> QED
  BY <1>2, <1>3, <1>4

\* The degrees, by what they tell: whether there is an edge at all, and whether
\* there are two neighbours.
LEMMA Degrees ==
  ASSUME IsFiniteSet(edges), NEW n
  PROVE  /\ inDeg(n) \in Nat /\ (inDeg(n) = 0 <=> To(n) = {})
         /\ inDeg(n) <= 1 <=> \A d, e \in To(n) : d.from = e.from
         /\ outDeg(n) \in Nat /\ (outDeg(n) = 0 <=> From(n) = {})
         /\ outDeg(n) <= 1 <=> \A d, e \in From(n) : d.to = e.to
         /\ providerCount(n) = 0 <=> ~ HasEdge(To(n), "provides")
<1>1. To(n) \in SUBSET edges /\ From(n) \in SUBSET edges
  BY DEF To, From
<1>2. {e \in To(n) : e.type = "provides"} \in SUBSET edges
  BY <1>1
<1>3. {e \in To(n) : e.type = "provides"} = {} <=> ~ HasEdge(To(n), "provides")
  BY DEF HasEdge
<1> QED
  BY <1>1, <1>2, <1>3, Neighbours DEF inDeg, outDeg, providerCount

\* The same of the next state.
LEMMA DegreesNext ==
  ASSUME IsFiniteSet(edges'), NEW n
  PROVE  /\ inDeg(n)' = 0 <=> To(n)' = {}
         /\ outDeg(n)' = 0 <=> From(n)' = {}
<1>1. To(n)' \in SUBSET edges' /\ From(n)' \in SUBSET edges'
  BY DEF To, From
<1> QED
  BY <1>1, Neighbours DEF inDeg, outDeg

\* What Holes reports of a capability.
LEMMA CapabilityKinds ==
  ASSUME IsFiniteSet(edges), NEW c, type[c] = "capability"
  PROVE  /\ "isolated_node" \in Holes(c) <=> To(c) = {} /\ From(c) = {}
         /\ "capability_no_provider" \in Holes(c)
              <=> (To(c) # {} \/ From(c) # {}) /\ ~ HasEdge(To(c), "provides")
         /\ "capability_no_policy" \in Holes(c)
              <=> (To(c) # {} \/ From(c) # {}) /\ ~ HasEdge(To(c), "governs")
<1>1. Isolated(c) <=> To(c) = {} /\ From(c) = {}
  BY Degrees DEF Isolated
<1>2. ASSUME NEW k \in {"isolated_node", "capability_no_provider", "capability_no_policy"}
      PROVE  k \in Holes(c) <=> k \in RoleHoles(c)
  BY DEF Holes
<1>3. CASE Isolated(c)
  BY <1>1, <1>2, <1>3 DEF RoleHoles
<1>4. CASE ~ Isolated(c)
  <2>1. ASSUME NEW k \in {"isolated_node", "capability_no_provider", "capability_no_policy"}
        PROVE  k \in RoleHoles(c) <=> k \in CapabilityHoles(c)
    BY <1>4 DEF RoleHoles
  <2>2. /\ "isolated_node" \notin CapabilityHoles(c)
        /\ "capability_no_provider" \in CapabilityHoles(c) <=> ~ HasEdge(To(c), "provides")
        /\ "capability_no_policy" \in CapabilityHoles(c) <=> ~ HasEdge(To(c), "governs")
    BY DEF CapabilityHoles
  <2> QED
    BY <1>1, <1>2, <1>4, <2>1, <2>2
<1> QED
  BY <1>3, <1>4

\* What Gaps reports of a capability without provider.
LEMMA NoProviderKind ==
  ASSUME IsFiniteSet(edges), NEW c, type[c] = "capability"
  PROVE  "no_provider" \in Gaps(c) <=> ~ HasEdge(To(c), "provides")
<1>1. "no_provider" \in Gaps(c) <=> providerCount(c) = 0
  BY DEF Gaps
<1> QED
  BY <1>1, Degrees

\* No row leaves a model version, so its edges only grow, one at a time.
LEMMA EdgesFinite == Spec => []IsFiniteSet(edges)
<1>1. Init => IsFiniteSet(edges)
  BY FS_EmptySet DEF Init
<1>2. IsFiniteSet(edges) /\ [Next]_vars => IsFiniteSet(edges)'
  <2> SUFFICES ASSUME IsFiniteSet(edges), [Next]_vars PROVE IsFiniteSet(edges')
    OBVIOUS
  <2>1. edges' = edges \/ \E e : edges' = edges \cup {e}
    BY DEF Next, vars, PutNode, PutEdge, PutAvailability
  <2> QED
    BY <2>1, FS_AddElement
<1> QED
  BY <1>1, <1>2, PTL DEF Spec

\* A model that lints clean as an enabled model builds a graph, and neither persona
\* misses a provider or policy in it.
THEOREM LintedSound == Spec => []LintedModelIsSound
<1>1. ASSUME NEW mode, LintOK(mode) PROVE Builds
  BY <1>1 DEF LintOK, BadRefs, Builds
<1>2. ASSUME IsFiniteSet(edges), LintOK("enabled_model"), NEW c \in OfType("capability")
      PROVE  /\ Holes(c) \cap {"isolated_node", "capability_no_provider",
                               "capability_no_policy"} = {}
             /\ "no_provider" \notin Gaps(c)
  <2>1. type[c] = "capability"
    BY DEF OfType
  <2>2. CapabilityIssues(c) = {}
    BY <1>2 DEF LintOK
  <2>3. "CAP_NO_PROVIDER" \notin CapabilityIssues(c) /\ "CAP_NO_POLICY" \notin CapabilityIssues(c)
    BY <2>2
  <2>4. HasEdge(To(c), "provides") /\ HasEdge(To(c), "governs")
    BY <2>3 DEF CapabilityIssues
  <2>5. To(c) # {}
    BY <2>4 DEF HasEdge
  <2> QED
    BY <1>2, <2>1, <2>4, <2>5, CapabilityKinds, NoProviderKind
<1>3. IsFiniteSet(edges) => LintedModelIsSound
  BY <1>1, <1>2 DEF LintedModelIsSound
<1> QED
  BY <1>3, EdgesFinite, PTL

\* Waypoint misses the provider of exactly the capabilities that Frontier calls
\* isolated or without provider.
THEOREM PersonasAgreed == Spec => []PersonasAgree
<1>1. ASSUME IsFiniteSet(edges), NEW c \in OfType("capability")
      PROVE  "no_provider" \in Gaps(c)
               <=> Holes(c) \cap {"isolated_node", "capability_no_provider"} # {}
  <2>1. type[c] = "capability"
    BY DEF OfType
  <2>2. To(c) = {} => ~ HasEdge(To(c), "provides")
    BY DEF HasEdge
  <2> QED
    BY <1>1, <2>1, <2>2, CapabilityKinds, NoProviderKind
<1>2. IsFiniteSet(edges) => PersonasAgree
  BY <1>1 DEF PersonasAgree
<1> QED
  BY <1>2, EdgesFinite, PTL

\* What an analysis no longer reports of a node it never reports again.
THEOREM RepairsKept == Spec => RepairsLast
<1>1. ASSUME IsFiniteSet(edges), IsFiniteSet(edges'), [Next]_vars, NEW n \in nodes
      PROVE  /\ ~ Isolated(n) => ~ Isolated(n)'
             /\ type'[n] = type[n] /\ ~ Isolated(n) => RoleHoles(n)' \subseteq RoleHoles(n)
  <2>1. edges \subseteq edges'
    BY <1>1 DEF Next, vars, PutNode, PutEdge, PutAvailability
  <2>2. To(n) \subseteq To(n)' /\ From(n) \subseteq From(n)'
    BY <2>1 DEF To, From
  <2>3. ~ Isolated(n) => ~ Isolated(n)'
    BY <1>1, <2>2, Degrees, DegreesNext DEF Isolated
  <2>4. ASSUME type'[n] = type[n], ~ Isolated(n), NEW k \in RoleHoles(n)'
        PROVE  k \in RoleHoles(n)
    <3>1. ~ Isolated(n)'
      BY <2>3, <2>4
    <3>2. outDeg(n)' = 0 => outDeg(n) = 0
      BY <1>1, <2>2, Degrees, DegreesNext
    <3>3. CapabilityHoles(n)' \subseteq CapabilityHoles(n)
      <4>1. /\ HasEdge(To(n), "provides") => HasEdge(To(n), "provides")'
            /\ HasEdge(To(n), "governs") => HasEdge(To(n), "governs")'
        BY <2>2 DEF HasEdge
      <4> QED
        BY <2>4, <4>1 DEF CapabilityHoles
    <3>4. HasEdge(From(n), "governs") => HasEdge(From(n), "governs")'
      BY <2>2 DEF HasEdge
    <3> QED
      BY <2>4, <3>1, <3>2, <3>3, <3>4 DEF RoleHoles
  <2> QED
    BY <2>3, <2>4
<1>2. IsFiniteSet(edges) /\ IsFiniteSet(edges)' /\ [Next]_vars
        => [\A n \in nodes :
              /\ ~ Isolated(n) => ~ Isolated(n)'
              /\ type'[n] = type[n] /\ ~ Isolated(n) => RoleHoles(n)' \subseteq RoleHoles(n)]_vars
  BY <1>1
<1> QED
  BY <1>2, EdgesFinite, PTL DEF Spec, RepairsLast

----------------------------------------------------------------------------
(* Boundary nodes and structural holes.                                    *)

\* The edges and nodes of the model are edges and nodes.
LEMMA ModelTyped == Spec => [](edges \subseteq Edges /\ nodes \subseteq NodeIDs)
<1>1. Init => edges \subseteq Edges /\ nodes \subseteq NodeIDs
  BY DEF Init, nodes
<1>2. (edges \subseteq Edges /\ nodes \subseteq NodeIDs) /\ [Next]_vars
        => (edges \subseteq Edges /\ nodes \subseteq NodeIDs)'
  <2> SUFFICES ASSUME edges \subseteq Edges, nodes \subseteq NodeIDs, [Next]_vars
               PROVE  edges' \subseteq Edges /\ nodes' \subseteq NodeIDs
    OBVIOUS
  <2>1. edges' = edges \/ \E e \in Edges : edges' = edges \cup {e}
    BY DEF Next, vars, PutNode, PutEdge, PutAvailability
  <2>2. nodes' = nodes \/ \E n \in NodeIDs : nodes' = nodes \cup {n}
    BY DEF Next, vars, PutNode, PutEdge, PutAvailability, nodes
  <2> QED
    BY <2>1, <2>2
<1> QED
  BY <1>1, <1>2, PTL DEF Spec

\* A node that hangs on another one, in one direction, is on no cycle with it.
LEMMA HangingAlone ==
  ASSUME NodesFinite, edges \subseteq Edges, nodes \subseteq NodeIDs,
         NEW n \in nodes, From(n) = {} \/ To(n) = {}
  PROVE  SCC(n) = {n}
<1>1. n \in SCC(n)
  BY ReachClosed DEF SCC
<1>2. ASSUME NEW x \in SCC(n), x # n PROVE FALSE
  <2>1. x \in nodes /\ x \in Reach(edges, n) /\ n \in Reach(edges, x)
    BY DEF SCC
  <2>2. CASE From(n) = {}
    <3>1. Closed(edges, {n})
      BY <2>2 DEF Closed, From
    <3>2. Reach(edges, n) \subseteq {n}
      BY <3>1, ReachLeast
    <3> QED
      BY <1>2, <2>1, <3>2
  <2>3. CASE To(n) = {}
    <3> DEFINE S == NodeIDs \ {n}
    <3>1. Closed(edges, S)
      BY <2>3 DEF Closed, To, Edges
    <3>2. x \in S
      BY <1>2, <2>1
    <3>3. Reach(edges, x) \subseteq S
      BY <3>1, <3>2, ReachLeast
    <3> QED
      BY <2>1, <3>3
  <2> QED
    BY <2>2, <2>3
<1> QED
  BY <1>1, <1>2

\* The boundary nodes are those that hang loose.
LEMMA BoundaryEdges ==
  ASSUME IsFiniteSet(edges), Builds, NEW n \in nodes
  PROVE  n \in Boundary <=> HangsLoose(n)
<1>1. n \in Boundary
        <=> \/ To(n) = {} /\ \A d, e \in From(n) : d.to = e.to
            \/ From(n) = {} /\ \A d, e \in To(n) : d.from = e.from
  <2>1. n \in Boundary <=> inDeg(n) + outDeg(n) <= 1
    BY DEF Boundary
  <2>2. inDeg(n) \in Nat /\ outDeg(n) \in Nat
    BY Degrees
  <2>3. inDeg(n) + outDeg(n) <= 1
          <=> \/ inDeg(n) = 0 /\ outDeg(n) <= 1
              \/ outDeg(n) = 0 /\ inDeg(n) <= 1
    BY <2>2
  <2> QED
    BY <2>1, <2>3, Degrees
<1>2. ASSUME NEW e \in To(n), From(n) = {} PROVE e.from \in nodes \ {n}
  BY <1>2 DEF To, From, Builds
<1>3. ASSUME NEW e \in From(n), To(n) = {} PROVE e.to \in nodes \ {n}
  BY <1>3 DEF To, From, Builds
<1>4. ASSUME From(n) = {}, \A d, e \in To(n) : d.from = e.from PROVE HangsLoose(n)
  BY <1>2, <1>4 DEF HangsLoose
<1>5. ASSUME To(n) = {}, \A d, e \in From(n) : d.to = e.to PROVE HangsLoose(n)
  BY <1>3, <1>5 DEF HangsLoose
<1>6. ASSUME HangsLoose(n)
      PROVE  \/ To(n) = {} /\ \A d, e \in From(n) : d.to = e.to
             \/ From(n) = {} /\ \A d, e \in To(n) : d.from = e.from
  BY <1>6 DEF HangsLoose
<1> QED
  BY <1>1, <1>4, <1>5, <1>6

\* Boundary shows what hangs loose, and Holes has every such node for one of the
\* two reasons.
THEOREM BoundaryLoose == Spec => []BoundaryHangsLoose
<1>1. ASSUME IsFiniteSet(edges), NEW n, "isolated_node" \in Holes(n)
      PROVE  To(n) = {} /\ From(n) = {}
  <2>1. Isolated(n)
    BY <1>1 DEF Holes, RoleHoles, CapabilityHoles
  <2> QED
    BY <1>1, <2>1, Degrees DEF Isolated
<1>2. ASSUME IsFiniteSet(edges), NEW n, To(n) = {}, From(n) = {}
      PROVE  "isolated_node" \in Holes(n) /\ "structural_hole" \notin Holes(n)
  <2>1. Isolated(n)
    BY <1>2, Degrees DEF Isolated
  <2>2. ~ StructuralHole(n)
    BY <1>2 DEF StructuralHole
  <2> QED
    BY <2>1, <2>2 DEF Holes, RoleHoles
<1>3. ASSUME NodesFinite, edges \subseteq Edges, nodes \subseteq NodeIDs, Builds,
             NEW n \in nodes, HangsLoose(n), NEW e \in To(n) \cup From(n)
      PROVE  "structural_hole" \in Holes(n)
  <2>1. From(n) = {} \/ To(n) = {}
    BY <1>3 DEF HangsLoose
  <2>2. SCC(n) = {n}
    BY <1>3, <2>1, HangingAlone
  <2>3. e \in edges /\ e.from \in nodes /\ e.to \in nodes
    BY <1>3 DEF To, From, Builds
  <2>4. e.from \in SCC(e.from) /\ e.to \in SCC(e.to)
    BY <1>3, <2>3, ReachClosed DEF SCC
  <2>5. e.from # e.to /\ n \in {e.from, e.to}
    BY <2>1, <2>3 DEF To, From
  <2>6. SCC(e.from) # SCC(e.to)
    BY <2>2, <2>4, <2>5
  <2> QED
    BY <2>2, <2>6 DEF Holes, StructuralHole
<1>4. ASSUME NodesFinite, IsFiniteSet(edges), edges \subseteq Edges, nodes \subseteq NodeIDs
      PROVE  BoundaryHangsLoose
  <2>1. ASSUME Builds, NEW n \in nodes, HangsLoose(n)
        PROVE  "structural_hole" \in Holes(n) <=> "isolated_node" \notin Holes(n)
    BY <1>1, <1>2, <1>3, <1>4, <2>1
  <2> QED
    BY <1>4, <2>1, BoundaryEdges DEF BoundaryHangsLoose
<1> QED
  BY <1>4, EdgesFinite, ModelTyped, NodesFinite, PTL

\* frontier/analysis.go:248 "singleton SCCs that have both incoming and outgoing
\* inter-SCC edges" is not what the code finds: where there are no cycles, an edge to
\* another node in either direction makes a node a hole.
THEOREM AcyclicHoles ==
  ASSUME \A m \in nodes : SCC(m) = {m}, Builds,
         NEW n \in nodes, NEW e \in To(n) \cup From(n), e.from # e.to
  PROVE  "structural_hole" \in Holes(n)
<1>1. e \in edges
  BY DEF To, From
<1>2. e.from \in nodes /\ e.to \in nodes
  BY <1>1 DEF Builds
<1>3. SCC(e.from) # SCC(e.to)
  BY <1>2
<1> QED
  BY <1>3 DEF Holes, StructuralHole
=============================================================================
