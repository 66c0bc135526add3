--------------------------- MODULE ObjectsProofs ---------------------------
(***************************************************************************)
(* Theorems about Objects.  Nothing refuses a second row of a version, and *)
(* still OInv is inductive: while nobody deletes the rows of a node,       *)
(* MAX(version) only grows, so a version that a Put computed is at most    *)
(* one above it when the row is written, whether it is taken or not.  For  *)
(* nodes whose rows were deleted OInv says only that their versions are    *)
(* bounded, so that MAX(version) is a number.                              *)
(***************************************************************************)
EXTENDS Objects, VersionedRowsProofs

\* The larger of two numbers, as the history variable seen takes it.
LEMMA MaxOfTwo ==
  ASSUME NEW a \in Nat, NEW b \in Nat
  PROVE  Max({a, b}) \in {a, b}
<1> DEFINE n == IF a <= b THEN b ELSE a
<1>1. n \in Nat /\ {a, b} \in SUBSET (0 .. n) /\ {a, b} # {}
  OBVIOUS
<1> HIDE DEF n
<1> QED
  BY <1>1, MaxOfBounded

\* A row of a version that exists, or that is the next one, leaves the history
\* of its key dense.
LEMMA InsertAtMostNext ==
  ASSUME NEW R, NEW x,
         DenseKey(R, x.key), Latest(R, x.key) \in Nat,
         x.version \in Nat, 1 <= x.version, x.version <= Latest(R, x.key) + 1
  PROVE  /\ DenseKey(R \cup {x}, x.key)
         /\ Latest(R \cup {x}, x.key) \in Nat
         /\ Latest(R, x.key) <= Latest(R \cup {x}, x.key)
<1>1. CASE Occupied(R, x.key, x.version)
  <2>1. x.version \in Versions(R, x.key)
    BY <1>1 DEF Occupied
  <2>2. Versions(R \cup {x}, x.key) = Versions(R, x.key) \cup {x.version}
    BY VersionsOfInsert
  <2>3. Versions(R \cup {x}, x.key) = Versions(R, x.key)
    BY <2>1, <2>2
  <2>4. Latest(R \cup {x}, x.key) = Latest(R, x.key)
    BY <2>3 DEF Latest
  <2> QED
    BY <2>3, <2>4 DEF DenseKey
<1>2. CASE ~ Occupied(R, x.key, x.version)
  BY <1>2, InsertNext
<1> QED
  BY <1>1, <1>2

----------------------------------------------------------------------------
(* The invariant.                                                          *)

NodeKept(k) ==
  /\ \E n \in Nat : Versions(objects, k) \subseteq 0 .. n
  /\ k \notin deleted => DenseKey(objects, k) /\ seen[k] <= Latest(objects, k)

\* What a Put has computed, written and compared.
PutKept(q) ==
  /\ q.stage = "insert" =>
       /\ 1 <= q.next
       /\ q.key \notin deleted => q.next <= Latest(objects, q.key) + 1
  /\ q.stage \in {"inserted", "stored", "lost"} =>
       /\ 1 <= q.next
       /\ q.key \notin deleted => q.next <= Latest(objects, q.key)
  /\ /\ q.stage \in {"next", "insert", "inserted", "stored", "lost"}
     /\ q.expected # NoVersion /\ q.key \notin deleted
     => /\ q.expected <= Latest(objects, q.key)
        /\ q.stage # "next" => q.expected < q.next

\* What a reader has in hand, and what it was shown before it asked.
ReadKept(q) ==
  /\ q.stage = "doomed" => \A o \in q.rows : o.key = q.key
  /\ q.key \notin deleted =>
       /\ q.stage = "select" => q.floor <= Latest(objects, q.key)
       /\ q.stage \in {"read", "found"} =>
            \A o \in q.rows : q.floor <= o.version
       /\ q.stage = "read" => q.rows \subseteq RowsOf(q.key)
       /\ q.stage = "absent" /\ q.floor > 0 =>
            \E o \in RowsOf(q.key) : q.floor <= o.version /\ Expired(o)

OInv ==
  /\ OTypeOK
  /\ \A k \in NodeIDs : NodeKept(k)
  /\ \A r \in Callers : PutKept(oreq[r]) /\ ReadKept(oreq[r])

\* MAX(version) of a node is a number and bounds its versions.
LEMMA LatestIsNat ==
  ASSUME OInv, NEW k \in NodeIDs
  PROVE  /\ Latest(objects, k) \in Nat
         /\ \A v \in Versions(objects, k) : v <= Latest(objects, k)
<1>1. PICK n \in Nat : Versions(objects, k) \subseteq 0 .. n
  BY DEF OInv, NodeKept
<1> QED
  BY <1>1, LatestOfBounded

\* Nothing is stored and no call has started.
LEMMA OInitInv == ASSUME ObjectsAssumption, OInit PROVE OInv
<1>1. OTypeOK
  BY DEF OInit, OTypeOK, ObjectsAssumption, CallStates, Stages, Running, Body
<1>2. \A k \in NodeIDs : NodeKept(k)
  <2> SUFFICES ASSUME NEW k \in NodeIDs PROVE NodeKept(k)
    OBVIOUS
  <2>1. Versions(objects, k) = {} /\ Latest(objects, k) = 0 /\ DenseKey(objects, k)
    BY EmptyTable DEF OInit
  <2>2. Versions(objects, k) \subseteq 0 .. 0
    BY <2>1
  <2> QED
    BY <2>1, <2>2 DEF OInit, NodeKept
<1>3. \A r \in Callers : PutKept(oreq[r]) /\ ReadKept(oreq[r])
  BY DEF OInit, PutKept, ReadKept
<1> QED
  BY <1>1, <1>2, <1>3 DEF OInv

----------------------------------------------------------------------------
(* The steps.                                                              *)

\* A step that leaves the table alone and moves one call, showing its caller at
\* most the latest version of the node.
LEMMA CallMoves ==
  ASSUME OInv, UNCHANGED <<objects, now, deleted>>,
         NEW r \in Callers, NEW q \in CallStates, PutKept(q), ReadKept(q),
         oreq' = [oreq EXCEPT ![r] = q],
         seen' \in [NodeIDs -> Nat],
         \A k \in NodeIDs \ deleted : seen'[k] <= Latest(objects, k)
  PROVE  OInv'
<1>1. OTypeOK'
  BY DEF OInv, OTypeOK
<1>2. ASSUME NEW k \in NodeIDs PROVE NodeKept(k)'
  BY DEF OInv, NodeKept
<1>3. \A s \in Callers : oreq'[s] \in {oreq[s], q}
  BY DEF OInv, OTypeOK
<1>4. ASSUME NEW s \in Callers PROVE PutKept(oreq[s])' /\ ReadKept(oreq[s])'
  <2>1. PutKept(oreq'[s]) /\ ReadKept(oreq'[s])
    BY <1>3 DEF OInv
  <2> QED
    BY <2>1 DEF PutKept, ReadKept, RowsOf, Expired
<1> QED
  BY <1>1, <1>2, <1>4 DEF OInv

\* A step that answers nobody leaves what was seen alone.
LEMMA Unseen ==
  ASSUME OInv, UNCHANGED seen
  PROVE  /\ seen' \in [NodeIDs -> Nat]
         /\ \A k \in NodeIDs \ deleted : seen'[k] <= Latest(objects, k)
BY DEF OInv, OTypeOK, NodeKept

\* An answer carries a version that is not above MAX(version).
LEMMA SawKept ==
  ASSUME OInv, NEW k \in NodeIDs, NEW v \in Nat, Saw(k, v),
         k \notin deleted => v <= Latest(objects, k)
  PROVE  /\ seen' \in [NodeIDs -> Nat]
         /\ \A j \in NodeIDs \ deleted : seen'[j] <= Latest(objects, j)
<1>1. seen \in [NodeIDs -> Nat]
  BY DEF OInv, OTypeOK
<1>2. seen' = [seen EXCEPT ![k] = Max({seen[k], v})]
  BY DEF Saw
<1>3. Max({seen[k], v}) \in {seen[k], v}
  BY <1>1, MaxOfTwo
<1> QED
  BY <1>1, <1>2, <1>3 DEF OInv, NodeKept

\* The calls that only read, ask or answer.
LEMMA AskStep ==
  ASSUME ObjectsAssumption, OInv, NEW r \in Callers,
         Put(r) \/ PutInvalid(r) \/ PutCheck(r) \/ PutNext(r) \/ PutAnswer(r)
  PROVE  OInv'
<1> DEFINE p == oreq[r]
<1>0. p \in CallStates /\ PutKept(p) /\ ReadKept(p) /\ p.key \in NodeIDs
  BY DEF OInv, OTypeOK, CallStates
<1>l. /\ Latest(objects, p.key) \in Nat
      /\ \A v \in Versions(objects, p.key) : v <= Latest(objects, p.key)
  BY <1>0, LatestIsNat
<1>1. CASE Put(r)
  <2>1. PICK k \in NodeIDs, b \in Bodies, e \in (0 .. MaxExpected) \cup {NoVersion},
             t \in Tags \cup {Nothing}, d \in 0 .. MaxTTL :
          /\ Valid(b)
          /\ oreq' = [oreq EXCEPT ![r].stage = "check", ![r].key = k, ![r].body = b,
                        ![r].expected = e, ![r].tag = t, ![r].ttl = d]
    BY <1>1 DEF Put
  <2> DEFINE q == [p EXCEPT !.stage = "check", !.key = k, !.body = b, !.expected = e,
                            !.tag = t, !.ttl = d]
  <2>a. b \in Body
    BY DEF ObjectsAssumption, Body
  <2>b. e \in Nat \cup {NoVersion} /\ t \in Payloads \cup {Nothing} /\ d \in Nat
    BY DEF ObjectsAssumption
  <2>2. q \in CallStates
    BY <1>0, <2>a, <2>b DEF CallStates, Stages, Running
  <2>3. PutKept(q) /\ ReadKept(q)
    BY <1>0 DEF PutKept, ReadKept, CallStates
  <2>4. oreq' = [oreq EXCEPT ![r] = q]
    BY <2>1
  <2> HIDE DEF q
  <2> QED
    BY <1>1, <2>2, <2>3, <2>4, CallMoves, Unseen DEF Put
<1>2. CASE PutInvalid(r)
  <2> DEFINE q == [p EXCEPT !.stage = "failed"]
  <2>1. q \in CallStates /\ PutKept(q) /\ ReadKept(q)
    BY <1>0 DEF CallStates, Stages, PutKept, ReadKept
  <2>2. oreq' = [oreq EXCEPT ![r] = q]
    BY <1>2 DEF PutInvalid
  <2> HIDE DEF q
  <2> QED
    BY <1>2, <2>1, <2>2, CallMoves, Unseen DEF PutInvalid
<1>3. CASE PutCheck(r)
  <2>1. CASE VersionExpected(p) /\ TagMatches(p)
    <3> DEFINE x == IF p.ttl = 0 THEN 0 ELSE now + p.ttl
               q == [p EXCEPT !.stage = "next", !.tag = Nothing, !.ttl = 0, !.expires = x]
    <3>1. x \in Nat
      BY <1>0 DEF CallStates, OInv, OTypeOK
    <3>2. q \in CallStates
      BY <1>0, <3>1 DEF CallStates, Stages, Running
    <3>3. q.stage = "next" /\ q.expected = p.expected /\ q.key = p.key
      BY <1>0 DEF CallStates
    <3>4. q.expected # NoVersion => q.expected <= Latest(objects, q.key)
      BY <1>l, <2>1, <3>3 DEF VersionExpected
    <3>5. oreq' = [oreq EXCEPT ![r] = q]
      BY <1>3, <2>1 DEF PutCheck
    <3> HIDE DEF q
    <3>6. PutKept(q) /\ ReadKept(q)
      BY <3>3, <3>4 DEF PutKept, ReadKept
    <3> QED
      BY <1>3, <3>2, <3>5, <3>6, CallMoves, Unseen DEF PutCheck
  <2>2. CASE ~ (VersionExpected(p) /\ TagMatches(p))
    <3> DEFINE q == [p EXCEPT !.stage = "conflict", !.tag = Nothing, !.ttl = 0]
    <3>1. q \in CallStates /\ PutKept(q) /\ ReadKept(q)
      BY <1>0 DEF CallStates, Stages, PutKept, ReadKept
    <3>2. oreq' = [oreq EXCEPT ![r] = q]
      BY <1>3, <2>2 DEF PutCheck
    <3> HIDE DEF q
    <3> QED
      BY <1>3, <3>1, <3>2, CallMoves, Unseen DEF PutCheck
  <2> QED
    BY <2>1, <2>2
<1>4. CASE PutNext(r)
  <2> DEFINE n == Latest(objects, p.key) + 1
             q == [p EXCEPT !.stage = "insert", !.next = n]
  <2>0. n \in Nat
    BY <1>l
  <2> HIDE DEF n
  <2>1. q \in CallStates
    BY <1>0, <2>0 DEF CallStates, Stages, Running
  <2>2. /\ q.stage = "insert" /\ q.next = n /\ q.key = p.key
        /\ q.expected = p.expected /\ q.expected \in Nat \cup {NoVersion}
    BY <1>0 DEF CallStates
  <2>3. p.stage = "next"
    BY <1>4 DEF PutNext
  <2>4. oreq' = [oreq EXCEPT ![r] = q]
    BY <1>4 DEF PutNext, NextVersion, n
  <2> HIDE DEF q
  <2>5. PutKept(q) /\ ReadKept(q)
    BY <1>0, <1>l, <2>0, <2>2, <2>3 DEF PutKept, ReadKept, n
  <2> QED
    BY <1>4, <2>1, <2>4, <2>5, CallMoves, Unseen DEF PutNext
<1>5. CASE PutAnswer(r)
  <2> DEFINE q == [p EXCEPT !.stage = "stored"]
  <2>1. p.stage = "inserted"
    BY <1>5 DEF PutAnswer
  <2>2. q \in CallStates /\ PutKept(q) /\ ReadKept(q)
    BY <1>0, <2>1 DEF CallStates, Stages, PutKept, ReadKept
  <2>3. oreq' = [oreq EXCEPT ![r] = q]
    BY <1>5 DEF PutAnswer
  <2>4. /\ p.next \in Nat /\ Saw(p.key, p.next)
        /\ p.key \notin deleted => p.next <= Latest(objects, p.key)
    BY <1>0, <1>5, <2>1 DEF PutAnswer, PutKept, CallStates
  <2> HIDE DEF q
  <2> QED
    BY <1>0, <1>5, <2>2, <2>3, <2>4, CallMoves, SawKept DEF PutAnswer
<1> QED
  BY <1>1, <1>2, <1>3, <1>4, <1>5

\* The calls of a reader, the snapshot of a DELETE, and the call that is given up.
LEMMA ReadStep ==
  ASSUME ObjectsAssumption, OInv, NEW r \in Callers,
         \/ Get(r) \/ GetSelect(r) \/ GetAnswer(r)
         \/ Delete(r) \/ DeleteSnapshot(r) \/ Abandon(r)
  PROVE  OInv'
<1> DEFINE p == oreq[r]
<1>0. p \in CallStates /\ PutKept(p) /\ ReadKept(p) /\ p.key \in NodeIDs
  BY DEF OInv, OTypeOK, CallStates
<1>l. /\ Latest(objects, p.key) \in Nat
      /\ \A v \in Versions(objects, p.key) : v <= Latest(objects, p.key)
  BY <1>0, LatestIsNat
<1>o. objects \subseteq ObjectRows
  BY DEF OInv, OTypeOK
<1>1. CASE Get(r)
  <2>1. PICK k \in NodeIDs : oreq' = [oreq EXCEPT ![r].stage = "select", ![r].key = k,
                                                  ![r].floor = seen[k]]
    BY <1>1 DEF Get
  <2> DEFINE q == [p EXCEPT !.stage = "select", !.key = k, !.floor = seen[k]]
  <2>2. seen[k] \in Nat /\ (k \notin deleted => seen[k] <= Latest(objects, k))
    BY DEF OInv, OTypeOK, NodeKept
  <2>3. q \in CallStates
    BY <1>0, <2>2 DEF CallStates, Stages, Running
  <2>4. q.stage = "select" /\ q.key = k /\ q.floor = seen[k]
    BY <1>0 DEF CallStates
  <2>5. oreq' = [oreq EXCEPT ![r] = q]
    BY <2>1
  <2> HIDE DEF q
  <2>6. PutKept(q) /\ ReadKept(q)
    BY <2>2, <2>4 DEF PutKept, ReadKept
  <2> QED
    BY <1>1, <2>3, <2>5, <2>6, CallMoves, Unseen DEF Get
<1>2. CASE GetSelect(r)
  <2>1. p.stage = "select"
    BY <1>2 DEF GetSelect
  <2>2. ASSUME NEW o \in Newest(p.key),
               oreq' = [oreq EXCEPT ![r].stage = "read", ![r].rows = {o}]
        PROVE  OInv'
    <3> DEFINE q == [p EXCEPT !.stage = "read", !.rows = {o}]
    <3>1. o \in RowsOf(p.key) /\ o.version = Latest(objects, p.key)
      BY <2>2 DEF Newest
    <3>2. o \in ObjectRows
      BY <1>o, <3>1 DEF RowsOf
    <3>3. q \in CallStates
      BY <1>0, <3>2 DEF CallStates, Stages, Running
    <3>4. q.stage = "read" /\ q.rows = {o} /\ q.key = p.key /\ q.floor = p.floor
      BY <1>0 DEF CallStates
    <3>5. oreq' = [oreq EXCEPT ![r] = q]
      BY <2>2
    <3> HIDE DEF q
    <3>6. PutKept(q) /\ ReadKept(q)
      BY <1>0, <2>1, <3>1, <3>4 DEF PutKept, ReadKept
    <3> QED
      BY <1>2, <3>3, <3>5, <3>6, CallMoves, Unseen DEF GetSelect
  <2>3. ASSUME RowsOf(p.key) = {}, oreq' = [oreq EXCEPT ![r].stage = "absent"]
        PROVE  OInv'
    <3> DEFINE q == [p EXCEPT !.stage = "absent"]
    <3>1. q \in CallStates
      BY <1>0 DEF CallStates, Stages
    <3>2. q.stage = "absent" /\ q.key = p.key /\ q.floor = p.floor /\ q.floor \in Nat
      BY <1>0 DEF CallStates
    <3>3. Versions(objects, p.key) = 1 .. 0
      BY <2>3 DEF RowsOf, Versions
    <3>4. Latest(objects, p.key) = 0
      BY <3>3, LatestOfDense
    <3>5. oreq' = [oreq EXCEPT ![r] = q]
      BY <2>3
    <3> HIDE DEF q
    <3>6. PutKept(q) /\ ReadKept(q)
      BY <1>0, <2>1, <3>2, <3>4 DEF PutKept, ReadKept
    <3> QED
      BY <1>2, <3>1, <3>5, <3>6, CallMoves, Unseen DEF GetSelect
  <2> QED
    BY <1>2, <2>2, <2>3 DEF GetSelect
<1>3. CASE GetAnswer(r)
  <2>1. p.stage = "read"
    BY <1>3 DEF GetAnswer
  <2>2. PICK o \in p.rows :
          IF Expired(o)
            THEN oreq' = [oreq EXCEPT ![r].stage = "absent"] /\ UNCHANGED seen
            ELSE oreq' = [oreq EXCEPT ![r].stage = "found"] /\ Saw(p.key, o.version)
    BY <1>3 DEF GetAnswer
  <2>3. p.key \notin deleted => o \in RowsOf(p.key) /\ p.floor <= o.version
    BY <1>0, <2>1 DEF ReadKept
  <2>4. CASE Expired(o)
    <3> DEFINE q == [p EXCEPT !.stage = "absent"]
    <3>1. q \in CallStates
      BY <1>0 DEF CallStates, Stages
    <3>2. q.stage = "absent" /\ q.key = p.key /\ q.floor = p.floor
      BY <1>0 DEF CallStates
    <3>3. oreq' = [oreq EXCEPT ![r] = q]
      BY <2>2, <2>4
    <3> HIDE DEF q
    <3>4. PutKept(q) /\ ReadKept(q)
      BY <2>3, <2>4, <3>2 DEF PutKept, ReadKept
    <3> QED
      BY <1>3, <2>2, <2>4, <3>1, <3>3, <3>4, CallMoves, Unseen DEF GetAnswer
  <2>5. CASE ~ Expired(o)
    <3> DEFINE q == [p EXCEPT !.stage = "found"]
    <3>1. q \in CallStates
      BY <1>0 DEF CallStates, Stages
    <3>2. /\ q.stage = "found" /\ q.key = p.key /\ q.floor = p.floor
          /\ q.rows = p.rows
      BY <1>0 DEF CallStates
    <3>3. oreq' = [oreq EXCEPT ![r] = q]
      BY <2>2, <2>5
    <3>4. p.key \notin deleted => o.version <= Latest(objects, p.key)
      BY <1>l, <2>3 DEF RowsOf, Versions
    <3>5. o.version \in Nat
      BY <1>0 DEF CallStates, ObjectRows
    <3> HIDE DEF q
    <3>6. PutKept(q) /\ ReadKept(q)
      BY <1>0, <2>1, <3>2 DEF PutKept, ReadKept
    <3> QED
      BY <1>0, <1>3, <2>2, <2>5, <3>1, <3>3, <3>4, <3>5, <3>6, CallMoves, SawKept DEF GetAnswer
  <2> QED
    BY <2>4, <2>5
<1>4. CASE Delete(r)
  <2>1. PICK k \in NodeIDs : oreq' = [oreq EXCEPT ![r].stage = "delete", ![r].key = k]
    BY <1>4 DEF Delete
  <2> DEFINE q == [p EXCEPT !.stage = "delete", !.key = k]
  <2>2. q \in CallStates /\ PutKept(q) /\ ReadKept(q)
    BY <1>0 DEF CallStates, Stages, Running, PutKept, ReadKept
  <2>3. oreq' = [oreq EXCEPT ![r] = q]
    BY <2>1
  <2> HIDE DEF q
  <2> QED
    BY <1>4, <2>2, <2>3, CallMoves, Unseen DEF Delete
<1>5. CASE DeleteSnapshot(r)
  <2> DEFINE q == [p EXCEPT !.stage = "doomed", !.rows = RowsOf(p.key)]
  <2>1. RowsOf(p.key) \subseteq ObjectRows /\ \A o \in RowsOf(p.key) : o.key = p.key
    BY <1>o DEF RowsOf
  <2>2. q \in CallStates
    BY <1>0, <2>1 DEF CallStates, Stages, Running
  <2>3. q.stage = "doomed" /\ q.key = p.key /\ q.rows = RowsOf(p.key)
    BY <1>0 DEF CallStates
  <2>4. oreq' = [oreq EXCEPT ![r] = q]
    BY <1>5 DEF DeleteSnapshot
  <2> HIDE DEF q
  <2>5. PutKept(q) /\ ReadKept(q)
    BY <2>1, <2>3 DEF PutKept, ReadKept
  <2> QED
    BY <1>5, <2>2, <2>4, <2>5, CallMoves, Unseen DEF DeleteSnapshot
<1>6. CASE Abandon(r)
  <2> DEFINE st == IF p.stage = "inserted" THEN "lost" ELSE "gone"
             q == [p EXCEPT !.stage = st]
  <2>1. q \in CallStates /\ PutKept(q) /\ ReadKept(q)
    BY <1>0 DEF CallStates, Stages, PutKept, ReadKept
  <2>2. oreq' = [oreq EXCEPT ![r] = q]
    BY <1>6 DEF Abandon
  <2> HIDE DEF q
  <2> QED
    BY <1>6, <2>1, <2>2, CallMoves, Unseen DEF Abandon
<1> QED
  BY <1>1, <1>2, <1>3, <1>4, <1>5, <1>6

\* A call that does not move keeps what it has, while the rows of its node only
\* grow in number and in age.
LEMMA OthersKept ==
  ASSUME OInv, NEW s \in Callers, oreq'[s] = oreq[s],
         deleted \subseteq deleted', now \in Nat, now' \in Nat, now <= now',
         \A k \in NodeIDs \ deleted' :
            /\ Latest(objects', k) \in Nat
            /\ Latest(objects, k) <= Latest(objects', k)
            /\ RowsOf(k) \subseteq RowsOf(k)'
  PROVE  PutKept(oreq[s])' /\ ReadKept(oreq[s])'
<1> DEFINE p == oreq[s]
<1>1. p \in CallStates /\ PutKept(p) /\ ReadKept(p) /\ p.key \in NodeIDs
  BY DEF OInv, OTypeOK, CallStates
<1>2. Latest(objects, p.key) \in Nat
  BY <1>1, LatestIsNat
<1>3. p.key \notin deleted' =>
        /\ p.key \notin deleted
        /\ Latest(objects', p.key) \in Nat
        /\ Latest(objects, p.key) <= Latest(objects', p.key)
        /\ \A o \in RowsOf(p.key) : o \in objects' /\ o.key = p.key
  BY <1>1 DEF RowsOf
<1>4. p.next \in Nat /\ p.expected \in Nat \cup {NoVersion} /\ p.floor \in Nat
  BY <1>1 DEF CallStates
<1>5. PutKept(oreq[s])'
  BY <1>1, <1>2, <1>3, <1>4 DEF PutKept
<1>6. ASSUME NEW o \in RowsOf(p.key), Expired(o) PROVE o.expires # 0 /\ now' > o.expires
  <2>1. o.expires \in Nat
    BY DEF RowsOf, OInv, OTypeOK, ObjectRows
  <2> QED
    BY <1>6, <2>1 DEF Expired
<1>7. ReadKept(oreq[s])'
  <2>1. p.stage = "doomed" => \A o \in p.rows : o.key = p.key
    BY <1>1 DEF ReadKept
  <2>2. ASSUME p.key \notin deleted', p.stage = "select"
        PROVE  p.floor <= Latest(objects', p.key)
    BY <1>1, <1>2, <1>3, <1>4, <2>2 DEF ReadKept
  <2>3. ASSUME p.key \notin deleted', p.stage \in {"read", "found"}
        PROVE  /\ \A o \in p.rows : p.floor <= o.version
               /\ p.stage = "read" => \A o \in p.rows : o \in objects' /\ o.key = p.key
    BY <1>1, <1>3, <2>3 DEF ReadKept
  <2>4. ASSUME p.key \notin deleted', p.stage = "absent", p.floor > 0
        PROVE  \E o \in objects' : /\ o.key = p.key /\ p.floor <= o.version
                                   /\ o.expires # 0 /\ now' > o.expires
    <3>1. PICK o \in RowsOf(p.key) : p.floor <= o.version /\ Expired(o)
      BY <1>1, <1>3, <2>4 DEF ReadKept
    <3> QED
      BY <1>3, <1>6, <2>4, <3>1
  <2> HIDE DEF p
  <2>5. oreq'[s] = p
    BY DEF p
  <2> QED
    BY <2>1, <2>2, <2>3, <2>4, <2>5 DEF ReadKept, RowsOf, Expired
<1> QED
  BY <1>5, <1>7

\* A row written may repeat a version but not skip one.
LEMMA InsertStep ==
  ASSUME OInv, NEW r \in Callers, PutInsert(r)
  PROVE  OInv'
<1> DEFINE p == oreq[r]
           x == [key |-> p.key, version |-> p.next, body |-> p.body,
                 expires |-> p.expires, id |-> r]
           q == [p EXCEPT !.stage = "inserted"]
<1>1. /\ objects' = objects \cup {x} /\ oreq' = [oreq EXCEPT ![r] = q]
      /\ UNCHANGED <<now, seen, deleted>> /\ p.stage = "insert"
  BY DEF PutInsert
<1>2. p \in CallStates /\ PutKept(p) /\ ReadKept(p) /\ p.key \in NodeIDs
  BY DEF OInv, OTypeOK, CallStates
<1>3. p.next \in Nat /\ 1 <= p.next
  BY <1>1, <1>2 DEF CallStates, PutKept
<1>4. x \in ObjectRows /\ x.key = p.key /\ x.version = p.next
  BY <1>2, <1>3 DEF CallStates, ObjectRows
<1>5. q \in CallStates /\ q.stage = "inserted" /\ q.key = p.key /\ q.next = p.next
      /\ q.expected = p.expected
  BY <1>2 DEF CallStates, Stages
<1> HIDE DEF x, q
<1>6. OTypeOK'
  BY <1>1, <1>4, <1>5 DEF OInv, OTypeOK
<1>7. /\ \A k \in NodeIDs \ {p.key} : /\ Versions(objects', k) = Versions(objects, k)
                                     /\ Latest(objects', k) = Latest(objects, k)
      /\ Versions(objects', p.key) = Versions(objects, p.key) \cup {p.next}
  <2>1. ASSUME NEW k \in NodeIDs \ {p.key}
        PROVE  Versions(objects', k) = Versions(objects, k) /\ Latest(objects', k) = Latest(objects, k)
    BY <1>1, <1>4, <2>1, InsertElsewhere
  <2>2. Versions(objects', p.key) = Versions(objects, p.key) \cup {p.next}
    <3>1. Versions(objects \cup {x}, x.key) = Versions(objects, x.key) \cup {x.version}
      BY VersionsOfInsert
    <3> QED
      BY <1>1, <1>4, <3>1
  <2> QED
    BY <2>1, <2>2
<1>8. ASSUME NEW k \in NodeIDs
      PROVE  \E n \in Nat : Versions(objects', k) \subseteq 0 .. n
  <2>1. PICK n \in Nat : Versions(objects, k) \subseteq 0 .. n
    BY DEF OInv, NodeKept
  <2>2. CASE k = p.key
    <3> DEFINE m == IF n <= p.next THEN p.next ELSE n
    <3>1. m \in Nat /\ n <= m /\ p.next <= m
      BY <1>3
    <3>2. Versions(objects', k) \subseteq 0 .. m
      BY <1>3, <1>7, <2>1, <2>2, <3>1
    <3> QED
      BY <3>1, <3>2
  <2>3. CASE k # p.key
    BY <1>7, <2>1, <2>3
  <2> QED
    BY <2>2, <2>3
<1>9. \A k \in NodeIDs : /\ Latest(objects', k) \in Nat
                         /\ \A v \in Versions(objects', k) : v <= Latest(objects', k)
  BY <1>8, LatestOfBounded
<1>10. p.key \notin deleted =>
         DenseKey(objects', p.key) /\ Latest(objects, p.key) <= Latest(objects', p.key)
  <2> HAVE p.key \notin deleted
  <2>1. DenseKey(objects, x.key) /\ Latest(objects, x.key) \in Nat
    BY <1>2, <1>4, LatestIsNat DEF OInv, NodeKept
  <2>2. x.version \in Nat /\ 1 <= x.version /\ x.version <= Latest(objects, x.key) + 1
    BY <1>1, <1>2, <1>3, <1>4 DEF PutKept
  <2> QED
    BY <1>1, <1>4, <2>1, <2>2, InsertAtMostNext
<1>11. ASSUME NEW k \in NodeIDs \ deleted
       PROVE  /\ DenseKey(objects', k)
              /\ Latest(objects, k) <= Latest(objects', k)
              /\ RowsOf(k) \subseteq RowsOf(k)'
  <2>1. DenseKey(objects, k) /\ Latest(objects, k) \in Nat
    BY LatestIsNat DEF OInv, NodeKept
  <2>2. RowsOf(k) \subseteq RowsOf(k)'
    BY <1>1 DEF RowsOf
  <2>3. CASE k = p.key
    BY <1>10, <2>2, <2>3
  <2>4. CASE k # p.key
    BY <1>7, <2>1, <2>2, <2>4 DEF DenseKey
  <2> QED
    BY <2>3, <2>4
<1>12. ASSUME NEW k \in NodeIDs PROVE NodeKept(k)'
  <2>1. k \notin deleted => seen[k] <= Latest(objects', k)
    <3> HAVE k \notin deleted
    <3>1. /\ seen[k] \in Nat /\ Latest(objects, k) \in Nat /\ Latest(objects', k) \in Nat
          /\ seen[k] <= Latest(objects, k) /\ Latest(objects, k) <= Latest(objects', k)
      BY <1>9, <1>11, LatestIsNat DEF OInv, OTypeOK, NodeKept
    <3> QED
      BY <3>1
  <2> QED
    BY <1>1, <1>8, <1>11, <2>1 DEF NodeKept
<1>13. ASSUME NEW s \in Callers PROVE PutKept(oreq[s])' /\ ReadKept(oreq[s])'
  <2>1. CASE s = r
    <3>1. oreq'[s] = q
      BY <1>1, <2>1 DEF OInv, OTypeOK
    <3>2. p.key \notin deleted /\ p.expected # NoVersion =>
            p.expected <= Latest(objects, p.key) /\ p.expected < p.next
      BY <1>1, <1>2 DEF PutKept
    <3>3. p.expected \in Nat \cup {NoVersion} /\ Latest(objects, p.key) \in Nat
      BY <1>2, LatestIsNat DEF CallStates
    <3>4. p.next <= Latest(objects', p.key) /\ Latest(objects', p.key) \in Nat
      BY <1>2, <1>7, <1>9
    <3>5. p.key \notin deleted /\ p.expected # NoVersion => p.expected <= Latest(objects', p.key)
      BY <1>10, <3>2, <3>3, <3>4
    <3>6. PutKept(oreq[s])'
      BY <1>1, <1>3, <1>5, <3>1, <3>2, <3>4, <3>5 DEF PutKept
    <3>7. ReadKept(oreq[s])'
      BY <1>5, <3>1 DEF ReadKept
    <3> QED
      BY <3>6, <3>7
  <2>2. CASE s # r
    <3>1. oreq'[s] = oreq[s] /\ now \in Nat /\ now' = now
      BY <1>1, <2>2 DEF OInv, OTypeOK
    <3>2. now <= now'
      BY <3>1
    <3> QED
      BY <1>1, <1>9, <1>11, <3>1, <3>2, OthersKept
  <2> QED
    BY <2>1, <2>2
<1> QED
  BY <1>6, <1>12, <1>13 DEF OInv

\* DELETE takes rows of one node only, and the node counts as deleted with it.
LEMMA DeleteStep ==
  ASSUME OInv, NEW r \in Callers, DeleteRows(r)
  PROVE  OInv'
<1> DEFINE p == oreq[r]
           q == [p EXCEPT !.stage = "deleted", !.rows = {}]
<1>1. /\ objects' = objects \ p.rows /\ oreq' = [oreq EXCEPT ![r] = q]
      /\ deleted' = deleted \cup {p.key} /\ UNCHANGED <<now, seen>> /\ p.stage = "doomed"
  BY DEF DeleteRows
<1>2. p \in CallStates /\ ReadKept(p) /\ p.key \in NodeIDs
  BY DEF OInv, OTypeOK, CallStates
<1>3. \A o \in p.rows : o.key = p.key
  BY <1>1, <1>2 DEF ReadKept
<1>4. q \in CallStates /\ q.stage = "deleted"
  BY <1>2 DEF CallStates, Stages
<1> HIDE DEF q
<1>5. OTypeOK'
  BY <1>1, <1>2, <1>4 DEF OInv, OTypeOK
<1>6. ASSUME NEW k \in NodeIDs \ deleted'
      PROVE  /\ RowsOf(k)' = RowsOf(k)
             /\ Versions(objects', k) = Versions(objects, k)
             /\ Latest(objects', k) = Latest(objects, k)
  <2>1. k # p.key
    BY <1>1
  <2>2. \A o : o \in objects' /\ o.key = k <=> o \in objects /\ o.key = k
    BY <1>1, <1>3, <2>1
  <2>3. RowsOf(k)' = RowsOf(k)
    BY <2>2 DEF RowsOf
  <2>4. Versions(objects', k) = Versions(objects, k)
    BY <2>2 DEF Versions
  <2> QED
    BY <2>3, <2>4 DEF Latest
<1>7. ASSUME NEW k \in NodeIDs PROVE NodeKept(k)'
  <2>1. PICK n \in Nat : Versions(objects, k) \subseteq 0 .. n
    BY DEF OInv, NodeKept
  <2>2. Versions(objects', k) \subseteq Versions(objects, k)
    BY <1>1 DEF Versions
  <2>3. k \notin deleted' => DenseKey(objects', k) /\ seen'[k] <= Latest(objects', k)
    BY <1>1, <1>6 DEF OInv, NodeKept, DenseKey
  <2> QED
    BY <2>1, <2>2, <2>3 DEF NodeKept
<1>8. ASSUME NEW s \in Callers PROVE PutKept(oreq[s])' /\ ReadKept(oreq[s])'
  <2>1. CASE s = r
    <3>1. oreq'[s] = q
      BY <1>1, <2>1 DEF OInv, OTypeOK
    <3> QED
      BY <1>4, <3>1 DEF PutKept, ReadKept
  <2>2. CASE s # r
    <3>1. oreq'[s] = oreq[s] /\ now \in Nat /\ now' = now
      BY <1>1, <2>2 DEF OInv, OTypeOK
    <3>2. \A k \in NodeIDs \ deleted' :
            /\ Latest(objects', k) \in Nat
            /\ Latest(objects, k) <= Latest(objects', k)
            /\ RowsOf(k) \subseteq RowsOf(k)'
      BY <1>6, LatestIsNat
    <3>3. now <= now' /\ deleted \subseteq deleted'
      BY <1>1, <3>1
    <3> QED
      BY <3>1, <3>2, <3>3, OthersKept
  <2> QED
    BY <2>1, <2>2
<1> QED
  BY <1>5, <1>7, <1>8 DEF OInv

\* Time passes: rows expire, none becomes valid again.
LEMMA TickStep == ASSUME OInv, Tick PROVE OInv'
<1>1. OTypeOK'
  BY DEF Tick, OInv, OTypeOK
<1>2. \A k \in NodeIDs : NodeKept(k)'
  BY DEF Tick, OInv, NodeKept
<1>3. \A k \in NodeIDs \ deleted' :
         /\ Latest(objects', k) \in Nat
         /\ Latest(objects, k) <= Latest(objects', k)
         /\ RowsOf(k) \subseteq RowsOf(k)'
  BY LatestIsNat DEF Tick, RowsOf
<1>4. now \in Nat /\ now' \in Nat /\ now <= now' /\ deleted \subseteq deleted'
  BY DEF Tick, OInv, OTypeOK
<1>5. ASSUME NEW s \in Callers PROVE PutKept(oreq[s])' /\ ReadKept(oreq[s])'
  BY <1>3, <1>4, OthersKept DEF Tick
<1> QED
  BY <1>1, <1>2, <1>5 DEF OInv

\* Every step keeps the invariant.
LEMMA ONextInv ==
  ASSUME ObjectsAssumption, OInv, [ONext]_ovars
  PROVE  OInv'
<1>1. CASE UNCHANGED ovars
  BY <1>1 DEF ovars, OInv, OTypeOK, NodeKept, PutKept, ReadKept, RowsOf, Expired
<1>2. CASE ONext
  BY <1>2, TickStep, AskStep, ReadStep, InsertStep, DeleteStep DEF ONext
<1> QED
  BY <1>1, <1>2

----------------------------------------------------------------------------

\* For every number of nodes and calls, every expected version, tag and time to
\* live.
THEOREM ObjectInvariant == OSpec => []OInv
<1>1. OInit => OInv
  BY OInitInv, ObjectsAssumption
<1>2. OInv /\ [ONext]_ovars => OInv'
  BY ONextInv, ObjectsAssumption
<1> QED
  BY <1>1, <1>2, PTL DEF OSpec

\* Racing Puts leave no gap in the versions of a node that is not deleted.
THEOREM ObjectDensity == OSpec => []VersionsContiguous
<1>1. OInv => VersionsContiguous
  BY DEF OInv, NodeKept, VersionsContiguous
<1> QED
  BY <1>1, ObjectInvariant, PTL

\* A Put that is accepted under an expected version writes a newer one, and the
\* version expected was there.
THEOREM ObjectExpectation == OSpec => []ObjectPutAboveExpected
<1>1. OInv => ObjectPutAboveExpected
  <2> SUFFICES ASSUME OInv, NEW r \in Callers, Written(r),
                      oreq[r].expected # NoVersion, oreq[r].key \notin deleted
               PROVE  /\ oreq[r].expected < oreq[r].next
                      /\ oreq[r].expected \in Versions(objects, oreq[r].key) \cup {0}
    BY DEF ObjectPutAboveExpected
  <2> DEFINE p == oreq[r]
  <2>1. p \in CallStates /\ PutKept(p) /\ p.key \in NodeIDs /\ p.expected \in Nat
    BY DEF OInv, OTypeOK, CallStates
  <2>2. p.expected <= Latest(objects, p.key) /\ p.expected < p.next
    BY <2>1 DEF PutKept, Written
  <2>3. DenseKey(objects, p.key) /\ Latest(objects, p.key) \in Nat
    BY <2>1, LatestIsNat DEF OInv, NodeKept
  <2>4. p.expected \in Versions(objects, p.key) \cup {0}
    BY <2>1, <2>2, <2>3 DEF DenseKey
  <2> QED
    BY <2>2, <2>4
<1> QED
  BY <1>1, ObjectInvariant, PTL

\* A reader is never shown a version below one that was shown before it asked.
THEOREM ObjectReadsForward == OSpec => []ReadsNeverGoBack
<1>1. OInv => ReadsNeverGoBack
  BY DEF OInv, ReadKept, ReadsNeverGoBack
<1> QED
  BY <1>1, ObjectInvariant, PTL
=============================================================================
