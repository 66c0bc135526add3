------------------------ MODULE VersionedRowsProofs ------------------------
(***************************************************************************)
(* What Versions and Latest return, and the one fact every writer of an    *)
(* append-only table relies on: a row whose version was computed as        *)
(* MAX(version)+1 in an older snapshot, and whose primary key is free,     *)
(* continues the history without a gap.  Then two facts for tables that    *)
(* need more: MAX(version) of a key whose versions are only known to be    *)
(* bounded, and the rows of a key as a sequence.                           *)
(***************************************************************************)
EXTENDS VersionedRows, Sequences, WellFoundedInduction, TLAPS

\* The MAX(version) of a history 1..n is n, and 0 when there is no row.
LEMMA LatestOfDense ==
  ASSUME NEW R, NEW k, NEW n \in Nat, Versions(R, k) = 1 .. n
  PROVE  Latest(R, k) = n
<1>1. n \in (1 .. n) \cup {0} /\ \A y \in (1 .. n) \cup {0} : n >= y
  OBVIOUS
<1>2. \A x \in (1 .. n) \cup {0} :
        (\A y \in (1 .. n) \cup {0} : x >= y) => x = n
  <2> SUFFICES ASSUME NEW x \in (1 .. n) \cup {0},
                      \A y \in (1 .. n) \cup {0} : x >= y
               PROVE  x = n
    OBVIOUS
  <2>1. x >= n
    BY <1>1
  <2>2. x <= n
    BY <1>1
  <2> QED
    BY <2>1, <2>2
<1>3. Latest(R, k) = CHOOSE x \in (1 .. n) \cup {0} :
                        \A y \in (1 .. n) \cup {0} : x >= y
  BY DEF Latest, Max
<1> QED
  BY <1>1, <1>2, <1>3

\* An empty table has no versions under any key, and MAX(version) is 0.
LEMMA EmptyTable ==
  ASSUME NEW k
  PROVE  /\ Versions({}, k) = {}
         /\ Latest({}, k) = 0
         /\ DenseKey({}, k)
<1>1. Versions({}, k) = {}
  BY DEF Versions
<1>2. Versions({}, k) = 1 .. 0
  BY <1>1
<1>3. Latest({}, k) = 0
  BY <1>2, LatestOfDense
<1> QED
  BY <1>1, <1>2, <1>3 DEF DenseKey

\* A new row adds its version to its own key and to no other.
LEMMA VersionsOfInsert ==
  ASSUME NEW R, NEW x, NEW k
  PROVE  Versions(R \cup {x}, k) =
           IF x.key = k THEN Versions(R, k) \cup {x.version} ELSE Versions(R, k)
BY DEF Versions

\* A row with the versions of a dense history names one of 1..MAX(version).
LEMMA DenseVersions ==
  ASSUME NEW R, NEW k, DenseKey(R, k), Latest(R, k) \in Nat, NEW v \in Nat
  PROVE  Occupied(R, k, v) <=> (1 <= v /\ v <= Latest(R, k))
BY DEF DenseKey, Occupied

\* The row an INSERT writes, whose version was MAX(version)+1 in a snapshot at
\* or before the write and is still free, is the next one of its key, and every
\* history stays 1..n.
LEMMA InsertNext ==
  ASSUME NEW R, NEW x,
         DenseKey(R, x.key), Latest(R, x.key) \in Nat,
         x.version \in Nat, 1 <= x.version, x.version <= Latest(R, x.key) + 1,
         ~ Occupied(R, x.key, x.version)
  PROVE  /\ x.version = Latest(R, x.key) + 1
         /\ Latest(R \cup {x}, x.key) = Latest(R, x.key) + 1
         /\ DenseKey(R \cup {x}, x.key)
<1> DEFINE n == Latest(R, x.key)
<1>1. x.version = n + 1
  BY DenseVersions
<1>2. Versions(R \cup {x}, x.key) = (1 .. n) \cup {n + 1}
  BY <1>1, VersionsOfInsert DEF DenseKey
<1>3. Versions(R \cup {x}, x.key) = 1 .. (n + 1)
  <2>1. \A m \in Nat : (1 .. m) \cup {m + 1} = 1 .. (m + 1)
    OBVIOUS
  <2> QED
    BY <1>2, <2>1
<1>4. Latest(R \cup {x}, x.key) = n + 1
  BY <1>3, LatestOfDense
<1> QED
  BY <1>1, <1>3, <1>4 DEF DenseKey

\* The other keys do not see the new row.
LEMMA InsertElsewhere ==
  ASSUME NEW R, NEW x, NEW k, x.key # k
  PROVE  /\ Versions(R \cup {x}, k) = Versions(R, k)
         /\ Latest(R \cup {x}, k) = Latest(R, k)
         /\ DenseKey(R \cup {x}, k) <=> DenseKey(R, k)
<1>1. Versions(R \cup {x}, k) = Versions(R, k)
  BY VersionsOfInsert, ZenonT(60)
<1> QED
  BY <1>1 DEF Latest, DenseKey

\* A row under a free primary key leaves the key unique.
LEMMA InsertUnique ==
  ASSUME NEW R, NEW x, UniqueRows(R), ~ Occupied(R, x.key, x.version)
  PROVE  UniqueRows(R \cup {x})
BY DEF UniqueRows, Occupied, Versions

\* A version that is stored is found, and no later INSERT changes what is found.
LEMMA RowAtStored ==
  ASSUME NEW R, NEW k, NEW v, Occupied(R, k, v)
  PROVE  /\ RowAt(R, k, v) \in R
         /\ RowAt(R, k, v).key = k
         /\ RowAt(R, k, v).version = v
BY DEF RowAt, Occupied, Versions

\* A stored row is still found, and is the same one, in a larger table with
\* unique keys.
LEMMA RowAtKept ==
  ASSUME NEW R, NEW S, R \subseteq S, UniqueRows(S),
         NEW k, NEW v, Occupied(R, k, v)
  PROVE  Occupied(S, k, v) /\ RowAt(S, k, v) = RowAt(R, k, v)
<1>1. RowAt(R, k, v) \in R /\ RowAt(R, k, v).key = k /\ RowAt(R, k, v).version = v
  BY RowAtStored
<1>2. Occupied(S, k, v)
  BY DEF Occupied, Versions
<1>3. RowAt(S, k, v) \in S /\ RowAt(S, k, v).key = k /\ RowAt(S, k, v).version = v
  BY <1>2, RowAtStored
<1> QED
  BY <1>1, <1>2, <1>3 DEF UniqueRows

\* The row just written is the one that is found under its key and version.
LEMMA RowAtInserted ==
  ASSUME NEW R, NEW x, x \in R, UniqueRows(R)
  PROVE  Occupied(R, x.key, x.version) /\ RowAt(R, x.key, x.version) = x
<1>1. Occupied(R, x.key, x.version)
  BY DEF Occupied, Versions
<1> QED
  BY <1>1, RowAtStored DEF UniqueRows

----------------------------------------------------------------------------
(* The largest element of a bounded set.                                   *)

Less == {p \in Nat \X Nat : p[1] < p[2]}

\* The order of the naturals is well founded.
LEMMA LessWellFounded == IsWellFoundedOn(Less, Nat)
BY NatLessThanWellFounded DEF OpToRel, Less

\* The least distance to the bound is that of the largest element.
LEMMA MaxOfBounded ==
  ASSUME NEW n \in Nat, NEW S \in SUBSET (0 .. n), S # {}
  PROVE  /\ Max(S) \in S
         /\ \A x \in S : x <= Max(S)
<1> DEFINE T == {n - x : x \in S}
<1>1. T \subseteq Nat
  OBVIOUS
<1>2. T # {}
  BY DEF T
<1> HIDE DEF T
<1>3. PICK t \in T : \A y \in T : ~ (<<y, t>> \in Less)
  BY <1>1, <1>2, LessWellFounded, WFMin
<1>4. PICK m \in S : t = n - m
  BY DEF T
<1>5. ASSUME NEW x \in S PROVE m >= x
  <2>1. n - x \in T
    BY DEF T
  <2>2. ~ (<<n - x, t>> \in Less)
    BY <1>3, <2>1
  <2>3. n - x \in Nat /\ t \in Nat
    BY <1>1, <2>1
  <2>4. ~ (n - x < n - m)
    BY <1>4, <2>2, <2>3 DEF Less
  <2> QED
    BY <2>4
<1>6. \E z \in S : \A x \in S : z >= x
  BY <1>5
<1>7. Max(S) \in S /\ \A x \in S : Max(S) >= x
  BY <1>6 DEF Max
<1> QED
  BY <1>7

\* MAX(version) of a key whose versions are bounded.
LEMMA LatestOfBounded ==
  ASSUME NEW R, NEW k, NEW n \in Nat, Versions(R, k) \subseteq 0 .. n
  PROVE  /\ Latest(R, k) \in Nat
         /\ \A v \in Versions(R, k) : v <= Latest(R, k)
<1> DEFINE S == Versions(R, k) \cup {0}
<1>1. S \in SUBSET (0 .. n) /\ S # {}
  OBVIOUS
<1> HIDE DEF S
<1>2. Max(S) \in S /\ \A x \in S : x <= Max(S)
  BY <1>1, MaxOfBounded
<1>3. Latest(R, k) = Max(S)
  BY DEF Latest, S
<1> QED
  BY <1>1, <1>2, <1>3 DEF S

----------------------------------------------------------------------------
(* The rows of a key as a log.                                             *)

\* A function over 1..n is a sequence of length n.
LEMMA LogTyped ==
  ASSUME NEW n \in Nat, NEW S, NEW f \in [1 .. n -> S]
  PROVE  f \in Seq(S) /\ Len(f) = n
OBVIOUS

\* One that agrees with it and has one more entry is the sequence with that entry
\* appended.
LEMMA LogAppend ==
  ASSUME NEW n \in Nat, NEW S, NEW f \in [1 .. n -> S], NEW g \in [1 .. (n + 1) -> S],
         \A v \in 1 .. n : g[v] = f[v]
  PROVE  /\ Len(g) = Len(f) + 1
         /\ g[Len(f) + 1] \in S
         /\ g = Append(f, g[Len(f) + 1])
<1>1. f \in Seq(S) /\ Len(f) = n
  BY LogTyped
<1>2. n + 1 \in Nat
  OBVIOUS
<1>3. g \in Seq(S) /\ Len(g) = n + 1
  BY <1>2, LogTyped
<1>4. g[n + 1] \in S
  OBVIOUS
<1> DEFINE h == Append(f, g[n + 1])
<1>5. h \in Seq(S) /\ Len(h) = n + 1
  BY <1>1, <1>4
<1>6. \A v \in 1 .. (n + 1) : h[v] = g[v]
  BY <1>1, <1>4
<1>7. h = g
  BY <1>3, <1>5, <1>6
<1> QED
  BY <1>1, <1>3, <1>4, <1>7
=============================================================================
