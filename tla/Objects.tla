------------------------------ MODULE Objects ------------------------------
(***************************************************************************)
(* The objects table: payloads kept beside a graph node, written with an   *)
(* expected version, an If-Match tag and a time to live, read as the       *)
(* newest one, and deleted all at once.  Its primary key is a drawn id, so *)
(* unlike in the other versioned tables nothing refuses a second row of    *)
(* one (node, version).                                                    *)
(***************************************************************************)
EXTENDS VersionedRows

CONSTANTS
  NodeIDs,      \* objects.node_id: no foreign key asks for the node
  Payloads,     \* contents, inline or by reference
  Bodies,       \* what callers send: [bytes, exturl], each a payload or Nothing
  Tags,         \* the If-Match tags that callers send
  Callers,      \* the calls of the repository that are ever made
  MaxTTL,       \* bound: the longest time to live
  MaxClock,     \* bound: the clock stops here
  MaxExpected,  \* bound: the largest expected version
  NoVersion,    \* no expected version
  Nothing       \* no bytes, no exturl, no tag

ASSUME ObjectsAssumption ==
  /\ NodeIDs # {}
  /\ Nothing \notin Payloads
  /\ Bodies \subseteq [bytes : Payloads \cup {Nothing}, exturl : Payloads \cup {Nothing}]
  /\ Tags \subseteq Payloads
  /\ NoVersion \notin Nat
  /\ {MaxTTL, MaxClock, MaxExpected} \subseteq Nat

VARIABLES
  objects,  \* the rows of the table
  now,      \* time.Now() of the program
  oreq,     \* oreq[r]: the call r
  seen,     \* history: the largest version an answer about a node has carried
  deleted   \* history: the nodes whose objects have been deleted

ovars == <<objects, now, oreq, seen, deleted>>

Body == [bytes : Payloads \cup {Nothing}, exturl : Payloads \cup {Nothing}]

\* expires 0 is a NULL expires_at; id stands for the drawn uuid.
ObjectRows == [key : NodeIDs, version : Nat \ {0}, body : Body,
               expires : Nat, id : Callers]

Running == {"check", "next", "insert", "select", "read", "delete", "doomed"}

Stages == Running \cup {"new", "inserted", "stored", "found", "absent",
                        "deleted", "conflict", "failed", "gone", "lost"}

\* rows is what a statement of the call has in hand: the row read, or the rows
\* that a DELETE goes for.
CallStates == [stage : Stages, key : NodeIDs, body : Body,
               expected : Nat \cup {NoVersion}, tag : Payloads \cup {Nothing},
               ttl : Nat, expires : Nat, next : Nat, rows : SUBSET ObjectRows,
               floor : Nat]

OTypeOK ==
  /\ objects \subseteq ObjectRows
  /\ now \in Nat
  /\ oreq \in [Callers -> CallStates]
  /\ seen \in [NodeIDs -> Nat]
  /\ deleted \subseteq NodeIDs

OInit ==
  /\ objects = {}
  /\ now = 0
  /\ oreq = [r \in Callers |->
              [stage |-> "new", key |-> CHOOSE k \in NodeIDs : TRUE,
               body |-> [bytes |-> Nothing, exturl |-> Nothing],
               expected |-> NoVersion, tag |-> Nothing, ttl |-> 0,
               expires |-> 0, next |-> 0, rows |-> {}, floor |-> 0]]
  /\ seen = [k \in NodeIDs |-> 0]
  /\ deleted = {}

----------------------------------------------------------------------------
(* The rows.  (Operators with a suffix after "_" are faulty variants of    *)
(* the definition that follows them.)                                      *)

RowsOf(k) == {o \in objects : o.key = k}

Newest_Oldest(k) == {o \in RowsOf(k) : \A p \in RowsOf(k) : o.version <= p.version}

\* ORDER BY version DESC LIMIT 1: of two rows with one version, either.
Newest(k) == {o \in RowsOf(k) : o.version = Latest(objects, k)}

\* time.Now().After(ExpiresAt), for a row that has one.
Expired(o) == o.expires # 0 /\ now > o.expires

\* The etag is the hash of the inline bytes, or of the URL when there are none.
ETag(body) == IF body.bytes = Nothing THEN body.exturl ELSE body.bytes

Valid(body) == body.bytes # Nothing \/ body.exturl # Nothing

----------------------------------------------------------------------------
(* Put: validation, LatestVersion, the tag, the INSERT.                    *)

Put(r) ==
  /\ oreq[r].stage = "new"
  /\ \E k \in NodeIDs, b \in Bodies, e \in (0 .. MaxExpected) \cup {NoVersion},
        t \in Tags \cup {Nothing}, d \in 0 .. MaxTTL :
       /\ Valid(b)
       /\ oreq' = [oreq EXCEPT ![r].stage = "check", ![r].key = k, ![r].body = b,
                     ![r].expected = e, ![r].tag = t, ![r].ttl = d]
  /\ UNCHANGED <<objects, now, seen, deleted>>

\* Neither bytes nor a URL.
PutInvalid(r) ==
  /\ oreq[r].stage = "new"
  /\ \E b \in Bodies : ~ Valid(b)
  /\ oreq' = [oreq EXCEPT ![r].stage = "failed"]
  /\ UNCHANGED <<objects, now, seen, deleted>>

VersionExpected_NotAhead(q) == q.expected = NoVersion \/ q.expected >= Latest(objects, q.key)

VersionExpected(q) == q.expected \in {NoVersion, Latest(objects, q.key)}

\* The tag is compared with that of the payload being put.
TagMatches(q) == q.tag \in {Nothing, ETag(q.body)}

\* The statement of LatestVersion, then the tag and the expiry in memory; tag and
\* time to live are not used again.
PutCheck(r) ==
  /\ oreq[r].stage = "check"
  /\ oreq' =
       IF VersionExpected(oreq[r]) /\ TagMatches(oreq[r])
         THEN [oreq EXCEPT ![r].stage = "next", ![r].tag = Nothing, ![r].ttl = 0,
                 ![r].expires = IF oreq[r].ttl = 0 THEN 0 ELSE now + oreq[r].ttl]
         ELSE [oreq EXCEPT ![r].stage = "conflict", ![r].tag = Nothing, ![r].ttl = 0]
  /\ UNCHANGED <<objects, now, seen, deleted>>

NextVersion_Count(k) == Cardinality(RowsOf(k)) + 1

NextVersion(k) == Latest(objects, k) + 1

\* The snapshot of the INSERT ... SELECT MAX(version)+1.
PutNext(r) ==
  /\ oreq[r].stage = "next"
  /\ oreq' = [oreq EXCEPT ![r].stage = "insert", ![r].next = NextVersion(oreq[r].key)]
  /\ UNCHANGED <<objects, now, seen, deleted>>

\* The row is written; no key of the table speaks of the version.
PutInsert(r) ==
  /\ oreq[r].stage = "insert"
  /\ objects' = objects \cup
       {[key |-> oreq[r].key, version |-> oreq[r].next, body |-> oreq[r].body,
         expires |-> oreq[r].expires, id |-> r]}
  /\ oreq' = [oreq EXCEPT ![r].stage = "inserted"]
  /\ UNCHANGED <<now, seen, deleted>>

Saw(k, v) == seen' = [seen EXCEPT ![k] = Max({@, v})]

PutAnswer(r) ==
  /\ oreq[r].stage = "inserted"
  /\ oreq' = [oreq EXCEPT ![r].stage = "stored"]
  /\ Saw(oreq[r].key, oreq[r].next)
  /\ UNCHANGED <<objects, now, deleted>>

----------------------------------------------------------------------------
(* GetByNodeID and DeleteByNodeID.                                         *)

Get(r) ==
  /\ oreq[r].stage = "new"
  /\ \E k \in NodeIDs : oreq' = [oreq EXCEPT ![r].stage = "select", ![r].key = k,
                                             ![r].floor = seen[k]]
  /\ UNCHANGED <<objects, now, seen, deleted>>

GetSelect(r) ==
  /\ oreq[r].stage = "select"
  /\ \/ \E o \in Newest(oreq[r].key) :
          oreq' = [oreq EXCEPT ![r].stage = "read", ![r].rows = {o}]
     \/ /\ RowsOf(oreq[r].key) = {}
        /\ oreq' = [oreq EXCEPT ![r].stage = "absent"]
  /\ UNCHANGED <<objects, now, seen, deleted>>

\* The expiry is looked at after the statement: an expired row is no row.
GetAnswer(r) ==
  /\ oreq[r].stage = "read"
  /\ \E o \in oreq[r].rows :
       IF Expired(o)
         THEN /\ oreq' = [oreq EXCEPT ![r].stage = "absent"]
              /\ UNCHANGED seen
         ELSE /\ oreq' = [oreq EXCEPT ![r].stage = "found"]
              /\ Saw(oreq[r].key, o.version)
  /\ UNCHANGED <<objects, now, deleted>>

Delete(r) ==
  /\ oreq[r].stage = "new"
  /\ \E k \in NodeIDs : oreq' = [oreq EXCEPT ![r].stage = "delete", ![r].key = k]
  /\ UNCHANGED <<objects, now, seen, deleted>>

\* The DELETE goes for the rows its snapshot shows; one that is committed
\* meanwhile survives it.
DeleteSnapshot(r) ==
  /\ oreq[r].stage = "delete"
  /\ oreq' = [oreq EXCEPT ![r].stage = "doomed", ![r].rows = RowsOf(oreq[r].key)]
  /\ UNCHANGED <<objects, now, seen, deleted>>

DeleteRows(r) ==
  /\ oreq[r].stage = "doomed"
  /\ objects' = objects \ oreq[r].rows
  /\ deleted' = deleted \cup {oreq[r].key}
  /\ oreq' = [oreq EXCEPT ![r].stage = "deleted", ![r].rows = {}]
  /\ UNCHANGED <<now, seen>>

----------------------------------------------------------------------------

\* The caller's context ends or the connection breaks, before the commit ("gone")
\* or after it ("lost").
Abandon(r) ==
  /\ oreq[r].stage \in Running \cup {"inserted"}
  /\ oreq' = [oreq EXCEPT ![r].stage = IF @ = "inserted" THEN "lost" ELSE "gone"]
  /\ UNCHANGED <<objects, now, seen, deleted>>

Tick ==
  /\ now < MaxClock
  /\ now' = now + 1
  /\ UNCHANGED <<objects, oreq, seen, deleted>>

ONext ==
  \/ Tick
  \/ \E r \in Callers :
       \/ Put(r) \/ PutInvalid(r) \/ PutCheck(r) \/ PutNext(r) \/ PutInsert(r) \/ PutAnswer(r)
       \/ Get(r) \/ GetSelect(r) \/ GetAnswer(r)
       \/ Delete(r) \/ DeleteSnapshot(r) \/ DeleteRows(r)
       \/ Abandon(r)

OSpec == OInit /\ [][ONext]_ovars

----------------------------------------------------------------------------
(* What is left of "append-only, versioned" without a key over versions.   *)

Written(r) == oreq[r].stage \in {"inserted", "stored", "lost"}

\* Racing Puts may give one version to two rows, but they leave no gap: while a
\* node's objects are not deleted, its versions are 1..n, expired ones included.
VersionsContiguous == \A k \in NodeIDs \ deleted : DenseKey(objects, k)

\* What an expected version is worth while nobody deletes: the version named
\* existed (or was 0), and the row written is newer than it.  Two Puts that name
\* the same one may both be accepted, even as the same version.
ObjectPutAboveExpected ==
  \A r \in Callers :
    Written(r) /\ oreq[r].expected # NoVersion /\ oreq[r].key \notin deleted =>
      /\ oreq[r].expected < oreq[r].next
      /\ oreq[r].expected \in Versions(objects, oreq[r].key) \cup {0}

\* While nobody deletes, a reader never goes back: it is given no version below
\* one that any earlier answer carried, its own Put's or another reader's.  It
\* finds nothing only if such a version has expired since; an older one that has
\* not is no substitute.
ReadsNeverGoBack ==
  \A r \in Callers :
    oreq[r].key \notin deleted =>
      /\ oreq[r].stage = "found" => \A o \in oreq[r].rows : oreq[r].floor <= o.version
      /\ oreq[r].stage = "absent" /\ oreq[r].floor > 0 =>
           \E o \in RowsOf(oreq[r].key) : oreq[r].floor <= o.version /\ Expired(o)
=============================================================================
