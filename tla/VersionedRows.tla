--------------------------- MODULE VersionedRows ---------------------------
(***************************************************************************)
(* The append-only tables of the store.  Every versioned table of          *)
(* migrations/postgres/0001_init.sql (model_versions, graph_nodes,         *)
(* graph_edges, properties, contracts) has PRIMARY KEY (tenant, logical    *)
(* key, version).  A table is a set of records with at least the fields    *)
(* key and version; one tenant is modelled, since every statement filters  *)
(* on tenant_id.                                                           *)
(***************************************************************************)
EXTENDS Integers, FiniteSetsExt

\* The versions stored under a logical key.
Versions(R, k) == {r.version : r \in {x \in R : x.key = k}}

\* COALESCE(MAX(version), 0) of a logical key.
Latest(R, k) == Max(Versions(R, k) \cup {0})

\* PRIMARY KEY (key, version): a second row under the same pair is refused.
Occupied(R, k, v) == v \in Versions(R, k)

\* WHERE key = k AND version = v; used only where such a row exists.
RowAt(R, k, v) == CHOOSE r \in R : r.key = k /\ r.version = v

\* No two rows share a primary key.
UniqueRows(R) == \A r, s \in R : r.key = s.key /\ r.version = s.version => r = s

\* The versions of k are exactly 1..n for some n: no gap, no version 0.
DenseKey(R, k) == Versions(R, k) = 1 .. Latest(R, k)
=============================================================================
