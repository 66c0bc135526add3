----------------------------- MODULE VersionLog -----------------------------
(***************************************************************************)
(* What a versioned table promises its callers, whatever the interleaving  *)
(* of the statements behind it: every logical key is an append-only log,   *)
(* and a request appends at most one entry, at one instant between its     *)
(* arrival and its answer.  A request that is refused ("failed") has       *)
(* appended nothing; one that has lost a connection ("gone") may or may    *)
(* not have, even when it is answered with an error.                       *)
(***************************************************************************)
EXTENDS Integers, Sequences

CONSTANTS Keys, Entries, Requests

VARIABLES
  log,     \* log[k]: the entries of key k, oldest first
  phase,   \* phase[r]: how far request r is
  at       \* at[r]: <<k, n>> when r appended entry n of k, else <<>>

vars == <<log, phase, at>>

Phases == {"new", "open", "applied", "ok", "failed", "gone"}

Init ==
  /\ log = [k \in Keys |-> <<>>]
  /\ phase = [r \in Requests |-> "new"]
  /\ at = [r \in Requests |-> <<>>]

\* phase' differs from phase at r only; its value there is the cheaper question.
Moves(r, from, to) ==
  /\ phase[r] \in from
  /\ phase'[r] = to
  /\ phase' = [phase EXCEPT ![r] = to]

Open(r) == Moves(r, {"new"}, "open") /\ UNCHANGED <<log, at>>

\* log' is log with one more entry of k.
Appends(k) ==
  LET n == Len(log[k]) + 1 IN
    /\ Len(log'[k]) = n
    /\ log'[k][n] \in Entries
    /\ log' = [log EXCEPT ![k] = Append(@, log'[k][n])]

Apply(r) ==
  /\ Moves(r, {"open"}, "applied")
  /\ \E k \in Keys :
       /\ Appends(k)
       /\ at' = [at EXCEPT ![r] = <<k, Len(log[k]) + 1>>]

Answer(r) == Moves(r, {"applied"}, "ok") /\ UNCHANGED <<log, at>>

Fail(r) == Moves(r, {"new", "open"}, "failed") /\ UNCHANGED <<log, at>>

GoAway(r) == Moves(r, {"open", "applied"}, "gone") /\ UNCHANGED <<log, at>>

Next == \E r \in Requests :
          Open(r) \/ Apply(r) \/ Answer(r) \/ Fail(r) \/ GoAway(r)

Spec == Init /\ [][Next]_vars
=============================================================================
