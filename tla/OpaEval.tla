------------------------------ MODULE OpaEval ------------------------------
(***************************************************************************)
(* Evaluator.Eval: the policies attached to a resolution result are        *)
(* evaluated in their order and each result is merged into the running     *)
(* decision.  The Rego engine is not modelled: what a policy evaluates to  *)
(* is part of the input.                                                   *)
(***************************************************************************)
EXTENDS Naturals, Sequences

CONSTANTS
  Actions,      \* the strings a policy may return as its action, but ""
  Reasons,      \* reason codes
  Obligations,  \* obligations
  MaxPolicies,  \* bound: policies in a result
  MaxItems      \* bound: reasons, and obligations, that one policy returns

ASSUME EvalAssumption ==
  /\ "deny" \in Actions /\ "" \notin Actions
  /\ MaxPolicies \in Nat /\ MaxItems \in Nat

UpTo(S, n) == UNION {[1 .. m -> S] : m \in 0 .. n}

\* The object a policy returns.  An action or a list of another type counts as
\* absent, an item of another type is skipped.
Outputs == [action : Actions \cup {""}, reasons : UpTo(Reasons, MaxItems),
            obligations : UpTo(Obligations, MaxItems)]

\* Why Eval gives up on a policy: its node is not among the resolved ones (or
\* its blob is not JSON), the blob has no source, Rego fails, nothing or no
\* object comes out.
Failures == {"no_node", "no_source", "eval_error", "no_result", "not_an_object"}

Outcomes == [out : Outputs] \cup [fails : Failures]

Decisions == [action : Actions \cup {""}, reasons : Seq(Reasons),
              obligations : Seq(Obligations)]

Empty == [action |-> "", reasons |-> <<>>, obligations |-> <<>>]

VARIABLES
  policies,  \* result.Policies, as what each evaluates to
  at,        \* the policies merged so far
  decision,  \* the running decision, then the one returned
  answer     \* "none" while Eval runs, then "ok" or "error"

vars == <<policies, at, decision, answer>>

TypeOK ==
  /\ policies \in Seq(Outcomes)
  /\ at \in 0 .. Len(policies)
  /\ decision \in Decisions
  /\ answer \in {"none", "ok", "error"}

Init ==
  /\ policies \in UpTo(Outcomes, MaxPolicies)
  /\ at = 0
  /\ decision = Empty
  /\ answer = "none"

Fails(o) == "fails" \in DOMAIN o

MergeAction_LastWins(old, new) == IF new = "" THEN old ELSE new

MergeAction_FirstWins(old, new) == IF old = "" THEN new ELSE old

\* A deny wins, otherwise the first action that is not empty.
MergeAction(old, new) ==
  IF new # "" /\ (old = "" \/ new = "deny") THEN new ELSE old

MergeDecision_Reversed(d, out) ==
  [action |-> MergeAction(d.action, out.action),
   reasons |-> out.reasons \o d.reasons,
   obligations |-> d.obligations \o out.obligations]

MergeDecision(d, out) ==
  [action |-> MergeAction(d.action, out.action),
   reasons |-> d.reasons \o out.reasons,
   obligations |-> d.obligations \o out.obligations]

Merge ==
  /\ answer = "none" /\ at < Len(policies)
  /\ ~ Fails(policies[at + 1])
  /\ decision' = MergeDecision(decision, policies[at + 1].out)
  /\ at' = at + 1
  /\ UNCHANGED <<policies, answer>>

GiveUp_Partial ==
  /\ answer = "none" /\ at < Len(policies)
  /\ Fails(policies[at + 1])
  /\ answer' = "error"
  /\ UNCHANGED <<policies, at, decision>>

GiveUp_Skip ==
  /\ answer = "none" /\ at < Len(policies)
  /\ Fails(policies[at + 1])
  /\ at' = at + 1
  /\ UNCHANGED <<policies, decision, answer>>

\* The first policy that fails ends Eval: what was merged so far is dropped.
GiveUp ==
  /\ answer = "none" /\ at < Len(policies)
  /\ Fails(policies[at + 1])
  /\ decision' = Empty
  /\ answer' = "error"
  /\ UNCHANGED <<policies, at>>

Return ==
  /\ answer = "none" /\ at = Len(policies)
  /\ answer' = "ok"
  /\ UNCHANGED <<policies, at, decision>>

Next == Merge \/ GiveUp \/ Return

Spec == Init /\ [][Next]_vars

----------------------------------------------------------------------------

ActionAt(i) == policies[i].out.action

Decided(n) == {i \in 1 .. n : ActionAt(i) # ""}

\* mergeDecision's comment, whatever the order of the policies: while Eval runs
\* and when it returns, the action is deny as soon as one policy denied, else
\* that of the first policy that had one, else empty.
DenyWins ==
  answer # "error" =>
    \/ decision.action = "deny" /\ \E i \in 1 .. at : ActionAt(i) = "deny"
    \/ /\ \A i \in 1 .. at : ActionAt(i) # "deny"
       /\ \E i \in Decided(at) : /\ decision.action = ActionAt(i)
                                 /\ \A j \in Decided(at) : i <= j
    \/ decision.action = "" /\ Decided(at) = {}

\* A decision is never returned from only some of the policies: an answer
\* without an error has seen all of them, one with an error carries no decision
\* (and so no allow that a later deny would have overruled).
NoPartialDecision ==
  /\ answer = "ok" => at = Len(policies) /\ \A i \in 1 .. at : ~ Fails(policies[i])
  /\ answer = "error" => decision = Empty

\* What a policy has contributed stays where it is: the reasons and obligations
\* only grow at the end, in the order of the policies, and a deny is final,
\* until Eval gives up.
MergedInOrder ==
  [][answer' # "error" =>
       /\ decision.action = "deny" => decision'.action = "deny"
       /\ decision.reasons = SubSeq(decision'.reasons, 1, Len(decision.reasons))
       /\ decision.obligations = SubSeq(decision'.obligations, 1, Len(decision.obligations))]_vars
=============================================================================
