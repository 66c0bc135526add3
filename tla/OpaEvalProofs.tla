--------------------------- MODULE OpaEvalProofs ---------------------------
(***************************************************************************)
(* Eval for any number of policies: the invariants of OpaEval, proved.     *)
(***************************************************************************)
EXTENDS OpaEval, TLAPS

\* What Eval has merged did not fail.
MergedSucceeded == \A i \in 1 .. at : ~ Fails(policies[i])

Inv == TypeOK /\ MergedSucceeded /\ DenyWins /\ NoPartialDecision

\* A policy that does not fail returns an object.
LEMMA OutcomeSplit ==
  ASSUME NEW o \in Outcomes, ~ Fails(o)
  PROVE  o.out \in Outputs
BY DEF Outcomes, Fails

\* Concatenating a bounded list keeps the type of a list.
LEMMA UpToSeq ==
  ASSUME NEW S, NEW n \in Nat, NEW s \in UpTo(S, n)
  PROVE  s \in Seq(S)
BY DEF UpTo

\* Merging an output into a decision gives a decision.
LEMMA MergeTyped ==
  ASSUME NEW d \in Decisions, NEW out \in Outputs
  PROVE  MergeDecision(d, out) \in Decisions
<1>1. out.reasons \in Seq(Reasons) /\ out.obligations \in Seq(Obligations)
  BY UpToSeq, EvalAssumption DEF Outputs
<1>a. \A S : \A s, t \in Seq(S) : s \o t \in Seq(S)
  OBVIOUS
<1>b. d.reasons \in Seq(Reasons) /\ d.obligations \in Seq(Obligations)
  BY DEF Decisions
<1>2. d.reasons \o out.reasons \in Seq(Reasons)
  BY <1>1, <1>a, <1>b
<1>3. d.obligations \o out.obligations \in Seq(Obligations)
  BY <1>1, <1>a, <1>b
<1>4. MergeAction(d.action, out.action) \in Actions \cup {""}
  BY DEF MergeAction, Decisions, Outputs
<1> QED BY <1>2, <1>3, <1>4 DEF MergeDecision, Decisions

\* What Eval returns with an error.
LEMMA EmptyTyped == Empty \in Decisions
<1>1. \A S : <<>> \in Seq(S)
  OBVIOUS
<1> QED BY <1>1 DEF Empty, Decisions

\* Nothing has been merged.
LEMMA InitInv == Init => Inv
<1> SUFFICES ASSUME Init PROVE Inv OBVIOUS
<1>1. policies \in Seq(Outcomes)
  BY UpToSeq, EvalAssumption DEF Init
<1>2. TypeOK
  BY <1>1, EmptyTyped DEF Init, TypeOK
<1>3. DenyWins
  <2>1. at = 0 /\ decision.action = "" /\ answer = "none"
    BY DEF Init, Empty
  <2>2. 1 .. 0 = {}
    OBVIOUS
  <2>3. Decided(at) = {}
    BY <2>1, <2>2 DEF Decided
  <2> QED BY <2>1, <2>3 DEF DenyWins
<1> QED BY <1>2, <1>3 DEF Inv, Init, MergedSucceeded, NoPartialDecision

\* The step of the loop: the action of the first at+1 policies.
LEMMA MergeDenyWins == Inv /\ Merge => DenyWins'
<1> SUFFICES ASSUME Inv, Merge PROVE DenyWins'
  OBVIOUS
<1> DEFINE new == policies[at + 1].out.action
<1>1. at' = at + 1 /\ at \in Nat /\ policies' = policies /\ answer = "none" /\ answer' = "none"
  BY DEF Inv, TypeOK, Merge
<1>0. PICK k \in Nat : k = at + 1
  BY <1>1
<1>2. decision'.action = MergeAction(decision.action, new)
  BY DEF Merge, MergeDecision
<1>3. \A i : ActionAt(i)' = ActionAt(i)
  BY <1>1 DEF ActionAt
<1>4. ActionAt(at + 1) = new
  BY DEF ActionAt
<1>7. 1 .. at' = (1 .. at) \cup {at + 1}
  BY <1>1
<1>5. /\ new # "" => Decided(at)' = Decided(at) \cup {at + 1}
      /\ new = "" => Decided(at)' = Decided(at)
  <2>1. Decided(at)' = {i \in 1 .. at' : ActionAt(i)' # ""}
    BY DEF Decided
  <2>2. Decided(at)' = {i \in (1 .. at) \cup {at + 1} : ActionAt(i) # ""}
    BY <1>3, <1>7, <2>1
  <2> HIDE DEF new
  <2> QED BY <1>4, <2>2 DEF Decided
<1>6. \/ decision.action = "deny" /\ \E i \in 1 .. at : ActionAt(i) = "deny"
      \/ /\ \A i \in 1 .. at : ActionAt(i) # "deny"
         /\ \E i \in Decided(at) : /\ decision.action = ActionAt(i)
                                   /\ \A j \in Decided(at) : i <= j
      \/ decision.action = "" /\ Decided(at) = {}
  BY <1>1 DEF Inv, DenyWins
<1>8. \A j \in Decided(at) : j \in 1 .. at /\ ActionAt(j) # ""
  BY DEF Decided
<1>9. CASE new = ""
  <2>1. decision'.action = decision.action
    BY <1>2, <1>9 DEF MergeAction
  <2>2. Decided(at)' = Decided(at)
    BY <1>5, <1>9
  <2> QED BY <1>1, <1>3, <1>4, <1>6, <1>7, <1>9, <2>1, <2>2 DEF DenyWins
<1>10. CASE new = "deny"
  <2>1. decision'.action = "deny"
    BY <1>2, <1>10 DEF MergeAction
  <2>2. k \in 1 .. at' /\ ActionAt(k)' = "deny"
    BY <1>0, <1>3, <1>4, <1>7, <1>10
  <2>3. \E i \in 1 .. at' : ActionAt(i)' = "deny"
    BY <2>2
  <2> QED BY <2>1, <2>3 DEF DenyWins
<1>11. CASE new # "" /\ new # "deny"
  <2>1. Decided(at)' = Decided(at) \cup {at + 1}
    BY <1>5, <1>11
  <2>2. decision'.action = IF decision.action = "" THEN new ELSE decision.action
    BY <1>2, <1>11 DEF MergeAction
  <2>3. CASE decision.action = "deny" /\ \E i \in 1 .. at : ActionAt(i) = "deny"
    BY <1>1, <1>3, <1>7, <2>2, <2>3 DEF DenyWins
  <2>4. CASE /\ \A i \in 1 .. at : ActionAt(i) # "deny"
             /\ \E i \in Decided(at) : /\ decision.action = ActionAt(i)
                                       /\ \A j \in Decided(at) : i <= j
    <3>1. PICK i \in Decided(at) : /\ decision.action = ActionAt(i)
                                   /\ \A j \in Decided(at) : i <= j
      BY <2>4
    <3>2. decision'.action = ActionAt(i)'
      BY <1>3, <1>8, <2>2, <3>1
    <3>3. i \in Decided(at)' /\ i \in 1 .. at
      BY <1>8, <2>1
    <3>4. \A j \in Decided(at)' : i <= j
      BY <1>1, <2>1, <3>1, <3>3
    <3>5. \A j \in 1 .. at' : ActionAt(j)' # "deny"
      BY <1>3, <1>4, <1>7, <1>11, <2>4
    <3> QED BY <3>2, <3>3, <3>4, <3>5 DEF DenyWins
  <2>5. CASE decision.action = "" /\ Decided(at) = {}
    <3>1. Decided(at)' = {at + 1}
      BY <2>1, <2>5
    <3>4. decision'.action = ActionAt(k)'
      BY <1>0, <1>3, <1>4, <2>2, <2>5
    <3>5. k \in Decided(at)' /\ \A j \in Decided(at)' : k <= j
      BY <1>0, <3>1
    <3>2. \A j \in 1 .. at : ActionAt(j) = ""
      BY <2>5 DEF Decided
    <3>3. \A j \in 1 .. at' : ActionAt(j)' # "deny"
      BY <1>3, <1>4, <1>7, <1>11, <3>2
    <3> QED BY <3>3, <3>4, <3>5 DEF DenyWins
  <2> QED BY <1>6, <2>3, <2>4, <2>5
<1> QED BY <1>9, <1>10, <1>11

\* Every step keeps the invariant.
LEMMA NextInv == Inv /\ [Next]_vars => Inv'
<1> SUFFICES ASSUME Inv, [Next]_vars PROVE Inv'
  OBVIOUS
<1> USE DEF Inv
<1>1. CASE Merge
  <2>1. policies[at + 1] \in Outcomes /\ ~ Fails(policies[at + 1])
    BY <1>1 DEF TypeOK, Merge
  <2>2. policies[at + 1].out \in Outputs
    BY <2>1, OutcomeSplit
  <2>3. decision' \in Decisions
    BY <1>1, <2>2, MergeTyped DEF TypeOK, Merge
  <2>4. TypeOK'
    BY <1>1, <2>3 DEF TypeOK, Merge
  <2>5. MergedSucceeded'
    BY <1>1, <2>1 DEF MergedSucceeded, TypeOK, Merge
  <2>6. NoPartialDecision'
    BY <1>1 DEF NoPartialDecision, Merge
  <2> QED BY <1>1, <2>4, <2>5, <2>6, MergeDenyWins
<1>2. CASE GiveUp
  <2>1. TypeOK'
    BY <1>2, EmptyTyped DEF TypeOK, GiveUp
  <2> QED BY <1>2, <2>1 DEF GiveUp, MergedSucceeded, DenyWins, NoPartialDecision
<1>3. CASE Return
  <2>1. policies' = policies /\ at' = at /\ decision' = decision /\ answer' = "ok"
        /\ answer = "none" /\ at = Len(policies)
    BY <1>3 DEF Return
  <2>2. TypeOK'
    BY <2>1 DEF TypeOK
  <2>3. MergedSucceeded' /\ NoPartialDecision'
    BY <2>1 DEF MergedSucceeded, NoPartialDecision
  <2>4. DenyWins'
    BY <2>1 DEF DenyWins, Decided, ActionAt
  <2> QED BY <2>2, <2>3, <2>4
<1>4. CASE UNCHANGED vars
  BY <1>4 DEF vars, TypeOK, MergedSucceeded, DenyWins, Decided, ActionAt, NoPartialDecision
<1> QED BY <1>1, <1>2, <1>3, <1>4 DEF Next

\* The inductive invariant: Eval is always in one of the states it describes.
THEOREM EvalInvariant == Spec => []Inv
<1>1. Inv /\ [Next]_vars => Inv'
  BY NextInv
<1> QED BY InitInv, <1>1, PTL DEF Spec

\* The types of Eval's locals and of what it returns.
THEOREM EvalTypes == Spec => []TypeOK
<1>1. Inv => TypeOK BY DEF Inv
<1> QED BY EvalInvariant, <1>1, PTL

\* mergeDecision's comment: a deny from any policy wins, the first non-empty
\* action otherwise, for any number of policies.
THEOREM EvalDenyWins == Spec => []DenyWins
<1>1. Inv => DenyWins BY DEF Inv
<1> QED BY EvalInvariant, <1>1, PTL

\* Eval returns the decision of all the policies or none.
THEOREM EvalNoPartialDecision == Spec => []NoPartialDecision
<1>1. Inv => NoPartialDecision BY DEF Inv
<1> QED BY EvalInvariant, <1>1, PTL

\* What a policy contributed is never reordered or lost while Eval runs.
THEOREM EvalMergedInOrder == Spec => MergedInOrder
<1> DEFINE Kept == answer' # "error" =>
       /\ decision.action = "deny" => decision'.action = "deny"
       /\ decision.reasons = SubSeq(decision'.reasons, 1, Len(decision.reasons))
       /\ decision.obligations = SubSeq(decision'.obligations, 1, Len(decision.obligations))
<1>1. Inv /\ [Next]_vars => [Kept]_vars
  <2> SUFFICES ASSUME Inv, Next PROVE Kept
    OBVIOUS
  <2>1. decision.reasons \in Seq(Reasons) /\ decision.obligations \in Seq(Obligations)
    BY DEF Inv, TypeOK, Decisions
  <2>2. CASE Merge
    <3> DEFINE out == policies[at + 1].out
    <3>1. policies[at + 1] \in Outcomes /\ ~ Fails(policies[at + 1])
      BY <2>2 DEF Inv, TypeOK, Merge
    <3>2. out \in Outputs
      BY <3>1, OutcomeSplit
    <3>3. out.reasons \in Seq(Reasons) /\ out.obligations \in Seq(Obligations)
      BY <3>2, UpToSeq, EvalAssumption DEF Outputs
    <3>4. /\ decision'.action = MergeAction(decision.action, out.action)
          /\ decision'.reasons = decision.reasons \o out.reasons
          /\ decision'.obligations = decision.obligations \o out.obligations
      BY <2>2 DEF Merge, MergeDecision
    <3>5. \A S, s, t : s \in Seq(S) /\ t \in Seq(S) => SubSeq(s \o t, 1, Len(s)) = s
      OBVIOUS
    <3>6. decision.action = "deny" => decision'.action = "deny"
      BY <3>4 DEF MergeAction
    <3> HIDE DEF out
    <3>7. SubSeq(decision'.reasons, 1, Len(decision.reasons)) = decision.reasons
      BY <2>1, <3>3, <3>4, <3>5, ZenonT(60)
    <3>8. SubSeq(decision'.obligations, 1, Len(decision.obligations)) = decision.obligations
      BY <2>1, <3>3, <3>4, <3>5
    <3> QED BY <3>6, <3>7, <3>8
  <2>3. CASE GiveUp
    BY <2>3 DEF GiveUp
  <2>4. CASE Return
    <3>1. decision' = decision
      BY <2>4 DEF Return
    <3>2. \A S, s : s \in Seq(S) => s = SubSeq(s, 1, Len(s))
      OBVIOUS
    <3> QED BY <2>1, <3>1, <3>2
  <2> QED BY <2>2, <2>3, <2>4 DEF Next
<1> QED BY EvalInvariant, <1>1, PTL DEF Spec, MergedInOrder
=============================================================================
