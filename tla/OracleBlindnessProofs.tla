----------------------- MODULE OracleBlindnessProofs -----------------------
(***************************************************************************)
(* Oracles never steer: for every suite, contract and runtime.             *)
(*                                                                         *)
(* The argument.  Nothing but the verdicts depends on what a gate accepts, *)
(* so the two runs decide alike about alike verdicts.  The verdicts of one *)
(* proposal in the two runs differ at the places of oracles only (Alike),  *)
(* and there neither a scope nor a failure atom looks.  Success does look, *)
(* but where every gate passes in one run no failure is visible in the     *)
(* other, which then has no scope to go on with: both runs end.            *)
(***************************************************************************)
EXTENDS OracleBlindness, TLAPS

(* Verdicts that differ at the places of oracles only. *)
Alike(r, q) ==
  /\ DOMAIN r = DOMAIN q
  /\ \A i \in DOMAIN r :
       /\ r[i].mode = q[i].mode
       /\ r[i].mode # One!OracleOnly => r[i] = q[i]

(* The verdicts the two runs have on one proposal. *)
Judged(p, r, q) ==
  p \in Proposals /\ r = One!Gated(p) /\ q = Two!Gated(p)

Together ==
  /\ OracleOnlyVerdictsNeverSteer
  /\ options \in One!Options /\ options.policy
  /\ pc \in {"verifying", "repairing"} => candidate \in Proposals
  /\ pc = "repairing" => Judged(candidate, results, results2)
  /\ pc # "done" /\ best # One!NoProposal => Judged(best, bestResults, bestResults2)

-----------------------------------------------------------------------------
(* The two runs share their operators.  What differs is what a plain gate  *)
(* accepts.                                                                *)

LEMMA SameNames ==
  /\ One!NoScope = Two!NoScope
  /\ One!NoProposal = Two!NoProposal
  /\ One!NoCandidate = Two!NoCandidate
  /\ One!OracleOnly = Two!OracleOnly
BY DEF One!NoScope, Two!NoScope, One!NoProposal, Two!NoProposal,
       One!NoCandidate, Two!NoCandidate, One!OracleOnly, Two!OracleOnly

LEMMA SameScopes == \A r : One!DeriveRepairScope(r) = Two!DeriveRepairScope(r)
<1>. USE DEF One!OverlapsAny, Two!OverlapsAny, One!PathsOverlap, Two!PathsOverlap,
             One!Within, Two!Within, One!IsPrefix, Two!IsPrefix,
             One!HasOverlap, Two!HasOverlap, One!GroupIds, Two!GroupIds,
             One!NoScope, Two!NoScope, One!ValidScope, Two!ValidScope
<1>1. ASSUME NEW scopes PROVE One!SelectedScopes(scopes) = Two!SelectedScopes(scopes)
  BY DEF One!SelectedScopes, Two!SelectedScopes, One!NextRound, Two!NextRound,
         One!Entangled, Two!Entangled, One!Min, Two!Min,
         One!Cardinality, Two!Cardinality, One!IsFiniteSet, Two!IsFiniteSet
<1>2. ASSUME NEW scopes PROVE One!MergeScopes(scopes) = Two!MergeScopes(scopes)
  BY DEF One!MergeScopes, Two!MergeScopes, One!MergedGroups, Two!MergedGroups
<1>3. ASSUME NEW r
      PROVE  /\ One!RepairableFailures(r) = Two!RepairableFailures(r)
             /\ \A i : One!AdvertisesScope(r[i]) <=> Two!AdvertisesScope(r[i])
  BY DEF One!RepairableFailures, Two!RepairableFailures,
         One!AdvertisesScope, Two!AdvertisesScope,
         One!VisibleScope, Two!VisibleScope, One!OracleOnly, Two!OracleOnly
<1>. HIDE DEF One!OverlapsAny, Two!OverlapsAny, One!PathsOverlap, Two!PathsOverlap,
              One!Within, Two!Within, One!IsPrefix, Two!IsPrefix,
              One!HasOverlap, Two!HasOverlap, One!GroupIds, Two!GroupIds,
              One!NoScope, Two!NoScope, One!ValidScope, Two!ValidScope
<1>4. ASSUME NEW r PROVE One!DeriveRepairScope(r) = Two!DeriveRepairScope(r)
  <2>1. PICK failures, scopes :
          /\ failures = One!RepairableFailures(r) /\ failures = Two!RepairableFailures(r)
          /\ scopes = [i \in failures |-> r[i].scope]
    BY <1>3
  <2>2. One!MergeScopes(One!SelectedScopes(scopes)) = Two!MergeScopes(Two!SelectedScopes(scopes))
    BY <1>1, <1>2
  <2>. QED
    BY <1>3, <2>1, <2>2, SameNames DEF One!DeriveRepairScope, Two!DeriveRepairScope
<1>. QED
  BY <1>4

LEMMA SameAtoms == \A r : One!FailureAtoms(r) = Two!FailureAtoms(r)
BY DEF One!FailureAtoms, Two!FailureAtoms, One!FailureIds, Two!FailureIds,
       One!RepairableFailures, Two!RepairableFailures, One!ValidScope, Two!ValidScope,
       One!HasOverlap, Two!HasOverlap, One!PathsOverlap, Two!PathsOverlap,
       One!Within, Two!Within, One!IsPrefix, Two!IsPrefix,
       One!NoScope, Two!NoScope, One!OracleOnly, Two!OracleOnly

LEMMA SameComparison ==
  \A a, b, rules : One!StrictImprovement(a, b, rules) <=> Two!StrictImprovement(a, b, rules)
BY DEF One!StrictImprovement, Two!StrictImprovement, One!CompareFailures, Two!CompareFailures

LEMMA SameChanges ==
  \A p, q, editable :
    One!ChangeAllowed(p, q, editable, Immutable) <=> Two!ChangeAllowed(p, q, editable, Immutable)
BY DEF One!ChangeAllowed, Two!ChangeAllowed, One!OutsidePaths, Two!OutsidePaths,
       One!ChangedPaths, Two!ChangedPaths, One!IsStrictPrefix, Two!IsStrictPrefix,
       One!CoveredBy, Two!CoveredBy, One!OverlapsAny, Two!OverlapsAny,
       One!PathsOverlap, Two!PathsOverlap, One!Within, Two!Within, One!IsPrefix, Two!IsPrefix

LEMMA SameCalculation ==
  /\ \A editable, scoped : One!Calculable(editable, scoped) = Two!Calculable(editable, scoped)
  /\ \A p, calculable :
       One!DeterministicCandidate(p, calculable) = Two!DeterministicCandidate(p, calculable)
<1>1. ASSUME NEW editable, NEW scoped
      PROVE  One!Calculable(editable, scoped) = Two!Calculable(editable, scoped)
  BY DEF One!Calculable, Two!Calculable, One!CoveredBy, Two!CoveredBy, One!Within, Two!Within,
         One!IsPrefix, Two!IsPrefix, One!NotCalculable, Two!NotCalculable
<1>2. ASSUME NEW p, NEW calculable
      PROVE  One!DeterministicCandidate(p, calculable) = Two!DeterministicCandidate(p, calculable)
  BY DEF One!DeterministicCandidate, Two!DeterministicCandidate, One!Replaced, Two!Replaced,
         One!HasOverlap, Two!HasOverlap, One!PathsOverlap, Two!PathsOverlap,
         One!Within, Two!Within, One!IsPrefix, Two!IsPrefix, One!Unevaluable, Two!Unevaluable,
         One!Missing, Two!Missing, One!NoCandidate, Two!NoCandidate
<1>. QED
  BY <1>1, <1>2

LEMMA SameAssertions ==
  \A p, policy : One!SemanticResult(p, policy) = Two!SemanticResult(p, policy)
BY DEF One!SemanticResult, Two!SemanticResult, One!SemanticScope, Two!SemanticScope,
       One!FailedAssertions, Two!FailedAssertions, One!Holds, Two!Holds,
       One!HasOverlap, Two!HasOverlap, One!OverlapsAny, Two!OverlapsAny,
       One!PathsOverlap, Two!PathsOverlap, One!Within, Two!Within,
       One!IsPrefix, Two!IsPrefix, One!NoScope, Two!NoScope,
       One!NoTarget, Two!NoTarget, One!NoGroup, Two!NoGroup, One!Missing, Two!Missing,
       One!VisibleScope, Two!VisibleScope, One!SemanticGate, Two!SemanticGate,
       One!NotCalculable, Two!NotCalculable, One!Unevaluable, Two!Unevaluable

-----------------------------------------------------------------------------
(* Verdicts *)

LEMMA JudgedAlike ==
  ASSUME options.policy \in BOOLEAN, NEW p, NEW r, NEW q, Judged(p, r, q)
  PROVE  Alike(r, q)
<1>1. /\ r = One!Evaluate(p, options.policy)
      /\ q = Two!Evaluate(p, options.policy)
  BY DEF Judged, One!Gated, Two!Gated, One!VerdictTable, Two!VerdictTable
<1>2. DOMAIN r = DOMAIN Suite /\ DOMAIN q = DOMAIN Suite
  BY <1>1 DEF One!Evaluate, Two!Evaluate
<1>3. ASSUME NEW i \in DOMAIN Suite
      PROVE  r[i].mode = q[i].mode /\ (r[i].mode # One!OracleOnly => r[i] = q[i])
  <2>1. CASE Suite[i] = One!SemanticGate
    <3>1. /\ r[i] = One!SemanticResult(p, options.policy)
          /\ q[i] = Two!SemanticResult(p, options.policy)
      BY <1>1, <2>1 DEF One!Evaluate, Two!Evaluate, One!SemanticGate, Two!SemanticGate
    <3>. QED
      BY <3>1, SameAssertions
  <2>2. CASE Suite[i] # One!SemanticGate
    <3>1. /\ r[i] = One!PlainResult(Suite[i], p)
          /\ q[i] = Two!PlainResult(Suite[i], p)
      BY <1>1, <2>2 DEF One!Evaluate, Two!Evaluate, One!SemanticGate, Two!SemanticGate
    <3>2. CASE Suite[i] \in Oracles
      BY <3>1, <3>2
      DEF One!PlainResult, Two!PlainResult, One!OracleOnly, Two!OracleOnly
    <3>3. CASE Suite[i] \notin Oracles
      <4>1. Suite[i] \in PlainGates
        BY <2>2, SharedContract DEF SharedContract, One!SuiteAssumption
      <4>2. Accepts[Suite[i]] = OtherAccepts[Suite[i]]
        BY <3>3, <4>1, OraclesDiffer DEF OraclesDiffer
      <4>. QED
        BY <3>1, <3>3, <4>2
        DEF One!PlainResult, Two!PlainResult, One!OracleOnly, Two!OracleOnly,
            One!NoScope, Two!NoScope
    <3>. QED
      BY <3>2, <3>3
  <2>. QED
    BY <2>1, <2>2
<1>. QED
  BY <1>2, <1>3 DEF Alike

LEMMA AlikeScopes ==
  ASSUME NEW r, NEW q, Alike(r, q)
  PROVE  /\ One!FailureAtoms(r) = Two!FailureAtoms(q)
         /\ One!DeriveRepairScope(r) = Two!DeriveRepairScope(q)
         /\ One!AllPass(r) \/ Two!AllPass(q) => One!DeriveRepairScope(r) = One!NoScope
<1>1. PICK failures : failures = One!RepairableFailures(r)
  OBVIOUS
<1>2. failures = One!RepairableFailures(q)
  BY <1>1 DEF Alike, One!RepairableFailures
<1>3. \A i \in failures : r[i] = q[i]
  BY <1>1 DEF Alike, One!RepairableFailures
<1>4. One!FailureAtoms(r) = One!FailureAtoms(q)
  <2>1. {{<<r[i].gate, id>> : id \in One!FailureIds(r[i])} : i \in failures} =
          {{<<q[i].gate, id>> : id \in One!FailureIds(q[i])} : i \in failures}
    BY <1>3
  <2>. QED
    BY <1>1, <1>2, <2>1 DEF One!FailureAtoms
<1>5. One!DeriveRepairScope(r) = One!DeriveRepairScope(q)
  <2>1. [i \in failures |-> r[i].scope] = [i \in failures |-> q[i].scope]
    BY <1>3
  <2>2. (\E i \in failures : ~ One!AdvertisesScope(r[i])) <=>
          (\E i \in failures : ~ One!AdvertisesScope(q[i]))
    BY <1>3
  <2>. QED
    BY <1>1, <1>2, <2>1, <2>2 DEF One!DeriveRepairScope
<1>6. ASSUME One!AllPass(r) \/ Two!AllPass(q) PROVE failures = {}
  BY <1>1, <1>2, <1>3, <1>6 DEF One!AllPass, Two!AllPass, One!RepairableFailures, Alike
<1>7. failures = {} => One!DeriveRepairScope(r) = One!NoScope
  BY <1>1 DEF One!DeriveRepairScope
<1>. QED
  BY <1>4, <1>5, <1>6, <1>7, SameAtoms, SameScopes

-----------------------------------------------------------------------------
(* What the runs decide *)

LEMMA SameAttempt ==
  ASSUME Together, pc # "done"
  PROVE  /\ One!ScopedAttempt <=> Two!ScopedAttempt
         /\ \A p : One!LeavesScope(p) <=> Two!LeavesScope(p)
BY SameNames, SameChanges
DEF Together, OracleOnlyVerdictsNeverSteer, One!ScopedAttempt, Two!ScopedAttempt,
    One!LeavesScope, Two!LeavesScope

LEMMA SameRetention ==
  ASSUME Together, pc = "verifying"
  PROVE  One!RetainedBy(One!Gated(candidate)) <=> Two!RetainedBy(Two!Gated(candidate2))
<1>1. candidate = candidate2 /\ scope = scope2 /\ best = best2 /\ options.policy \in BOOLEAN
  BY DEF Together, OracleOnlyVerdictsNeverSteer, One!Options
<1>2. One!FailureAtoms(One!Gated(candidate)) = Two!FailureAtoms(Two!Gated(candidate))
  BY <1>1, JudgedAlike, AlikeScopes DEF Together, Judged
<1>3. One!ScopedAttempt =>
        One!FailureAtoms(bestResults) = Two!FailureAtoms(bestResults2)
  BY <1>1, JudgedAlike, AlikeScopes DEF Together, One!ScopedAttempt
<1>. QED
  BY <1>1, <1>2, <1>3, SameAttempt, SameComparison DEF One!RetainedBy, Two!RetainedBy

(* The deterministic sequence goes on in both runs with the same unit, or ends
   in both: for want of a failure, of a scope, or of an improvement. *)
LEMMA SameUnit ==
  ASSUME Together, pc = "repairing"
  PROVE  /\ One!UnitProposed /\ One!UnitAccepted <=> Two!UnitProposed /\ Two!UnitAccepted
         /\ One!UnitScope = Two!UnitScope
         /\ One!UnitEditable = Two!UnitEditable
         /\ One!UnitCandidate = Two!UnitCandidate
         /\ One!UnitProposed => One!UnitCandidate \in Proposals
<1>1. candidate = candidate2 /\ step = step2 /\ local = local2
      /\ options.policy /\ options.policy \in BOOLEAN /\ candidate \in Proposals
  BY DEF Together, OracleOnlyVerdictsNeverSteer, One!Options
<1>2. /\ One!FailureAtoms(results) = Two!FailureAtoms(results2)
      /\ One!DeriveRepairScope(results) = Two!DeriveRepairScope(results2)
      /\ One!AllPass(results) \/ Two!AllPass(results2) =>
           One!DeriveRepairScope(results) = One!NoScope
  BY <1>1, JudgedAlike, AlikeScopes DEF Together
<1>3. One!UnitScope = Two!UnitScope /\ One!UnitEditable = Two!UnitEditable
  BY <1>2, SameNames DEF One!UnitScope, Two!UnitScope, One!UnitEditable, Two!UnitEditable
<1>4. One!UnitCandidate = Two!UnitCandidate
  BY <1>1, <1>3, SameCalculation DEF One!UnitCandidate, Two!UnitCandidate
<1>5. One!UnitCandidate \in Proposals \cup {One!NoCandidate}
  <2>1. One!Calculable(One!UnitEditable, options.policy) \in SUBSET One!Calculable({}, FALSE)
    BY DEF One!Calculable
  <2>. QED
    BY <1>1, <2>1, SharedContract
    DEF SharedContract, One!ProposalsAssumption, One!UnitCandidate
<1>6. One!UnitProposed <=> Two!UnitProposed
  BY <1>1, <1>2, <1>3, <1>4, SameNames
  DEF One!UnitProposed, Two!UnitProposed, One!UnitScope, Two!UnitScope
<1>7. ASSUME One!UnitProposed PROVE One!UnitAccepted <=> Two!UnitAccepted
  <2>1. One!UnitCandidate \in Proposals
    BY <1>5, <1>7 DEF One!UnitProposed
  <2>2. One!FailureAtoms(One!Gated(One!UnitCandidate)) =
          Two!FailureAtoms(Two!Gated(One!UnitCandidate))
    BY <1>1, <2>1, JudgedAlike, AlikeScopes DEF Judged
  <2>. QED
    BY <1>1, <1>2, <1>3, <1>4, <2>2, SameComparison, SameChanges
    DEF One!UnitAccepted, Two!UnitAccepted
<1>8. One!UnitProposed => One!UnitCandidate \in Proposals
  BY <1>5 DEF One!UnitProposed
<1>. QED
  BY <1>3, <1>4, <1>6, <1>7, <1>8

-----------------------------------------------------------------------------
(* The steps *)

LEMMA StartTogether == Init => Together
BY DEF Init, One!Init, Two!Init, Together, OracleOnlyVerdictsNeverSteer,
       One!NoProposal, Two!NoProposal, One!NoScope, Two!NoScope

LEMMA ReturnsTogether ==
  ASSUME Together, BothFail \/ BothUnavailable
  PROVE  Together'
<1>. USE DEF Together, OracleOnlyVerdictsNeverSteer, One!runVars, One!workVars,
             One!observedVars, Two!runVars, Two!workVars, Two!observedVars,
             One!Escalate, Two!Escalate, One!Finish, Two!Finish
<1>1. CASE BothFail
  BY <1>1 DEF BothFail, One!RuntimeFails, Two!RuntimeFails
<1>2. CASE BothUnavailable
  BY <1>2 DEF BothUnavailable, One!RepairUnavailable, Two!RepairUnavailable
<1>. QED
  BY <1>1, <1>2

LEMMA AnswersTogether ==
  ASSUME Together, NEW p \in Proposals, OneAnswer(p), TwoAnswer(p)
  PROVE  Together'
<1>. USE DEF One!Answers, Two!Answers
<1>1. /\ pc = "proposing" /\ pc2 = "proposing" /\ seen = seen2
      /\ One!ScopedAttempt <=> Two!ScopedAttempt
      /\ One!LeavesScope(p) <=> Two!LeavesScope(p)
  BY SameAttempt
  DEF OneAnswer, One!RepeatsProposal, One!EditsOutOfScope, One!ReturnsCandidate,
      Together, OracleOnlyVerdictsNeverSteer
<1>2. CASE One!RepeatsProposal(p)
  <2>1. Two!RepeatsProposal(p)
    BY <1>1, <1>2
    DEF One!RepeatsProposal, TwoAnswer, Two!EditsOutOfScope, Two!ReturnsCandidate
  <2>. QED
    BY <1>2, <2>1
    DEF One!RepeatsProposal, Two!RepeatsProposal, Together, OracleOnlyVerdictsNeverSteer,
        One!Escalate, Two!Escalate, One!Finish, Two!Finish, One!runVars, One!workVars,
        One!observedVars, Two!runVars, Two!workVars, Two!observedVars
<1>3. CASE One!EditsOutOfScope(p)
  <2>1. Two!EditsOutOfScope(p)
    BY <1>1, <1>3
    DEF One!EditsOutOfScope, TwoAnswer, Two!RepeatsProposal, Two!ReturnsCandidate
  <2>. QED
    BY <1>1, <1>3, <2>1
    DEF One!EditsOutOfScope, Two!EditsOutOfScope, Together, OracleOnlyVerdictsNeverSteer,
        One!RollBack, Two!RollBack, One!workVars, One!observedVars, Two!workVars,
        Two!observedVars, Judged, One!Gated, Two!Gated, One!VerdictTable, Two!VerdictTable
<1>4. CASE One!ReturnsCandidate(p)
  <2>1. Two!ReturnsCandidate(p)
    BY <1>1, <1>4
    DEF One!ReturnsCandidate, TwoAnswer, Two!RepeatsProposal, Two!EditsOutOfScope
  <2>. QED
    BY <1>1, <1>4, <2>1
    DEF One!ReturnsCandidate, Two!ReturnsCandidate, Together, OracleOnlyVerdictsNeverSteer,
        One!runVars, One!observedVars, Two!runVars, Two!observedVars,
        Judged, One!Gated, Two!Gated, One!VerdictTable, Two!VerdictTable
<1>. QED
  BY <1>2, <1>3, <1>4 DEF OneAnswer

(* Where the runs are decides what they do next: the one cannot reject, extend
   or try again where the other does not. *)
LEMMA SameMove ==
  ASSUME Together, BothProceed
  PROVE  \/ One!RejectCandidate /\ Two!RejectCandidate
         \/ One!AdoptCandidate /\ Two!AdoptCandidate
         \/ One!RepairUnit /\ Two!RepairUnit
         \/ One!Settle /\ Two!Settle
         \/ One!NextAttempt /\ Two!NextAttempt
         \/ One!ExhaustBudget /\ Two!ExhaustBudget
<1>1. pc = pc2 /\ attempt = attempt2
  BY DEF Together, OracleOnlyVerdictsNeverSteer
<1>2. CASE pc = "verifying"
  BY <1>1, <1>2, SameRetention
  DEF BothProceed, OneProceeds, TwoProceeds, One!RejectCandidate, Two!RejectCandidate,
      One!AdoptCandidate, Two!AdoptCandidate, One!RepairUnit, Two!RepairUnit,
      One!Settle, Two!Settle, One!NextAttempt, Two!NextAttempt,
      One!ExhaustBudget, Two!ExhaustBudget
<1>3. CASE pc = "repairing"
  <2>1. One!UnitProposed /\ One!UnitAccepted <=> Two!UnitProposed /\ Two!UnitAccepted
    BY <1>3, SameUnit
  <2>2. \/ One!RepairUnit /\ One!UnitProposed /\ One!UnitAccepted
        \/ One!Settle /\ ~ (One!UnitProposed /\ One!UnitAccepted)
    BY <1>3
    DEF BothProceed, OneProceeds, One!RejectCandidate, One!AdoptCandidate, One!RepairUnit,
        One!Settle, One!NextAttempt, One!ExhaustBudget
  <2>3. \/ Two!RepairUnit /\ Two!UnitProposed /\ Two!UnitAccepted
        \/ Two!Settle /\ ~ (Two!UnitProposed /\ Two!UnitAccepted)
    BY <1>1, <1>3
    DEF BothProceed, TwoProceeds, Two!RejectCandidate, Two!AdoptCandidate, Two!RepairUnit,
        Two!Settle, Two!NextAttempt, Two!ExhaustBudget
  <2>. QED
    BY <2>1, <2>2, <2>3
<1>4. CASE pc \notin {"verifying", "repairing"}
  <2>1. (One!NextAttempt \/ One!ExhaustBudget) /\ (Two!NextAttempt \/ Two!ExhaustBudget)
    BY <1>1, <1>4
    DEF BothProceed, OneProceeds, TwoProceeds, One!RejectCandidate, Two!RejectCandidate,
        One!AdoptCandidate, Two!AdoptCandidate, One!RepairUnit, Two!RepairUnit,
        One!Settle, Two!Settle
  <2>2. MaxAttempts \in Nat
    BY SharedContract DEF SharedContract, One!ContractAssumption
  <2>. QED
    BY <1>1, <2>1, <2>2
    DEF One!NextAttempt, Two!NextAttempt, One!ExhaustBudget, Two!ExhaustBudget
<1>. QED
  BY <1>2, <1>3, <1>4

LEMMA ProceedTogether ==
  ASSUME Together, BothProceed
  PROVE  Together'
<1>. USE DEF One!runVars, One!workVars, One!observedVars, Two!runVars, Two!workVars,
             Two!observedVars, Judged, One!Gated, Two!Gated, One!VerdictTable,
             Two!VerdictTable
<1>1. CASE One!RejectCandidate /\ Two!RejectCandidate
  BY <1>1
  DEF One!RejectCandidate, Two!RejectCandidate, One!RollBack, Two!RollBack,
      Together, OracleOnlyVerdictsNeverSteer
<1>2. CASE One!AdoptCandidate /\ Two!AdoptCandidate
  BY <1>2
  DEF One!AdoptCandidate, Two!AdoptCandidate, Together, OracleOnlyVerdictsNeverSteer
<1>3. CASE One!RepairUnit /\ Two!RepairUnit
  BY <1>3, SameUnit
  DEF One!RepairUnit, Two!RepairUnit, Together, OracleOnlyVerdictsNeverSteer
<1>4. CASE One!Settle /\ Two!Settle
  <2>1. pc = "repairing" /\ candidate = candidate2 /\ options.policy
        /\ options.policy \in BOOLEAN /\ Judged(candidate, results, results2)
    BY <1>4 DEF One!Settle, Together, OracleOnlyVerdictsNeverSteer, One!Options
  <2>2. /\ One!DeriveRepairScope(results) = Two!DeriveRepairScope(results2)
        /\ One!AllPass(results) \/ Two!AllPass(results2) =>
             One!DeriveRepairScope(results) = One!NoScope
    BY <2>1, JudgedAlike, AlikeScopes
  <2>3. /\ pc' = pc2'
        /\ pc' # "done" => scope' = scope2'
    BY <1>4, <2>1, <2>2, SameNames
    DEF One!Settle, Two!Settle, One!AfterFailure, Two!AfterFailure,
        One!CompletePassingRun, Two!CompletePassingRun, One!Escalate, Two!Escalate,
        One!Finish, Two!Finish
  <2>4. pc' \in {"done", "retrying"}
    BY <1>4
    DEF One!Settle, One!AfterFailure, One!CompletePassingRun, One!Escalate, One!Finish
  <2>. QED
    BY <1>4, <2>1, <2>3, <2>4
    DEF One!Settle, Two!Settle, Together, OracleOnlyVerdictsNeverSteer
<1>5. CASE One!NextAttempt /\ Two!NextAttempt
  BY <1>5
  DEF One!NextAttempt, Two!NextAttempt, Together, OracleOnlyVerdictsNeverSteer
<1>6. CASE One!ExhaustBudget /\ Two!ExhaustBudget
  BY <1>6
  DEF One!ExhaustBudget, Two!ExhaustBudget, Together, OracleOnlyVerdictsNeverSteer,
      One!Escalate, Two!Escalate, One!Finish, Two!Finish
<1>. QED
  BY <1>1, <1>2, <1>3, <1>4, <1>5, <1>6, SameMove

LEMMA StayTogether == Together /\ [Next]_vars => Together'
<1>. SUFFICES ASSUME Together, [Next]_vars PROVE Together'
  OBVIOUS
<1>1. CASE BothFail \/ BothUnavailable
  BY <1>1, ReturnsTogether
<1>2. CASE SameAnswer
  BY <1>2, AnswersTogether DEF SameAnswer
<1>3. CASE BothProceed
  BY <1>3, ProceedTogether
<1>4. CASE UNCHANGED vars
  BY <1>4
  DEF vars, Together, OracleOnlyVerdictsNeverSteer, Judged, One!Gated, Two!Gated,
      One!VerdictTable, Two!VerdictTable
<1>. QED
  BY <1>1, <1>2, <1>3, <1>4 DEF Next, BothReturned

(* Whatever the oracles of two runs say, the runs retain, request and retry the
   same until both return (derive_repair_scope, compare_failure_sets,
   _repair_deterministically). *)
THEOREM OraclesNeverSteer == Spec => []OracleOnlyVerdictsNeverSteer
<1>1. Together => OracleOnlyVerdictsNeverSteer
  BY DEF Together
<1>. QED
  BY <1>1, StartTogether, StayTogether, PTL DEF Spec
=============================================================================
