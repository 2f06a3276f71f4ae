-------------------------- MODULE ControllerProofs --------------------------
(***************************************************************************)
(* What a run of the controller guarantees for every contract, every suite *)
(* of gates and every runtime.                                             *)
(*                                                                         *)
(* The argument.  Under a repair policy every attempt after the first      *)
(* evaluated proposal is scoped (Attempts): it starts from the best        *)
(* proposal, so what the deterministic sequence holds differs from it only *)
(* inside what was authorized (Baseline) and fails strictly less           *)
(* (Progress); a candidate that is dropped leaves the best proposal and    *)
(* its verdicts as they were.                                              *)
(***************************************************************************)
EXTENDS DohaaController, FiniteSetTheorems, SequenceTheorems, TLAPS

SameImmutable(p, q) ==
  \A node \in DOMAIN p : OverlapsAny(node, Immutable) => p[node] = q[node]

(* Nothing is retained before the first adoption; afterwards there is always a
   scope to repair in. *)
Attempts ==
  options.policy =>
    /\ origin = NoProposal <=> best = NoProposal /\ pc # "repairing"
    /\ pc \in {"proposing", "verifying", "repairing", "retrying"} =>
         best = NoProposal \/ ScopedAttempt
    /\ pc \in {"proposing", "retrying"} /\ best = NoProposal => seen = {}

Baseline ==
  options.policy =>
    /\ best # NoProposal => SameImmutable(best, origin)
    /\ pc = "repairing" => SameImmutable(candidate, origin)

Progress ==
  options.policy /\ pc = "repairing" /\ best # NoProposal =>
    /\ FailureAtoms(results) \subseteq FailureAtoms(bestResults)
    /\ FailureAtoms(results) # FailureAtoms(bestResults)
    /\ \A atom \in FailureAtoms(results) : atom[2] \notin scope.failed

Held ==
  pc \in {"verifying", "repairing"} => candidate # NoProposal

IInv ==
  /\ TypeOK
  /\ Held
  /\ Attempts
  /\ VerdictsBelongToProposal
  /\ SuccessIsVerified
  /\ Baseline
  /\ Progress

-----------------------------------------------------------------------------
(* Prefixes of pointers *)

LEMMA LeastNatural ==
  ASSUME NEW S, S \subseteq Nat, S # {}
  PROVE  \E n \in S : \A m \in S : n <= m
<1>. DEFINE T == {1 .. n : n \in S}
<1>1. T \subseteq FiniteSubsetsOf(Nat)
  <2>1. \A n \in S : IsFiniteSet(1 .. n) /\ 1 .. n \subseteq Nat
    BY FS_Interval
  <2>. QED  BY <2>1 DEF FiniteSubsetsOf
<1>2. PICK x \in T : \A y \in T : ~ (<<y, x>> \in StrictSubsetOrdering(Nat))
  <2>1. T # {}
    OBVIOUS
  <2>. HIDE DEF T
  <2>. QED  BY <1>1, <2>1, FS_StrictSubsetOrderingWellFounded, WFMin
<1>3. PICK n \in S : x = 1 .. n
  BY <1>2
<1>4. ASSUME NEW m \in S, m < n PROVE FALSE
  <2>1. n \in 1 .. n /\ n \notin 1 .. m /\ 1 .. m \subseteq 1 .. n
    BY <1>4
  <2>2. <<1 .. m, 1 .. n>> \in StrictSubsetOrdering(Nat)
    BY <2>1 DEF StrictSubsetOrdering
  <2>. QED  BY <2>2, <1>2, <1>3
<1>. QED  BY <1>4

LEMMA PrefixPointwise ==
  ASSUME NEW s \in Seq(STRING), NEW t \in Seq(STRING)
  PROVE  IsPrefix(s, t) <=>
           Len(s) <= Len(t) /\ \A i \in 1 .. Len(s) : s[i] = t[i]
<1>. SUFFICES ASSUME Len(s) <= Len(t)
              PROVE  SubSeq(s, 1, Len(s)) = SubSeq(t, 1, Len(s)) <=>
                       \A i \in 1 .. Len(s) : s[i] = t[i]
  BY DEF IsPrefix
<1>. DEFINE u == SubSeq(s, 1, Len(s))
            v == SubSeq(t, 1, Len(s))
<1>1. /\ Len(s) \in Nat
      /\ \A i \in 1 .. Len(s) : s[i] \in STRING /\ t[i] \in STRING
  OBVIOUS
<1>2. /\ u \in Seq(STRING) /\ Len(u) = Len(s)
      /\ \A i \in 1 .. Len(s) : u[i] = s[i]
  OBVIOUS
<1>3. /\ v \in Seq(STRING) /\ Len(v) = Len(s)
      /\ \A i \in 1 .. Len(s) : v[i] = t[i]
  OBVIOUS
<1>. HIDE DEF u, v
<1>4. u = v <=> \A i \in 1 .. Len(s) : u[i] = v[i]
  BY <1>2, <1>3, SeqEqual
<1>. QED
  BY <1>2, <1>3, <1>4 DEF u, v

LEMMA PrefixTransitive ==
  ASSUME NEW p \in Seq(STRING), NEW q \in Seq(STRING), NEW r \in Seq(STRING),
         IsPrefix(p, q), IsPrefix(q, r)
  PROVE  IsPrefix(p, r)
<1>1. Len(p) \in Nat /\ Len(q) \in Nat /\ Len(r) \in Nat
  OBVIOUS
<1>. QED
  BY <1>1, PrefixPointwise

(* Two prefixes of one pointer overlap. *)
LEMMA PrefixesOverlap ==
  ASSUME NEW p \in Seq(STRING), NEW q \in Seq(STRING), NEW r \in Seq(STRING),
         IsPrefix(p, r), IsPrefix(q, r)
  PROVE  PathsOverlap(p, q)
<1>1. Len(p) \in Nat /\ Len(q) \in Nat /\ Len(r) \in Nat
  OBVIOUS
<1>2. Len(p) <= Len(q) \/ Len(q) <= Len(p)
  BY <1>1
<1>3. /\ \A i \in 1 .. Len(p) : p[i] = r[i]
      /\ \A i \in 1 .. Len(q) : q[i] = r[i]
  BY PrefixPointwise
<1>4. CASE Len(p) <= Len(q)
  <2>1. IsPrefix(p, q)
    BY <1>1, <1>3, <1>4, PrefixPointwise
  <2>. QED  BY <2>1 DEF PathsOverlap, Within
<1>5. CASE Len(q) <= Len(p)
  <2>1. IsPrefix(q, p)
    BY <1>1, <1>3, <1>5, PrefixPointwise
  <2>. QED  BY <2>1 DEF PathsOverlap, Within
<1>. QED
  BY <1>2, <1>4, <1>5

LEMMA StrictPrefixShorter ==
  ASSUME NEW p \in Seq(STRING), NEW q \in Seq(STRING), IsStrictPrefix(p, q)
  PROVE  Len(p) < Len(q)
<1>1. Len(p) \in Nat /\ Len(q) \in Nat /\ IsPrefix(p, q) /\ p # q
  BY DEF IsStrictPrefix
<1>2. Len(p) <= Len(q) /\ \A i \in 1 .. Len(p) : p[i] = q[i]
  BY <1>1, PrefixPointwise
<1>3. Len(p) # Len(q)
  BY <1>1, <1>2, SeqEqual
<1>. QED
  BY <1>1, <1>2, <1>3

(* Every node that differs lies at or below a reported change. *)
LEMMA TopmostChange ==
  ASSUME NEW before, NEW after, DOMAIN before \subseteq Seq(STRING),
         NEW p \in DOMAIN before, before[p] # after[p]
  PROVE  \E q \in ChangedPaths(before, after) : Within(p, q)
<1>. DEFINE D == {q \in DOMAIN before : IsPrefix(q, p) /\ before[q] # after[q]}
            L == {Len(q) : q \in D}
<1>1. p \in D
  BY PrefixPointwise
<1>2. PICK n \in L : \A m \in L : n <= m
  <2>1. \A q \in D : q \in Seq(STRING) /\ Len(q) \in Nat
    OBVIOUS
  <2>2. L \subseteq Nat
    BY <2>1
  <2>3. Len(p) \in L
    BY <1>1
  <2>. HIDE DEF L
  <2>. QED  BY <2>2, <2>3, LeastNatural
<1>3. PICK q \in D : n = Len(q)
  BY <1>2
<1>4. ASSUME NEW r \in DOMAIN before, IsStrictPrefix(r, q)
      PROVE  before[r] = after[r]
  <2>1. IsPrefix(r, p)
    BY <1>3, <1>4, PrefixTransitive DEF IsStrictPrefix
  <2>2. Len(r) < Len(q) /\ Len(r) \in Nat /\ Len(q) \in Nat
    BY <1>3, <1>4, StrictPrefixShorter
  <2>3. ASSUME r \in D PROVE FALSE
    <3>1. Len(r) \in L
      BY <2>3
    <3>2. n <= Len(r)
      BY <1>2, <3>1
    <3>. HIDE DEF L, D
    <3>. QED  BY <3>2, <2>2, <1>3
  <2>. QED  BY <2>1, <2>3, <1>4
<1>. QED
  BY <1>3, <1>4 DEF ChangedPaths, Within

(* An allowed change leaves every immutable node as it was, the ones above and
   below an immutable path included. *)
LEMMA AllowedKeepsImmutable ==
  ASSUME NEW before, NEW after, NEW editable,
         DOMAIN before \subseteq Seq(STRING),
         ChangeAllowed(before, after, editable, Immutable)
  PROVE  SameImmutable(before, after)
<1>. SUFFICES ASSUME NEW p \in DOMAIN before, OverlapsAny(p, Immutable),
                     before[p] # after[p]
              PROVE  FALSE
  BY DEF SameImmutable
<1>1. PICK q \in ChangedPaths(before, after) : Within(p, q)
  BY TopmostChange
<1>2. PICK i \in Immutable : PathsOverlap(p, i)
  BY DEF OverlapsAny
<1>3. p \in Seq(STRING) /\ q \in Seq(STRING) /\ i \in Seq(STRING)
  BY ContractAssumption DEF ChangedPaths
<1>4. ASSUME IsPrefix(i, p) PROVE PathsOverlap(q, i)
  BY <1>1, <1>3, <1>4, PrefixesOverlap DEF Within
<1>5. ASSUME IsPrefix(p, i) PROVE PathsOverlap(q, i)
  <2>1. IsPrefix(q, i)
    BY <1>1, <1>3, <1>5, PrefixTransitive DEF Within
  <2>. QED  BY <2>1 DEF PathsOverlap, Within
<1>6. PathsOverlap(q, i)
  BY <1>2, <1>4, <1>5 DEF PathsOverlap, Within
<1>. QED
  BY <1>1, <1>6 DEF ChangeAllowed, OutsidePaths, OverlapsAny

LEMMA SameImmutableChain ==
  ASSUME NEW p \in Proposals, NEW q \in Proposals, NEW r \in Proposals,
         SameImmutable(p, q), SameImmutable(p, r)
  PROVE  SameImmutable(q, r)
BY ProposalsAssumption DEF SameImmutable

(* An accepted comparison resolves the requested failures, introduces none and
   removes at least one (compare_failure_sets). *)
LEMMA StrictImprovementShrinks ==
  ASSUME NEW before, NEW after, NEW required,
         StrictImprovement(before, after, required)
  PROVE  /\ after \subseteq before /\ after # before
         /\ \A atom \in after : atom[2] \notin required
<1>1. after \ before = {}
  BY DEF StrictImprovement, CompareFailures
<1>2. before \ after # {}
  BY <1>1 DEF StrictImprovement, CompareFailures
<1>3. ASSUME NEW atom \in after, atom[2] \in required PROVE FALSE
  BY <1>1, <1>3 DEF StrictImprovement, CompareFailures
<1>. QED
  BY <1>1, <1>2, <1>3

-----------------------------------------------------------------------------
(* Typing of what an action computes *)

LEMMA VerdictsTyped ==
  ASSUME TypeOK, NEW p \in Proposals
  PROVE  Gated(p) \in Verdicts
BY DEF TypeOK, Options, Gated, Verdicts

LEMMA CandidatesAreProposals ==
  ASSUME TypeOK, candidate \in Proposals, UnitCandidate # NoCandidate
  PROVE  UnitCandidate \in Proposals
<1>. DEFINE calculable == Calculable(UnitEditable, options.policy)
<1>1. calculable \in SUBSET Calculable({}, FALSE)
  BY DEF Calculable
<1>2. DeterministicCandidate(candidate, calculable) \in Proposals \cup {NoCandidate}
  BY <1>1, ProposalsAssumption
<1>. QED
  BY <1>2 DEF UnitCandidate

LEMMA OutcomesDiffer ==
  ASSUME NEW status, NEW reason, NEW proposal, NEW verdicts,
         Finish(status, reason, proposal, verdicts)
  PROVE  outcome' # NoOutcome /\ pc' = "done"
<1>1. DOMAIN outcome' # DOMAIN NoOutcome
  BY DEF Finish, NoOutcome
<1>. QED
  BY <1>1 DEF Finish

LEMMA Initially ==
  ASSUME Init PROVE IInv
<1>1. TypeOK
  BY ContractAssumption DEF Init, TypeOK, Options, NoProposal, NoOutcome
<1>. QED
  BY <1>1 DEF Init, IInv, Held, Attempts, VerdictsBelongToProposal,
              SuccessIsVerified, Baseline, Progress, ScopedAttempt

LEMMA TypeStep ==
  ASSUME TypeOK, Held, [Next]_vars
  PROVE  TypeOK'
<1>. USE DEF TypeOK
<1>1. CASE UNCHANGED vars
  BY <1>1 DEF vars, runVars, workVars, observedVars, Verdicts
<1>2. CASE RuntimeFails
  BY <1>2, OutcomesDiffer
  DEF RuntimeFails, Escalate, runVars, workVars, observedVars, Verdicts
<1>3. CASE RepairUnavailable
  BY <1>3, OutcomesDiffer
  DEF RepairUnavailable, Escalate, runVars, workVars, observedVars, Verdicts
<1>4. ASSUME NEW p \in Proposals, RepeatsProposal(p) PROVE TypeOK'
  BY <1>4, OutcomesDiffer
  DEF RepeatsProposal, Answers, Escalate, runVars, workVars, observedVars, Verdicts
<1>5. ASSUME NEW p \in Proposals, EditsOutOfScope(p) PROVE TypeOK'
  BY <1>5
  DEF EditsOutOfScope, Answers, RollBack, workVars, observedVars, Verdicts
<1>6. ASSUME NEW p \in Proposals, ReturnsCandidate(p) PROVE TypeOK'
  BY <1>6 DEF ReturnsCandidate, Answers, runVars, observedVars, Verdicts
<1>7. CASE RejectCandidate
  BY <1>7 DEF RejectCandidate, RollBack, workVars, observedVars, Verdicts
<1>8. CASE AdoptCandidate
  <2>1. candidate \in Proposals
    BY <1>8 DEF AdoptCandidate, Held
  <2>2. Gated(candidate) \in Verdicts
    BY <2>1, VerdictsTyped
  <2>. QED
    BY <1>8, <2>1, <2>2 DEF AdoptCandidate, runVars, Verdicts
<1>9. CASE RepairUnit
  <2>1. UnitCandidate \in Proposals
    BY <1>9, CandidatesAreProposals DEF RepairUnit, UnitProposed, Held
  <2>2. Gated(UnitCandidate) \in Verdicts
    BY <2>1, VerdictsTyped
  <2>. QED
    BY <1>9, <2>1, <2>2 DEF RepairUnit, runVars, Verdicts
<1>10. CASE Settle
  <2>1. pc' = "done" <=> outcome' # NoOutcome
    <3>1. CASE AllPass(results)
      BY <1>10, <3>1, OutcomesDiffer DEF Settle, CompletePassingRun, Escalate
    <3>2. CASE ~ AllPass(results)
      BY <1>10, <3>2, OutcomesDiffer DEF Settle, AfterFailure, Escalate
    <3>. QED  BY <3>1, <3>2
  <2>2. pc' \in {"retrying", "done"}
    <3>1. CASE AllPass(results)
      BY <1>10, <3>1, OutcomesDiffer DEF Settle, CompletePassingRun, Escalate
    <3>2. CASE ~ AllPass(results)
      BY <1>10, <3>2, OutcomesDiffer DEF Settle, AfterFailure, Escalate
    <3>. QED  BY <3>1, <3>2
  <2>. QED
    BY <1>10, <2>1, <2>2 DEF Settle, workVars, observedVars, Verdicts
<1>11. CASE NextAttempt
  BY <1>11, ContractAssumption
  DEF NextAttempt, runVars, workVars, observedVars, Verdicts
<1>12. CASE ExhaustBudget
  BY <1>12, OutcomesDiffer
  DEF ExhaustBudget, Escalate, runVars, workVars, observedVars, Verdicts
<1>. QED
  BY <1>1, <1>2, <1>3, <1>4, <1>5, <1>6, <1>7, <1>8, <1>9, <1>10, <1>11, <1>12
  DEF Next

-----------------------------------------------------------------------------
(* The other conjuncts *)

(* Only the three actions that move candidates on are left to look at when a
   conjunct speaks of what is retained or verified. *)
Moves == AdoptCandidate \/ RepairUnit \/ Settle

LEMMA OtherStepsKeep ==
  ASSUME IInv, [Next]_vars, ~ Moves
  PROVE  /\ UNCHANGED <<options, runVars, results, step, local, origin>>
            \/ /\ UNCHANGED <<options, best, bestResults, scope, results, origin>>
               /\ last' = best /\ lastResults' = bestResults
         /\ pc' # "repairing" \/ UNCHANGED <<pc, candidate>>
<1>. USE DEF runVars, workVars, observedVars, Moves
<1>1. CASE UNCHANGED vars
  BY <1>1 DEF vars
<1>2. ASSUME NEW p \in Proposals,
             RepeatsProposal(p) \/ EditsOutOfScope(p) \/ ReturnsCandidate(p)
      PROVE  /\ UNCHANGED <<options, runVars, results, step, local, origin>>
                \/ /\ UNCHANGED <<options, best, bestResults, scope, results, origin>>
                   /\ last' = best /\ lastResults' = bestResults
             /\ pc' # "repairing"
  BY <1>2 DEF RepeatsProposal, EditsOutOfScope, ReturnsCandidate, RollBack,
              Escalate, Finish
<1>3. CASE RuntimeFails \/ RepairUnavailable \/ NextAttempt \/ ExhaustBudget
  BY <1>3 DEF RuntimeFails, RepairUnavailable, NextAttempt, ExhaustBudget,
              Escalate, Finish
<1>4. CASE RejectCandidate
  BY <1>4 DEF RejectCandidate, RollBack
<1>. QED
  BY <1>1, <1>2, <1>3, <1>4 DEF Next

LEMMA AttemptsStep ==
  ASSUME IInv, [Next]_vars
  PROVE  Held' /\ Attempts'
<1>. USE DEF IInv, Held, Attempts, ScopedAttempt, runVars, workVars, observedVars
<1>. NoProposal \notin Proposals
  BY ProposalsAssumption DEF NoProposal, NoCandidate
<1>1. CASE UNCHANGED vars
  BY <1>1 DEF vars
<1>2. CASE RuntimeFails \/ RepairUnavailable \/ ExhaustBudget
  BY <1>2 DEF RuntimeFails, RepairUnavailable, ExhaustBudget, Escalate, Finish
<1>3. ASSUME NEW p \in Proposals, RepeatsProposal(p)
      PROVE  Held' /\ Attempts'
  BY <1>3 DEF RepeatsProposal, Answers, Escalate, Finish
<1>4. ASSUME NEW p \in Proposals, EditsOutOfScope(p)
      PROVE  Held' /\ Attempts'
  BY <1>4 DEF EditsOutOfScope, Answers, RollBack, LeavesScope
<1>5. ASSUME NEW p \in Proposals, ReturnsCandidate(p)
      PROVE  Held' /\ Attempts'
  BY <1>5 DEF ReturnsCandidate, Answers
<1>6. CASE RejectCandidate
  BY <1>6 DEF RejectCandidate, RollBack, RetainedBy
<1>7. CASE AdoptCandidate
  BY <1>7 DEF AdoptCandidate
<1>8. CASE RepairUnit
  <2>1. UnitCandidate # NoProposal
    BY <1>8 DEF RepairUnit, UnitProposed, NoCandidate, NoProposal
  <2>. QED  BY <1>8, <2>1 DEF RepairUnit
<1>9. CASE Settle
  <2>1. CASE AllPass(results)
    <3>1. pc' = "done"
      BY <1>9, <2>1, OutcomesDiffer DEF Settle, CompletePassingRun, Escalate
    <3>. QED  BY <1>9, <3>1 DEF Settle
  <2>2. CASE ~ AllPass(results)
    <3>1. /\ pc' \in {"done", "retrying"}
          /\ pc' = "retrying" /\ options.policy => scope' # NoScope
      BY <1>9, <2>2, OutcomesDiffer DEF Settle, AfterFailure, Escalate
    <3>. QED  BY <1>9, <3>1 DEF Settle
  <2>. QED  BY <2>1, <2>2
<1>10. CASE NextAttempt
  BY <1>10 DEF NextAttempt
<1>. QED
  BY <1>1, <1>2, <1>3, <1>4, <1>5, <1>6, <1>7, <1>8, <1>9, <1>10 DEF Next

LEMMA PairedStep ==
  ASSUME IInv, [Next]_vars
  PROVE  VerdictsBelongToProposal'
<1>. USE DEF VerdictsBelongToProposal, Gated
<1>. NoProposal \notin Proposals
  BY ProposalsAssumption DEF NoProposal, NoCandidate
<1>1. CASE UNCHANGED vars
  BY <1>1 DEF vars, runVars, workVars, IInv
<1>2. CASE RuntimeFails \/ RepairUnavailable \/ ExhaustBudget
  BY <1>2 DEF RuntimeFails, RepairUnavailable, ExhaustBudget, Escalate, Finish,
              runVars, workVars, IInv
<1>3. ASSUME NEW p \in Proposals, RepeatsProposal(p)
      PROVE  VerdictsBelongToProposal'
  <2>1. options.policy => ScopedAttempt
    BY <1>3 DEF RepeatsProposal, Answers, IInv, Attempts
  <2>. QED
    BY <1>3, <2>1 DEF RepeatsProposal, Answers, Escalate, Finish, runVars,
                      workVars, IInv
<1>4. ASSUME NEW p \in Proposals, EditsOutOfScope(p) \/ ReturnsCandidate(p)
      PROVE  VerdictsBelongToProposal'
  BY <1>4 DEF EditsOutOfScope, ReturnsCandidate, RollBack, runVars, workVars, IInv
<1>5. CASE RejectCandidate
  BY <1>5 DEF RejectCandidate, RollBack, workVars, IInv
<1>6. CASE AdoptCandidate
  BY <1>6 DEF AdoptCandidate, runVars, IInv, Held
<1>7. CASE RepairUnit
  <2>1. UnitCandidate # NoProposal
    BY <1>7 DEF RepairUnit, UnitProposed, NoCandidate, NoProposal
  <2>. QED  BY <1>7, <2>1 DEF RepairUnit, runVars, IInv
<1>8. CASE Settle
  <2>1. CASE AllPass(results)
    BY <1>8, <2>1 DEF Settle, CompletePassingRun, Escalate, Finish, IInv, Held
  <2>2. CASE ~ AllPass(results)
    BY <1>8, <2>2 DEF Settle, AfterFailure, Escalate, Finish, IInv, Held
  <2>. QED  BY <2>1, <2>2
<1>9. CASE NextAttempt
  BY <1>9 DEF NextAttempt, runVars, workVars, IInv
<1>. QED
  BY <1>1, <1>2, <1>3, <1>4, <1>5, <1>6, <1>7, <1>8, <1>9 DEF Next

LEMMA SuccessStep ==
  ASSUME IInv, [Next]_vars
  PROVE  SuccessIsVerified'
<1>. USE DEF SuccessIsVerified, Gated
<1>1. CASE UNCHANGED vars
  BY <1>1 DEF vars, IInv
<1>2. CASE RuntimeFails \/ RepairUnavailable \/ ExhaustBudget
  BY <1>2 DEF RuntimeFails, RepairUnavailable, ExhaustBudget, Escalate, Finish
<1>3. ASSUME NEW p \in Proposals,
             RepeatsProposal(p) \/ EditsOutOfScope(p) \/ ReturnsCandidate(p)
      PROVE  SuccessIsVerified'
  BY <1>3 DEF RepeatsProposal, EditsOutOfScope, ReturnsCandidate, RollBack,
              Escalate, Finish
<1>4. CASE RejectCandidate \/ AdoptCandidate \/ RepairUnit \/ NextAttempt
  BY <1>4 DEF RejectCandidate, AdoptCandidate, RepairUnit, NextAttempt, RollBack
<1>5. CASE Settle
  <2>1. CASE AllPass(results)
    <3>1. results = Gated(candidate)
      BY <1>5 DEF Settle, IInv, Held, VerdictsBelongToProposal
    <3>2. AllPass(VerdictTable[options.policy][candidate])
      BY <2>1, <3>1
    <3>. QED
      BY <1>5, <2>1, <3>2 DEF Settle, CompletePassingRun, Escalate, Finish
  <2>2. CASE ~ AllPass(results)
    BY <1>5, <2>2 DEF Settle, AfterFailure, Escalate, Finish
  <2>. QED  BY <2>1, <2>2
<1>. QED
  BY <1>1, <1>2, <1>3, <1>4, <1>5 DEF Next

LEMMA AdoptedKeepsBest ==
  ASSUME IInv, AdoptCandidate, options.policy, best # NoProposal
  PROVE  /\ SameImmutable(best, candidate)
         /\ FailureAtoms(results') \subseteq FailureAtoms(bestResults)
         /\ FailureAtoms(results') # FailureAtoms(bestResults)
         /\ \A atom \in FailureAtoms(results') : atom[2] \notin scope.failed
<1>1. ScopedAttempt
  BY DEF AdoptCandidate, IInv, Attempts
<1>2. /\ ~ LeavesScope(candidate)
      /\ StrictImprovement(FailureAtoms(bestResults), FailureAtoms(results'),
                           scope.failed)
  BY <1>1 DEF AdoptCandidate, RetainedBy
<1>3. best \in Proposals
  BY DEF IInv, TypeOK
<1>4. ChangeAllowed(best, candidate, scope.editable, Immutable)
  BY <1>1, <1>2 DEF LeavesScope
<1>5. SameImmutable(best, candidate)
  BY <1>3, <1>4, AllowedKeepsImmutable, ProposalsAssumption
<1>. QED
  BY <1>2, <1>5, StrictImprovementShrinks

LEMMA RepairedKeepsCandidate ==
  ASSUME IInv, RepairUnit, options.policy
  PROVE  /\ SameImmutable(candidate, candidate')
         /\ FailureAtoms(results') \subseteq FailureAtoms(results)
         /\ FailureAtoms(results') # FailureAtoms(results)
<1>1. /\ ChangeAllowed(candidate, candidate', UnitEditable, Immutable)
      /\ StrictImprovement(FailureAtoms(results), FailureAtoms(results'),
                           UnitScope.failed)
  BY DEF RepairUnit, UnitAccepted
<1>2. candidate \in Proposals
  BY DEF IInv, TypeOK, Held, RepairUnit
<1>3. SameImmutable(candidate, candidate')
  BY <1>1, <1>2, AllowedKeepsImmutable, ProposalsAssumption
<1>. QED
  BY <1>1, <1>3, StrictImprovementShrinks

LEMMA BaselineStep ==
  ASSUME IInv, [Next]_vars
  PROVE  Baseline'
<1>. USE DEF Baseline
<1>1. CASE AdoptCandidate
  <2>. SUFFICES ASSUME options.policy
                PROVE  /\ best # NoProposal => SameImmutable(best, origin')
                       /\ SameImmutable(candidate, origin')
    BY <1>1 DEF AdoptCandidate, runVars, SameImmutable
  <2>1. CASE origin = NoProposal
    BY <1>1, <2>1 DEF AdoptCandidate, SameImmutable, IInv, Attempts
  <2>2. CASE origin # NoProposal
    <3>1. best # NoProposal /\ origin' = origin
      BY <1>1, <2>2 DEF AdoptCandidate, IInv, Attempts
    <3>2. SameImmutable(best, candidate) /\ SameImmutable(best, origin)
      BY <1>1, <3>1, AdoptedKeepsBest DEF IInv
    <3>3. best \in Proposals /\ candidate \in Proposals /\ origin \in Proposals
      BY <1>1, <2>2, <3>1 DEF IInv, TypeOK, Held, AdoptCandidate
    <3>. QED
      BY <3>1, <3>2, <3>3, SameImmutableChain
  <2>. QED  BY <2>1, <2>2
<1>2. CASE RepairUnit
  <2>. SUFFICES ASSUME options.policy
                PROVE  SameImmutable(candidate', origin)
    BY <1>2 DEF RepairUnit, runVars, SameImmutable, IInv
  <2>1. SameImmutable(candidate, candidate') /\ SameImmutable(candidate, origin)
    BY <1>2, RepairedKeepsCandidate DEF IInv, RepairUnit
  <2>2. candidate \in Proposals /\ candidate' \in Proposals /\ origin \in Proposals
    BY <1>2, CandidatesAreProposals
    DEF IInv, TypeOK, Held, Attempts, RepairUnit, UnitProposed
  <2>. QED
    BY <2>1, <2>2, SameImmutableChain
<1>3. CASE Settle
  <2>1. pc' # "repairing"
    <3>1. CASE AllPass(results)
      BY <1>3, <3>1, OutcomesDiffer DEF Settle, CompletePassingRun, Escalate
    <3>2. CASE ~ AllPass(results)
      BY <1>3, <3>2, OutcomesDiffer DEF Settle, AfterFailure, Escalate
    <3>. QED  BY <3>1, <3>2
  <2>. QED
    BY <1>3, <2>1 DEF Settle, observedVars, SameImmutable, IInv
<1>4. CASE ~ Moves
  BY <1>4, OtherStepsKeep DEF runVars, SameImmutable, IInv
<1>. QED
  BY <1>1, <1>2, <1>3, <1>4 DEF Moves

LEMMA ProgressStep ==
  ASSUME IInv, [Next]_vars
  PROVE  Progress'
<1>. USE DEF Progress
<1>1. CASE AdoptCandidate
  BY <1>1, AdoptedKeepsBest DEF AdoptCandidate, runVars
<1>2. CASE RepairUnit
  BY <1>2, RepairedKeepsCandidate DEF RepairUnit, runVars, IInv
<1>3. CASE Settle
  <2>1. pc' # "repairing"
    <3>1. CASE AllPass(results)
      BY <1>3, <3>1, OutcomesDiffer DEF Settle, CompletePassingRun, Escalate
    <3>2. CASE ~ AllPass(results)
      BY <1>3, <3>2, OutcomesDiffer DEF Settle, AfterFailure, Escalate
    <3>. QED  BY <3>1, <3>2
  <2>. QED  BY <2>1
<1>4. CASE ~ Moves
  BY <1>4, OtherStepsKeep DEF runVars, IInv
<1>. QED
  BY <1>1, <1>2, <1>3, <1>4 DEF Moves

-----------------------------------------------------------------------------
(* The theorems *)

(* The inductive invariant holds throughout every run of the controller. *)
THEOREM Invariance == Spec => []IInv
<1>1. IInv /\ [Next]_vars => IInv'
  BY TypeStep, AttemptsStep, PairedStep, SuccessStep, BaselineStep, ProgressStep
  DEF IInv
<1>. QED
  BY <1>1, Initially, PTL DEF Spec

(* The controller only ever holds proposals and verdicts of its contract, and
   has an outcome exactly when it has stopped (DohaaController.run). *)
THEOREM TypeCorrect == Spec => []TypeOK
<1>1. IInv => TypeOK
  BY DEF IInv
<1>. QED  BY <1>1, Invariance, PTL

(* What a run keeps or returns beside a proposal is the gates' verdicts on that
   very proposal (DohaaController.run, _repair_deterministically). *)
THEOREM VerdictsAreCurrent == Spec => []VerdictsBelongToProposal
<1>1. IInv => VerdictsBelongToProposal
  BY DEF IInv
<1>. QED  BY <1>1, Invariance, PTL

(* A run that succeeds, or asks for the human approval, returns a proposal that
   every configured gate passes, and success never precedes a required
   approval (_complete_passing_run). *)
THEOREM SuccessVerified == Spec => []SuccessIsVerified
<1>1. IInv => SuccessIsVerified
  BY DEF IInv
<1>. QED  BY <1>1, Invariance, PTL

(* However many attempts and deterministic units a run takes, the immutable
   fields of the first evaluated proposal survive in the one it retains
   (assess_candidate_changes). *)
THEOREM ImmutablePreserved == Spec => []ImmutableFieldsPreserved
<1>1. IInv => ImmutableFieldsPreserved
  BY DEF IInv, Baseline, SameImmutable, ImmutableFieldsPreserved
<1>. QED  BY <1>1, Invariance, PTL

LEMMA OnlySettleRetains ==
  ASSUME IInv, [Next]_vars, best' # best
  PROVE  Settle
<1>1. ~ AdoptCandidate /\ ~ RepairUnit
  BY DEF AdoptCandidate, RepairUnit, runVars
<1>. QED
  BY <1>1, OtherStepsKeep DEF Moves, runVars

(* Each change of the retained proposal strictly shrinks the set of visible
   failures (compare_failure_sets, require_strict_improvement). *)
THEOREM RetentionShrinksFailures == Spec => RetentionImproves
<1>1. IInv /\ [Next]_vars =>
        [options.policy /\ best # NoProposal /\ best' # best =>
           FailureAtoms(bestResults') \subseteq FailureAtoms(bestResults)
           /\ FailureAtoms(bestResults') # FailureAtoms(bestResults)]_vars
  BY OnlySettleRetains DEF Settle, IInv, Progress
<1>. QED
  BY <1>1, Invariance, PTL DEF Spec, RetentionImproves

(* Whatever the deterministic sequence adds to a retained candidate, the rules
   of the unit the runtime was asked to repair hold in what is kept (run). *)
THEOREM RequestedUnitResolved == Spec => RequestedUnitIsResolved
<1>1. IInv /\ [Next]_vars =>
        [options.policy /\ best # NoProposal /\ best' # best =>
           \A atom \in FailureAtoms(bestResults') : atom[2] \notin scope.failed]_vars
  BY OnlySettleRetains DEF Settle, IInv, Progress
<1>. QED
  BY <1>1, Invariance, PTL DEF Spec, RequestedUnitIsResolved

-----------------------------------------------------------------------------
(* What a run may edit. *)

ScopeIsTyped ==
  options.policy /\ scope # NoScope => scope.editable \subseteq Seq(STRING)

DiffersWithin(before, after, allowed) ==
  \A p \in DOMAIN before : before[p] # after[p] => CoveredBy(p, allowed)

EditsCovered ==
  options.policy =>
    /\ best # NoProposal => DiffersWithin(best, origin, authorized)
    /\ pc = "repairing" => DiffersWithin(candidate, origin, authorized)

-----------------------------------------------------------------------------
(* Whatever an allowed change alters, the nodes below a reported one included,
   is covered by what may be edited (assess_candidate_changes). *)
LEMMA AllowedIsCovered ==
  ASSUME NEW before, NEW after, NEW editable \in SUBSET Seq(STRING),
         DOMAIN before \subseteq Seq(STRING),
         ChangeAllowed(before, after, editable, Immutable)
  PROVE  DiffersWithin(before, after, editable)
<1>. SUFFICES ASSUME NEW p \in DOMAIN before, before[p] # after[p]
              PROVE  CoveredBy(p, editable)
  BY DEF DiffersWithin
<1>1. PICK q \in ChangedPaths(before, after) : Within(p, q)
  BY TopmostChange
<1>2. PICK e \in editable : Within(q, e)
  BY <1>1 DEF ChangeAllowed, OutsidePaths, CoveredBy
<1>3. p \in Seq(STRING) /\ q \in Seq(STRING) /\ e \in Seq(STRING)
  BY DEF ChangedPaths
<1>4. Within(p, e)
  BY <1>1, <1>2, <1>3, PrefixTransitive DEF Within
<1>. QED
  BY <1>2, <1>4 DEF CoveredBy

(* Changes compose: first within one set of pointers, then within another. *)
LEMMA DiffersChain ==
  ASSUME NEW p \in Proposals, NEW q \in Proposals, NEW r \in Proposals,
         NEW S, NEW T, DiffersWithin(p, q, S), DiffersWithin(p, r, T)
  PROVE  DiffersWithin(q, r, T \cup S)
<1>. SUFFICES ASSUME NEW node \in DOMAIN q, q[node] # r[node]
              PROVE  CoveredBy(node, T \cup S)
  BY DEF DiffersWithin
<1>1. node \in DOMAIN p
  BY ProposalsAssumption
<1>2. p[node] # q[node] \/ p[node] # r[node]
  OBVIOUS
<1>. QED
  BY <1>1, <1>2 DEF DiffersWithin, CoveredBy

(* A derived scope names well-formed pointers only (RepairScope.from_raw). *)
LEMMA DerivedIsTyped ==
  ASSUME NEW verdicts, DeriveRepairScope(verdicts) # NoScope
  PROVE  DeriveRepairScope(verdicts).editable \subseteq Seq(STRING)
<1>1. ASSUME NEW scopes, MergeScopes(scopes) # NoScope
      PROVE  MergeScopes(scopes).editable \subseteq Seq(STRING)
  BY <1>1 DEF MergeScopes, ValidScope
<1>. QED
  BY <1>1 DEF DeriveRepairScope

LEMMA ScopeStep ==
  ASSUME IInv, ScopeIsTyped, [Next]_vars
  PROVE  ScopeIsTyped'
<1>. USE DEF ScopeIsTyped
<1>1. CASE AdoptCandidate \/ RepairUnit
  BY <1>1 DEF AdoptCandidate, RepairUnit, runVars
<1>2. CASE Settle
  <2>1. options' = options /\ (scope' = scope \/ scope' = DeriveRepairScope(results))
    BY <1>2 DEF Settle
  <2>. QED  BY <2>1, DerivedIsTyped
<1>3. CASE ~ Moves
  BY <1>3, OtherStepsKeep DEF runVars
<1>. QED
  BY <1>1, <1>2, <1>3 DEF Moves

(* No step but an adoption and a unit extends what was authorized. *)
LEMMA OtherStepsAuthorize ==
  ASSUME [Next]_vars, ~ AdoptCandidate, ~ RepairUnit
  PROVE  authorized' = authorized
BY DEF Next, vars, RuntimeFails, RepairUnavailable, RepeatsProposal, EditsOutOfScope,
       ReturnsCandidate, RejectCandidate, Settle, NextAttempt, ExhaustBudget,
       observedVars

LEMMA EditsStep ==
  ASSUME IInv, ScopeIsTyped, EditsCovered, [Next]_vars
  PROVE  EditsCovered'
<1>. USE DEF EditsCovered
<1>1. CASE AdoptCandidate
  <2>. SUFFICES ASSUME options.policy
                PROVE  /\ best # NoProposal =>
                            DiffersWithin(best, origin', authorized')
                       /\ DiffersWithin(candidate, origin', authorized')
    BY <1>1 DEF AdoptCandidate, runVars, DiffersWithin
  <2>1. CASE origin = NoProposal
    BY <1>1, <2>1 DEF AdoptCandidate, DiffersWithin, IInv, Attempts
  <2>2. CASE origin # NoProposal
    <3>1. /\ best # NoProposal /\ origin' = origin /\ ScopedAttempt
          /\ authorized' = authorized \cup scope.editable
          /\ ~ LeavesScope(candidate)
      BY <1>1, <2>2 DEF AdoptCandidate, RetainedBy, IInv, Attempts
    <3>2. best \in Proposals /\ candidate \in Proposals /\ origin \in Proposals
      BY <1>1, <2>2, <3>1 DEF IInv, TypeOK, Held, AdoptCandidate
    <3>3. DiffersWithin(best, candidate, scope.editable)
      <4>1. scope.editable \in SUBSET Seq(STRING)
        BY <3>1 DEF ScopeIsTyped, ScopedAttempt
      <4>2. ChangeAllowed(best, candidate, scope.editable, Immutable)
        BY <3>1 DEF LeavesScope
      <4>. QED  BY <3>2, <4>1, <4>2, AllowedIsCovered, ProposalsAssumption
    <3>4. DiffersWithin(best, origin, authorized)
      BY <3>1
    <3>5. DiffersWithin(candidate, origin, authorized')
      BY <3>1, <3>2, <3>3, <3>4, DiffersChain
    <3>. QED
      BY <3>1, <3>4, <3>5 DEF DiffersWithin, CoveredBy
  <2>. QED  BY <2>1, <2>2
<1>2. CASE RepairUnit
  <2>. SUFFICES ASSUME options.policy
                PROVE  /\ best # NoProposal =>
                            DiffersWithin(best, origin, authorized')
                       /\ DiffersWithin(candidate', origin, authorized')
    BY <1>2 DEF RepairUnit, runVars, DiffersWithin
  <2>1. /\ authorized' = authorized \cup UnitEditable
        /\ ChangeAllowed(candidate, candidate', UnitEditable, Immutable)
        /\ UnitScope = DeriveRepairScope(results) /\ UnitScope # NoScope
    BY <1>2 DEF RepairUnit, UnitAccepted, UnitProposed, UnitScope
  <2>2. candidate \in Proposals /\ candidate' \in Proposals /\ origin \in Proposals
    BY <1>2, CandidatesAreProposals
    DEF IInv, TypeOK, Held, Attempts, RepairUnit, UnitProposed
  <2>3. DiffersWithin(candidate, candidate', UnitEditable)
    <3>1. UnitEditable \in SUBSET Seq(STRING)
      BY <2>1, DerivedIsTyped DEF UnitEditable
    <3>. QED  BY <2>1, <2>2, <3>1, AllowedIsCovered, ProposalsAssumption
  <2>4. /\ DiffersWithin(candidate, origin, authorized)
        /\ best # NoProposal => DiffersWithin(best, origin, authorized)
    BY <1>2 DEF RepairUnit
  <2>5. DiffersWithin(candidate', origin, authorized')
    BY <2>1, <2>2, <2>3, <2>4, DiffersChain
  <2>. QED
    BY <2>1, <2>4, <2>5 DEF DiffersWithin, CoveredBy
<1>3. CASE Settle
  <2>1. pc' # "repairing"
    <3>1. CASE AllPass(results)
      BY <1>3, <3>1, OutcomesDiffer DEF Settle, CompletePassingRun, Escalate
    <3>2. CASE ~ AllPass(results)
      BY <1>3, <3>2, OutcomesDiffer DEF Settle, AfterFailure, Escalate
    <3>. QED  BY <3>1, <3>2
  <2>. QED
    BY <1>3, <2>1 DEF Settle, observedVars, DiffersWithin
<1>4. CASE ~ Moves
  BY <1>4, OtherStepsKeep, OtherStepsAuthorize DEF Moves, runVars, DiffersWithin
<1>. QED
  BY <1>1, <1>2, <1>3, <1>4 DEF Moves

-----------------------------------------------------------------------------
(* Every node at which the retained proposal differs from the first evaluated
   one lies inside a scope something was adopted under, whatever the runtime
   answers and however many deterministic units follow (preserve_unlisted,
   assess_candidate_changes). *)
THEOREM EditsAuthorized == Spec => []EditsWereAuthorized
<1>1. Init => ScopeIsTyped /\ EditsCovered
  BY DEF Init, ScopeIsTyped, EditsCovered
<1>2. IInv /\ ScopeIsTyped /\ EditsCovered /\ [Next]_vars
        => ScopeIsTyped' /\ EditsCovered'
  BY ScopeStep, EditsStep
<1>3. EditsCovered => EditsWereAuthorized
  BY DEF EditsCovered, DiffersWithin, EditsWereAuthorized
<1>. QED
  BY <1>1, <1>2, <1>3, Invariance, PTL DEF Spec
=============================================================================
