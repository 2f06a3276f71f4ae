-------------------------- MODULE DohaaController --------------------------
(***************************************************************************)
(* One run of the evidence-gated controller (controller/engine.py): the    *)
(* bounded loop of DohaaController.run around an untrusted runtime, the    *)
(* rule-aware selection of candidates, the deterministic repair sequence   *)
(* and the terminal outcomes.  The runtime is the environment: at every    *)
(* attempt it returns any proposal at all, or fails.                       *)
(***************************************************************************)
EXTENDS AssuranceGates

CONSTANTS
  MaxAttempts,  \* contract.max_attempts
  StepLimit,    \* MAX_ASSERTIONS, the ceiling of the deterministic sequence
  Immutable     \* repair_policy.immutable_paths

ASSUME ContractAssumption ==
  /\ MaxAttempts \in Nat \ {0}
  /\ StepLimit \in Nat \ {0}
  /\ Immutable \subseteq Seq(STRING)

VARIABLES
  options,      \* the contract and the runtime: fixed for the run
  pc,           \* where the controller is
  attempt,
  seen,         \* fingerprints: the proposals the runtime has returned
  best, bestResults,
  last, lastResults,
  scope,        \* repair_scope of the next attempt
  candidate, results,    \* the proposal under verification and its verdicts
  step, local,  \* deterministic step and the fingerprints of its sequence
  outcome       \* the RunResult

(* Observed, never read by an action. *)
VARIABLES
  origin,       \* the first proposal the gates evaluated
  authorized    \* editable paths of every scope something was adopted under

runVars      == <<best, bestResults, last, lastResults, scope>>
workVars     == <<candidate, results, step, local>>
observedVars == <<origin, authorized>>
vars == <<options, pc, attempt, seen, runVars, workVars, outcome, observedVars>>

NoProposal == <<>>
NoOutcome  == [status |-> "running"]

Options == [policy: BOOLEAN,      \* repair_policy in the contract inputs
            capable: BOOLEAN,     \* the runtime implements repair
            needsApproval: BOOLEAN,
            approved: BOOLEAN]

Init ==
  /\ options \in Options
  /\ pc = "proposing"
  /\ attempt = 1
  /\ seen = {}
  /\ best = NoProposal /\ bestResults = <<>>
  /\ last = NoProposal /\ lastResults = <<>>
  /\ scope = NoScope
  /\ candidate = NoProposal /\ results = <<>>
  /\ step = 0 /\ local = {}
  /\ outcome = NoOutcome
  /\ origin = NoProposal
  /\ authorized = {}

-----------------------------------------------------------------------------

ScopedAttempt == options.policy /\ scope # NoScope /\ best # NoProposal

Gated(proposal) == VerdictTable[options.policy][proposal]

Finish(status, reason, proposal, verdicts) ==
  /\ outcome' = [status |-> status, reason |-> reason,
                 proposal |-> proposal, results |-> verdicts,
                 attempts |-> attempt]
  /\ pc' = "done"

Escalate(reason, proposal, verdicts) ==
  Finish("escalated", reason, proposal, verdicts)

(* The candidate is dropped and the best proposal so far stays in charge. *)
RollBack ==
  /\ last' = best
  /\ lastResults' = bestResults
  /\ pc' = "retrying"
  /\ UNCHANGED <<best, bestResults, scope, outcome>>

-----------------------------------------------------------------------------
(* Asking the runtime: propose, or repair within the scope *)

RuntimeFails ==
  /\ pc = "proposing"
  /\ ScopedAttempt => options.capable
  /\ Escalate("runtime.failed", last, lastResults)
  /\ UNCHANGED <<options, attempt, seen, runVars, workVars, observedVars>>

RepairUnavailable ==
  /\ pc = "proposing"
  /\ ScopedAttempt /\ ~ options.capable
  /\ Escalate("repair.runtime_unavailable", best, bestResults)
  /\ UNCHANGED <<options, attempt, seen, runVars, workVars, observedVars>>

Answers(proposal) ==
  /\ pc = "proposing"
  /\ ScopedAttempt => options.capable
  /\ proposal \in Proposals

RepeatsProposal(proposal) ==
  /\ Answers(proposal)
  /\ proposal \in seen
  /\ IF ScopedAttempt
     THEN Escalate("repair.no_progress", best, bestResults)
     ELSE Escalate("repair.no_progress", proposal, lastResults)
  /\ UNCHANGED <<options, attempt, seen, runVars, workVars, observedVars>>

LeavesScope(proposal) ==
  ScopedAttempt /\ ~ ChangeAllowed(best, proposal, scope.editable, Immutable)

EditsOutOfScope(proposal) ==
  /\ Answers(proposal)
  /\ proposal \notin seen
  /\ LeavesScope(proposal)
  /\ seen' = seen \cup {proposal}
  /\ RollBack
  /\ UNCHANGED <<options, attempt, workVars, observedVars>>

ReturnsCandidate(proposal) ==
  /\ Answers(proposal)
  /\ proposal \notin seen
  /\ ~ LeavesScope(proposal)
  /\ seen' = seen \cup {proposal}
  /\ candidate' = proposal
  /\ pc' = "verifying"
  /\ UNCHANGED <<options, attempt, runVars, results, step, local, outcome,
                 observedVars>>

-----------------------------------------------------------------------------
(* The gates, and in a scoped attempt the comparison with the best so far *)

RetainedBy(verdicts) ==
  ScopedAttempt =>
    /\ ~ LeavesScope(candidate)
    /\ StrictImprovement(FailureAtoms(bestResults), FailureAtoms(verdicts),
                         scope.failed)

RejectCandidate ==
  /\ pc = "verifying"
  /\ ~ RetainedBy(Gated(candidate))
  /\ RollBack
  /\ UNCHANGED <<options, attempt, seen, workVars, observedVars>>

AdoptCandidate ==
  LET verdicts == Gated(candidate)
  IN /\ pc = "verifying"
     /\ RetainedBy(verdicts)
     /\ results' = verdicts
     /\ step' = 1
     /\ local' = {candidate}
     /\ pc' = "repairing"
     /\ origin' = IF origin = NoProposal THEN candidate ELSE origin
     /\ authorized' = IF ScopedAttempt THEN authorized \cup scope.editable
                      ELSE authorized
     /\ UNCHANGED <<options, attempt, seen, runVars, candidate, outcome>>

-----------------------------------------------------------------------------
(* _repair_deterministically: one accepted unit per step *)

UnitScope == IF options.policy THEN DeriveRepairScope(results) ELSE NoScope

UnitEditable == IF UnitScope = NoScope THEN {} ELSE UnitScope.editable

UnitCandidate ==
  DeterministicCandidate(candidate, Calculable(UnitEditable, options.policy))

UnitProposed ==
  /\ step <= (IF options.policy THEN StepLimit ELSE 1)
  /\ ~ AllPass(results)
  /\ options.policy => UnitScope # NoScope
  /\ UnitCandidate # NoCandidate

UnitAccepted ==
  LET verdicts == Gated(UnitCandidate)
  IN IF options.policy
     THEN /\ ChangeAllowed(candidate, UnitCandidate, UnitEditable, Immutable)
          /\ StrictImprovement(FailureAtoms(results), FailureAtoms(verdicts),
                               UnitScope.failed)
          /\ UnitCandidate \notin local
     ELSE AllPass(verdicts)

(* Faulty variant: the verdicts of the previous candidate are kept. *)
RepairUnitWithStaleVerdicts ==
  /\ pc = "repairing"
  /\ UnitProposed /\ UnitAccepted
  /\ candidate' = UnitCandidate
  /\ results' = results
  /\ step' = step + 1
  /\ local' = local \cup {UnitCandidate}
  /\ authorized' = authorized \cup UnitEditable
  /\ UNCHANGED <<options, pc, attempt, seen, runVars, outcome, origin>>

RepairUnit ==
  /\ pc = "repairing"
  /\ UnitProposed /\ UnitAccepted
  /\ candidate' = UnitCandidate
  /\ results' = Gated(UnitCandidate)
  /\ step' = step + 1
  /\ local' = local \cup {UnitCandidate}
  /\ authorized' = authorized \cup UnitEditable
  /\ UNCHANGED <<options, pc, attempt, seen, runVars, outcome, origin>>

-----------------------------------------------------------------------------
(* The sequence is over: its result becomes the best proposal *)

CompletePassingRun ==
  IF options.needsApproval /\ ~ options.approved
  THEN \/ Escalate("control_plane.identity_failed", candidate, results)
       \/ Escalate("approval.required", candidate, results)
  ELSE Finish("succeeded", "run.succeeded", candidate, results)

AfterFailure ==
  IF options.policy /\ DeriveRepairScope(results) = NoScope
  THEN Escalate("repair.unsignaled_failure", candidate, results)
  ELSE pc' = "retrying" /\ UNCHANGED outcome

(* Faulty variant: the run is complete once no visible failure is left. *)
SettleOnVisibleFailures ==
  /\ pc = "repairing"
  /\ ~ (UnitProposed /\ UnitAccepted)
  /\ best' = candidate /\ bestResults' = results
  /\ last' = candidate /\ lastResults' = results
  /\ IF FailureAtoms(results) = {}
     THEN CompletePassingRun /\ UNCHANGED scope
     ELSE /\ AfterFailure
          /\ scope' = IF options.policy THEN DeriveRepairScope(results) ELSE scope
  /\ UNCHANGED <<options, attempt, seen, workVars, observedVars>>

Settle ==
  /\ pc = "repairing"
  /\ ~ (UnitProposed /\ UnitAccepted)
  /\ best' = candidate /\ bestResults' = results
  /\ last' = candidate /\ lastResults' = results
  /\ IF AllPass(results)
     THEN CompletePassingRun /\ UNCHANGED scope
     ELSE /\ AfterFailure
          /\ scope' = IF options.policy THEN DeriveRepairScope(results) ELSE scope
  /\ UNCHANGED <<options, attempt, seen, workVars, observedVars>>

(* Faulty variant: one attempt too many. *)
AttemptPastBudget ==
  /\ pc = "retrying"
  /\ attempt <= MaxAttempts
  /\ attempt' = attempt + 1
  /\ pc' = "proposing"
  /\ UNCHANGED <<options, seen, runVars, workVars, outcome, observedVars>>

NextAttempt ==
  /\ pc = "retrying"
  /\ attempt < MaxAttempts
  /\ attempt' = attempt + 1
  /\ pc' = "proposing"
  /\ UNCHANGED <<options, seen, runVars, workVars, outcome, observedVars>>

(* Faulty variant: the budget is found exhausted only beyond the last attempt. *)
ExhaustBudgetTooLate ==
  /\ pc = "retrying"
  /\ attempt > MaxAttempts
  /\ Escalate("budget.exhausted", last, lastResults)
  /\ UNCHANGED <<options, attempt, seen, runVars, workVars, observedVars>>

ExhaustBudget ==
  /\ pc = "retrying"
  /\ attempt = MaxAttempts
  /\ IF options.policy
     THEN Escalate("budget.exhausted", best, bestResults)
     ELSE Escalate("budget.exhausted", last, lastResults)
  /\ UNCHANGED <<options, attempt, seen, runVars, workVars, observedVars>>

Next ==
  \/ RuntimeFails
  \/ RepairUnavailable
  \/ \E p \in Proposals : RepeatsProposal(p)
  \/ \E p \in Proposals : EditsOutOfScope(p)
  \/ \E p \in Proposals : ReturnsCandidate(p)
  \/ RejectCandidate
  \/ AdoptCandidate
  \/ RepairUnit
  \/ Settle
  \/ NextAttempt
  \/ ExhaustBudget

(* A runtime call returns, fails or times out; the rest is sequential code. *)
Spec     == Init /\ [][Next]_vars
FairSpec == Spec /\ WF_vars(Next)

-----------------------------------------------------------------------------
(* Properties *)

Verdicts == {VerdictTable[b][p] : b \in BOOLEAN, p \in Proposals}

(* Types: the controller holds only proposals and verdicts of this contract,
   and a terminal outcome exactly when it has stopped. *)
TypeOK ==
  /\ options \in Options
  /\ pc \in {"proposing", "verifying", "repairing", "retrying", "done"}
  /\ attempt \in 1 .. MaxAttempts
  /\ seen \subseteq Proposals
  /\ {best, last, candidate, origin} \subseteq Proposals \cup {NoProposal}
  /\ {bestResults, lastResults, results} \subseteq Verdicts \cup {<<>>}
  /\ step \in Nat /\ local \subseteq Proposals
  /\ pc = "done" <=> outcome # NoOutcome

(* The verdicts kept beside a proposal are the gates' verdicts on that very
   proposal, through every rejection, roll-back and deterministic step, and a
   rule-aware run returns them together (run, _repair_deterministically). *)
VerdictsBelongToProposal ==
  LET Paired(p, r) == IF p = NoProposal THEN r = <<>>
                      ELSE r = Gated(p)
  IN /\ Paired(best, bestResults)
     /\ Paired(last, lastResults)
     /\ pc = "repairing" => Paired(candidate, results)
     /\ pc = "done" /\ options.policy => Paired(outcome.proposal, outcome.results)

(* "Succeeded" is never reported for a proposal some gate, oracle included,
   fails when it is asked again, nor without a required human approval; the
   approval outcome too is reached only by a proposal every gate passes
   (_complete_passing_run). *)
SuccessIsVerified ==
  pc = "done" /\ outcome.reason \in {"run.succeeded", "approval.required"} =>
    /\ AllPass(Gated(outcome.proposal))
    /\ outcome.status = "succeeded" => ~ options.needsApproval \/ options.approved

(* Under a repair policy no immutable field of the first evaluated proposal
   ever differs in the proposal the run retains or returns, whatever the
   runtime answers and however many deterministic units were applied. *)
ImmutableFieldsPreserved ==
  options.policy /\ best # NoProposal =>
    \A p \in DOMAIN best : OverlapsAny(p, Immutable) => best[p] = origin[p]

(* preserve_unlisted: every node at which the retained proposal differs from
   the first evaluated one lies inside a scope the verifier authorized. *)
EditsWereAuthorized ==
  options.policy /\ best # NoProposal =>
    \A p \in DOMAIN best : best[p] # origin[p] => CoveredBy(p, authorized)

(* Every change of the retained proposal strictly shrinks the set of visible
   failures: a run can neither trade failures nor cycle
   (require_strict_improvement). *)
RetentionImproves ==
  [][options.policy /\ best # NoProposal /\ best' # best =>
       FailureAtoms(bestResults') \subseteq FailureAtoms(bestResults)
       /\ FailureAtoms(bestResults') # FailureAtoms(bestResults)]_vars

(* When the retained proposal changes, every rule of the unit the runtime was
   asked to repair holds afterwards: no later deterministic unit of the same
   attempt brings one of its failures back (run, _repair_deterministically). *)
RequestedUnitIsResolved ==
  [][options.policy /\ best # NoProposal /\ best' # best =>
       \A atom \in FailureAtoms(bestResults') : atom[2] \notin scope.failed]_vars

(* A run returns: within the attempt budget it reaches an outcome. *)
RunReturns == <>(pc = "done")
=============================================================================
