----------------------- MODULE ComparativeEvaluation -----------------------
(* evaluation/runner.py: every case of a suite, in each repetition, is put to
   the same model directly, with one self-reflection, and under the controller,
   in an order drawn for the trial; each condition has a runtime of its own.

   A proposal is what the gates of its case see of it: the visible rules it
   fails, whether it equals the oracle, and its distance from it.  The
   controller is the one of DohaaController, of two attempts and without
   approval, as every evaluation case prescribes. *)
EXTENDS TrialStatistics

CONSTANTS
  Proposals,    \* [fails, matches, distance]
  Advertised,   \* the visible rules whose gate advertises a repair scope
  Replies,      \* what the server may make of a request
  MaxTrials,    \* bound: trials followed in detail
  MaxFaults     \* bound: replies and runtimes that are not as they should be

ASSUME RepliesAssumption ==
  \A reply \in Replies :
    /\ reply.transport \in HandledFailures \cup {"json_invalid", "answered", "disconnected"}
    /\ \A f \in DOMAIN reply.usage.counts : reply.usage.counts[f] \in Int

VARIABLES
  trial,      \* the trial under way
  pending,    \* its conditions that have not been run
  outcomes,   \* those that have, with their outcome
  arm,        \* the condition under way and its runtime
  rows,       \* the finished trials, as the analysis reads them
  faults      \* bound: how many faults there were

evaluationVars == <<trial, pending, outcomes, arm, rows, faults>>

NoProposal == [fails |-> {}, matches |-> FALSE, distance |-> 0]
NoArm == [condition |-> "none", calls |-> 0, records |-> <<>>, proposals |-> <<>>,
          best |-> NoProposal, scoped |-> FALSE, repairs |-> FALSE]

(* _score: the verdict of every gate of the case, the oracle's among them. *)
AllGatesPass(p) == p.fails = {} /\ p.matches
VisibleGatesPass(p) == p.fails = {}

EvaluationInit ==
  /\ trial = 1
  /\ pending = Conditions
  /\ outcomes = <<>>
  /\ arm = NoArm
  /\ rows = <<>>
  /\ faults = 0

-----------------------------------------------------------------------------
(* Outcomes *)

(* _repair_transition *)
RepairTransition(initial, final) ==
  LET before == AllGatesPass(initial)
      after == AllGatesPass(final)
  IN CASE before /\ after -> "passed_unchanged"
       [] ~before /\ after -> "repaired"
       [] before /\ ~after -> "regressed"
       [] ~before /\ ~after /\ final.distance < initial.distance -> "partial_improvement"
       [] ~before /\ ~after /\ final.distance > initial.distance -> "worsened_failure"
       [] OTHER -> "unchanged_failure"

(* _completed_outcome: its final proposal is scored again, by fresh gates. *)
CompletedOutcome(a, final, reason) ==
  [completed |-> TRUE, calls |-> a.calls, records |-> a.records,
   first |-> AllGatesPass(a.proposals[1]), passed |-> AllGatesPass(final),
   transition |-> RepairTransition(a.proposals[1], final), reason |-> reason]

(* _runtime_failure_details: what was proposed before is not the result. *)
FailedOutcome(a, reason) ==
  [completed |-> FALSE, calls |-> a.calls, records |-> a.records,
   first |-> a.proposals # <<>> /\ AllGatesPass(a.proposals[1]), passed |-> FALSE,
   transition |-> "runtime_failed", reason |-> reason]

(* The runtime as _ObservedRuntime sees it after one more call. *)
Called(reply, proposal) ==
  [arm EXCEPT !.calls = @ + 1, !.records = @ \o Observed(reply),
     !.proposals = IF Returned(reply) THEN Append(@, proposal) ELSE @]

Finish(outcome) ==
  /\ outcomes' = Including(outcomes, arm.condition, outcome)
  /\ arm' = NoArm
  /\ UNCHANGED <<trial, pending, rows>>

Continue(a) == arm' = a /\ UNCHANGED <<trial, pending, outcomes, rows>>

-----------------------------------------------------------------------------
(* Conditions.  The order of a trial's conditions is shuffled: any of those
   pending may be next. *)

(* A runtime may lack scoped repair, and its factory may fail. *)
BeginCondition(c) ==
  /\ arm = NoArm /\ c \in pending
  /\ pending' = pending \ {c}
  /\ \E scoped, repairs \in IF c = "dohaa" THEN BOOLEAN ELSE {FALSE} :
       arm' = [NoArm EXCEPT !.condition = c, !.scoped = scoped, !.repairs = repairs]
  /\ UNCHANGED <<trial, outcomes, rows, faults>>

FactoryFails(c) ==
  /\ arm = NoArm /\ c \in pending
  /\ faults < MaxFaults
  /\ faults' = faults + 1
  /\ pending' = pending \ {c}
  /\ outcomes' = Including(outcomes, c, FailedOutcome(NoArm, "none"))
  /\ UNCHANGED <<trial, arm, rows>>

(* _run_direct *)
CallDirect(reply, proposal) ==
  LET a == Called(reply, proposal) IN
  /\ arm.condition = "direct"
  /\ Finish(IF Returned(reply) THEN CompletedOutcome(a, proposal, "none")
            ELSE FailedOutcome(a, "none"))

(* _run_reflection: the answer to the review is the result, better or worse. *)
CallReflection(reply, proposal) ==
  LET a == Called(reply, proposal) IN
  /\ arm.condition = "self_reflection"
  /\ CASE ~Returned(reply) -> Finish(FailedOutcome(a, "none"))
       [] Returned(reply) /\ arm.calls = 0 -> Continue(a)
       [] Returned(reply) /\ arm.calls = 1 -> Finish(CompletedOutcome(a, proposal, "none"))

-----------------------------------------------------------------------------
(* _run_dohaa *)

(* Faulty variant: the controller is given the visible gates only. *)
VisibleGatesOnly(p) == VisibleGatesPass(p)

(* The gates of the controller are those of the score. *)
ControllerPasses(p) == AllGatesPass(p)

(* derive_repair_scope: every failing visible rule must advertise a scope, and
   an oracle names none. *)
HasScope(p) == p.fails # {} /\ p.fails \subseteq Advertised

(* _repair_deterministically: without a policy a candidate is adopted if it
   passes every gate, with one if it fails strictly fewer visible rules. *)
Repaired(scoped, p) ==
  {p} \cup {q \in Proposals :
              IF scoped THEN HasScope(p) /\ q.fails \subseteq p.fails /\ q.fails # p.fails
              ELSE p.fails # {} /\ ControllerPasses(q)}

(* The candidates compare_failure_sets accepts for the unit it was asked to
   resolve; assess_candidate_changes may still refuse one. *)
Accepted(p, base) == p.fails \subseteq base.fails /\ p.fails # base.fails

(* What ends a run: success, the budget, or a failure nobody may repair. *)
Settled(a, p) == ControllerPasses(p) \/ a.calls = 2 \/ (a.scoped /\ ~HasScope(p))

Reason(a, p) ==
  CASE ControllerPasses(p) -> "succeeded"
    [] ~ControllerPasses(p) /\ a.scoped /\ ~HasScope(p) -> "unsignaled_failure"
    [] OTHER -> "attempt_budget_exhausted"

Verified(a, p) ==
  IF Settled(a, p) THEN Finish(CompletedOutcome(a, p, Reason(a, p)))
  ELSE Continue([a EXCEPT !.best = p])

FirstAttempt(reply, proposal) ==
  LET a == Called(reply, proposal) IN
  /\ arm.condition = "dohaa" /\ arm.calls = 0
  /\ IF Returned(reply) THEN \E p \in Repaired(arm.scoped, proposal) : Verified(a, p)
     ELSE Finish(FailedOutcome(a, "runtime.failed"))

(* The second attempt: a repair within the scope, or another proposal.  One that
   was already received ends the run; a rejected repair keeps the best.  Two
   proposals may differ in what the gates do not see. *)
SecondAttempt(reply, proposal) ==
  LET a == Called(reply, proposal)
      repeated == proposal = arm.proposals[1]
      Kept(reason) ==
        Finish(CompletedOutcome(a, IF arm.scoped THEN arm.best ELSE proposal, reason))
  IN /\ arm.condition = "dohaa" /\ arm.calls = 1
     /\ arm.scoped => arm.repairs
     /\ \/ ~Returned(reply) /\ Finish(FailedOutcome(a, "runtime.failed"))
        \/ Returned(reply) /\ repeated /\ Kept("no_progress")
        \/ Returned(reply) /\ arm.scoped /\ Kept("attempt_budget_exhausted")
        \/ /\ Returned(reply)
           /\ arm.scoped => Accepted(proposal, arm.best)
           /\ \E p \in Repaired(arm.scoped, proposal) : Verified(a, p)

(* _ObservedRuntime.repair refuses before it counts a call. *)
RepairUnavailable ==
  /\ arm.condition = "dohaa" /\ arm.calls = 1
  /\ arm.scoped /\ ~arm.repairs
  /\ Finish(FailedOutcome(arm, "repair.runtime_unavailable"))
  /\ UNCHANGED faults

Answer(reply) ==
  /\ arm # NoArm
  /\ faults + (IF reply.fault THEN 1 ELSE 0) <= MaxFaults
  /\ faults' = faults + IF reply.fault THEN 1 ELSE 0
  /\ LET p == reply.content.proposal IN
     CallDirect(reply, p) \/ CallReflection(reply, p) \/ FirstAttempt(reply, p)
       \/ SecondAttempt(reply, p)

-----------------------------------------------------------------------------
(* What the analysis reads of a trial. *)
Row(o) == [passed |-> o.passed, completed |-> o.completed,
           regressed |-> o.transition = "regressed", calls |-> o.calls, records |-> o.records]

FinishTrial ==
  /\ pending = {} /\ arm = NoArm /\ outcomes # <<>>
  /\ rows' = Append(rows, [case |-> Suite[(trial - 1) \div Repetitions + 1],
                           on |-> [c \in Conditions |-> Row(outcomes[c])]])
  /\ trial' = trial + 1
  /\ pending' = IF trial < Min({MaxTrials, Len(Suite) * Repetitions}) THEN Conditions ELSE {}
  /\ outcomes' = <<>>
  /\ UNCHANGED <<arm, faults>>

EvaluationStep ==
  \/ \E c \in Conditions : BeginCondition(c) \/ FactoryFails(c)
  \/ \E reply \in Replies : Answer(reply)
  \/ RepairUnavailable
  \/ FinishTrial
=============================================================================
