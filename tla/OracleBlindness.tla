-------------------------- MODULE OracleBlindness --------------------------
(***************************************************************************)
(* Two rule-aware runs of the controller side by side: the same contract,  *)
(* the same answers of the runtime, but oracle-only gates that expect      *)
(* different results.  Whatever the oracles say may show only in the       *)
(* terminal outcome; what the runtime can observe must be the same.        *)
(***************************************************************************)
EXTENDS Integers

CONSTANTS
  Proposals, Assertions, Suite, PlainGates, Oracles,
  MaxAttempts, StepLimit, Immutable,
  Accepts,       \* the gates of the first run
  OtherAccepts   \* those of the second: they differ on Oracles only

ASSUME OraclesDiffer ==
  /\ \A g \in PlainGates \ Oracles : Accepts[g] = OtherAccepts[g]
  /\ Accepts # OtherAccepts

VARIABLES
  options, pc, attempt, seen, best, bestResults, last, lastResults, scope,
  candidate, results, step, local, outcome, origin, authorized

VARIABLES
  pc2, attempt2, seen2, best2, bestResults2, last2, lastResults2, scope2,
  candidate2, results2, step2, local2, outcome2, origin2, authorized2

vars ==
  <<options, pc, attempt, seen, best, bestResults, last, lastResults, scope,
    candidate, results, step, local, outcome, origin, authorized,
    pc2, attempt2, seen2, best2, bestResults2, last2, lastResults2, scope2,
    candidate2, results2, step2, local2, outcome2, origin2, authorized2>>

One == INSTANCE DohaaController

Two == INSTANCE DohaaController WITH
  Accepts <- OtherAccepts,
  pc <- pc2, attempt <- attempt2, seen <- seen2, best <- best2,
  bestResults <- bestResults2, last <- last2, lastResults <- lastResults2,
  scope <- scope2, candidate <- candidate2, results <- results2,
  step <- step2, local <- local2, outcome <- outcome2, origin <- origin2,
  authorized <- authorized2

(* What either run assumes of the contract and the suite. *)
ASSUME SharedContract ==
  /\ One!ContractAssumption
  /\ One!SuiteAssumption
  /\ One!ProposalsAssumption

Init == One!Init /\ Two!Init /\ options.policy

(* The environment's moves are shared, answer by answer. *)
BothFail        == One!RuntimeFails /\ Two!RuntimeFails
BothUnavailable == One!RepairUnavailable /\ Two!RepairUnavailable

OneAnswer(p) ==
  One!RepeatsProposal(p) \/ One!EditsOutOfScope(p) \/ One!ReturnsCandidate(p)
TwoAnswer(p) ==
  Two!RepeatsProposal(p) \/ Two!EditsOutOfScope(p) \/ Two!ReturnsCandidate(p)
SameAnswer == \E p \in Proposals : OneAnswer(p) /\ TwoAnswer(p)

OneProceeds ==
  \/ One!RejectCandidate \/ One!AdoptCandidate \/ One!RepairUnit
  \/ One!Settle \/ One!NextAttempt \/ One!ExhaustBudget
TwoProceeds ==
  \/ Two!RejectCandidate \/ Two!AdoptCandidate \/ Two!RepairUnit
  \/ Two!Settle \/ Two!NextAttempt \/ Two!ExhaustBudget
BothProceed == OneProceeds /\ TwoProceeds

BothReturned == pc = "done" /\ pc2 = "done" /\ UNCHANGED vars

Next == BothFail \/ BothUnavailable \/ SameAnswer \/ BothProceed \/ BothReturned

Spec == Init /\ [][Next]_vars

(* Oracle-only verdicts never influence what is retained, requested or
   retried: the two runs hold the same proposals at the same place, and while
   they run the same scope (docs/learning-loop.md, derive_repair_scope,
   compare_failure_sets, _repair_deterministically).  Only the outcome may
   differ. *)
OracleOnlyVerdictsNeverSteer ==
  /\ <<pc, attempt, seen, step, local>> = <<pc2, attempt2, seen2, step2, local2>>
  /\ <<best, last, candidate>> = <<best2, last2, candidate2>>
  /\ pc # "done" => scope = scope2
=============================================================================
