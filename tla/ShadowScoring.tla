---------------------------- MODULE ShadowScoring ----------------------------
(* learning/shadow.py: the score of a complete paired recording.  A trial is a
   baseline and a candidate outcome; of a response the model keeps whether it
   has the declared shape, equals the expected result, and proposes actions. *)
EXTENDS Integers, FiniteSets

CONSTANTS
  Cases,
  MinImprovements, MinCandidateCorrect   \* the criteria the plan leaves open

Arms == {"baseline", "candidate"}
Contents == {"right", "wrong", "acting", "malformed"}

(* create_plan, with the suite it is made for. *)
PlanAssumption ==
  /\ IsFiniteSet(Cases) /\ Cardinality(Cases) >= 2
  /\ MinImprovements \in 1 .. Cardinality(Cases)
  /\ MinCandidateCorrect \in 1 .. Cardinality(Cases)
ASSUME PlanAssumption

FailedOutcome == [status |-> "failed", content |-> "none"]

(* admit_shadow_response: only the shape is admitted or not. *)
Admit(content) ==
  IF content = "malformed" THEN FailedOutcome
  ELSE [status |-> "completed", content |-> content]

(* _score *)
ScoresCorrect(outcome) == outcome.content = "right"

Failures(trials, arm) == {c \in Cases : trials[c][arm].status = "failed"}
Correct(trials, arm) == {c \in Cases : ScoresCorrect(trials[c][arm])}
Acting(trials, arm) == {c \in Cases : trials[c][arm].content = "acting"}

(* evaluate_shadow: the checks, all of which the verdict needs. *)
MeetsCriteria(trials) ==
  LET better == Correct(trials, "candidate") \ Correct(trials, "baseline")
      worse == Correct(trials, "baseline") \ Correct(trials, "candidate")
  IN /\ Cardinality(better) >= MinImprovements
     /\ Cardinality(Correct(trials, "candidate")) >= MinCandidateCorrect
     /\ worse = {}
     /\ Failures(trials, "candidate") = {}
     /\ Acting(trials, "candidate") = {}

Verdict(trials) == IF MeetsCriteria(trials) THEN "positive" ELSE "negative"
=============================================================================
