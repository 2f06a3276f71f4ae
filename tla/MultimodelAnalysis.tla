------------------------- MODULE MultimodelAnalysis -------------------------
(* The aggregate of evaluation/multimodel.py: analyze_multimodel_results and
   assess_success, over the trials of one evaluation per model slot, in the
   order of the protocol.  Means are rounded where the code rounds them, and
   the sign test is on the rounded means. *)
EXTENDS TrialStatistics

CONSTANTS
  Slots,      \* the model slots of the protocol, in order
  Alpha,      \* the level of the primary test, <<numerator, denominator>>
  Criteria    \* minPositive, maxNegative, maxRegressions; maxCalls, maxRatio: fractions

(* _validate_analysis_plan and _validate_success_criteria *)
ASSUME CriteriaAssumption ==
  /\ Slots \in Seq(Range(Slots))
  /\ Alpha \in Nat \X Nat /\ 0 < Alpha[1] /\ Alpha[1] < Alpha[2]
  /\ Criteria.minPositive \in 1 .. Len(Slots)
  /\ Criteria.maxNegative \in 0 .. Len(Slots)
  /\ Criteria.maxRegressions \in Nat
  /\ \A f \in {Criteria.maxCalls, Criteria.maxRatio} :
       f \in Nat \X Nat /\ f[1] >= f[2] /\ f[2] > 0

SlotIndices == DOMAIN Slots

(* Every slot must hold the same cases; the domains are those of the suite. *)
SameCases(tables) ==
  \A i, j \in SlotIndices : Cases(tables[i]) = Cases(tables[j]) /\ Cases(tables[i]) # {}

(* mean_rates: of each case, across the models, rounded. *)
MeanRates(tables, c) ==
  [k \in Cases(tables[1]) |->
     MeanOf(SumFunction([i \in SlotIndices |-> CaseRates(tables[i], c)[k]]), Len(Slots))]

ModelStatistics(trials) ==
  [direct |-> MeanRate(CaseRates(trials, "direct")),
   dohaa  |-> MeanRate(CaseRates(trials, "dohaa")),
   pair   |-> Paired(CaseRates(trials, "dohaa"), CaseRates(trials, "direct"))]

DomainStatistics(tables, d) ==
  LET Rates(c) == Restrict(MeanRates(tables, c), {k \in Cases(tables[1]) : Domain[k] = d}) IN
  [means |-> [c \in Conditions |-> MeanRate(Rates(c))],
   pair  |-> Paired(Rates("dohaa"), Rates("direct"))]

(* analyze_multimodel_results *)
Aggregate(tables) ==
  [primary |-> Paired(MeanRates(tables, "dohaa"), MeanRates(tables, "direct")),
   means   |-> [c \in Conditions |-> MeanRate(MeanRates(tables, c))],
   models  |-> [i \in SlotIndices |-> ModelStatistics(tables[i])],
   domains |-> [d \in {Domain[k] : k \in Cases(tables[1])} |-> DomainStatistics(tables, d)]]

-----------------------------------------------------------------------------
(* assess_success *)

AllTrials(tables) == FlattenSeq([i \in SlotIndices |-> tables[i]])

(* _token_usage_diagnostics *)
TokenDiagnostics(tables) ==
  [complete |-> \A c \in {"direct", "dohaa"} : UsageComplete(UsageOf(AllTrials(tables), c)),
   by       |-> [c \in {"direct", "dohaa"} |-> UsageOf(AllTrials(tables), c)],
   models   |-> [i \in SlotIndices |-> [c \in {"direct", "dohaa"} |-> UsageOf(tables[i], c)]]]

Verdict(passed, evaluable) ==
  IF passed THEN "passed" ELSE IF evaluable THEN "failed" ELSE "unevaluable"

(* Ratios are rounded before they are compared. *)
AtMost(n, d, limit) == MeanOf(Million * n, d) * limit[2] <= limit[1] * Million

TokensComplete(usage) ==
  /\ usage.by["direct"].calls > 0 /\ usage.by["dohaa"].calls > 0
  /\ usage.complete
  /\ usage.by["direct"].tokens > 0

Regressions(tables) ==
  SumFunction([i \in SlotIndices |-> Summary(tables[i])["dohaa"].regressed])

Judged(tables) ==
  LET aggregate == Aggregate(tables)
      delta(i) == aggregate.models[i].pair.difference
      primary == aggregate.primary
      usage == TokenDiagnostics(tables)
      trials == AllTrials(tables)
      complete == TokensComplete(usage)
  IN [positive_models  |->
        Verdict(Quantify(SlotIndices, LAMBDA i : delta(i) > 0) >= Criteria.minPositive, TRUE),
      negative_models  |->
        Verdict(Quantify(SlotIndices, LAMBDA i : delta(i) < 0) <= Criteria.maxNegative, TRUE),
      global_delta     |-> Verdict(primary.difference > 0, TRUE),
      wins_over_losses |-> Verdict(primary.wins > primary.losses, TRUE),
      p_below_alpha    |->
        Verdict(primary.test # NoTest /\ primary.test.p * Alpha[2] < Alpha[1] * primary.test.of,
                primary.test # NoTest),
      regressions      |-> Verdict(Regressions(tables) <= Criteria.maxRegressions, TRUE),
      average_calls    |->
        Verdict(AtMost(CallsOf(trials, "dohaa"), Len(trials), Criteria.maxCalls), TRUE),
      token_ratio      |->
        Verdict(complete /\ AtMost(usage.by["dohaa"].tokens, usage.by["direct"].tokens,
                                   Criteria.maxRatio),
                complete)]

(* The criteria, and whether all of them passed. *)
AssessSuccess(tables) ==
  [criteria |-> Judged(tables), passed |-> Range(Judged(tables)) = {"passed"}]
=============================================================================
