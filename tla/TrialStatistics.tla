-------------------------- MODULE TrialStatistics --------------------------
(* evaluation/statistics.py and the summaries of evaluation/runner.py: what one
   evaluation says of its trials.  A trial is a case and, for each condition,
   [passed, completed, regressed, calls, records].

   Rates are in millionths, to which the code rounds means; the rate of a case,
   which it does not round, is exact in them for the repetitions allowed here.
   Wilson intervals and elapsed times are left out. *)
EXTENDS TokenUsage, SequencesExt, Combinatorics

CONSTANTS
  Suite,        \* the cases of the suite, in order
  Domain,       \* the domain of each
  Repetitions   \* trials of each case

Million == 1000000

ASSUME RepetitionsAssumption == Repetitions \in 1 .. 100 /\ Million % Repetitions = 0
ASSUME SuiteAssumption == Suite # <<>> /\ Suite \in Seq(DOMAIN Domain)

(* The function f with x mapped to v. *)
Including(f, x, v) == [y \in DOMAIN f \cup {x} |-> IF y = x THEN v ELSE f[y]]

Conditions == {"direct", "self_reflection", "dohaa"}
Comparisons ==
  {<<"dohaa", "direct">>, <<"dohaa", "self_reflection">>, <<"self_reflection", "direct">>}

(* A mean, rounded to a millionth: a tie goes away from zero. *)
MeanOf(total, n) ==
  LET magnitude == (2 * (IF total < 0 THEN -total ELSE total) + n) \div (2 * n)
  IN IF total < 0 THEN -magnitude ELSE magnitude

MeanRate(rates) == MeanOf(SumFunction(rates), Cardinality(DOMAIN rates))

Cases(trials) == {trials[i].case : i \in DOMAIN trials}
OfCase(trials, k) == {i \in DOMAIN trials : trials[i].case = k}

(* The rate of a case; a runtime failure is a trial that did not pass. *)
Passes(trials, c, k) == Cardinality({i \in OfCase(trials, k) : trials[i].on[c].passed})

CaseRates(trials, c) ==
  [k \in Cases(trials) |-> Passes(trials, c, k) * (Million \div Repetitions)]

(* exact_two_sided_sign_test_p, as a fraction; of no discordant case there is
   none. *)
NoTest == [p |-> 0, of |-> 0]

SignTest(wins, losses) ==
  LET n == wins + losses
      tail == SumFunction([i \in 0 .. Min({wins, losses}) |-> choose(n, i)])
  IN IF n = 0 THEN NoTest ELSE [p |-> Min({2 ^ n, 2 * tail}), of |-> 2 ^ n]

(* _paired_statistics *)
Paired(left, right) ==
  LET wins == Cardinality({k \in DOMAIN left : left[k] > right[k]})
      losses == Cardinality({k \in DOMAIN left : left[k] < right[k]})
  IN [wins       |-> wins,
      losses     |-> losses,
      ties       |-> Cardinality(DOMAIN left) - wins - losses,
      difference |-> MeanRate([k \in DOMAIN left |-> left[k] - right[k]]),
      test       |-> SignTest(wins, losses)]

(* _condition_statistics *)
ConditionStatistics(rates) ==
  LET strict == Cardinality({k \in DOMAIN rates : rates[k] = Million}) IN
  [strict |-> strict,
   rate   |-> MeanOf(Million * strict, Cardinality(DOMAIN rates)),
   mean   |-> MeanRate(rates)]

(* _analyze_group *)
GroupStatistics(trials) ==
  [conditions |-> [c \in Conditions |-> ConditionStatistics(CaseRates(trials, c))],
   paired     |-> [pair \in Comparisons |->
                     Paired(CaseRates(trials, pair[1]), CaseRates(trials, pair[2]))]]

InDomain(trials, d) == SelectSeq(trials, LAMBDA t : Domain[t.case] = d)

(* analyze_unique_cases *)
UniqueCaseStatistics(trials) ==
  [all |-> GroupStatistics(trials),
   by  |-> [d \in {Domain[k] : k \in Cases(trials)} |-> GroupStatistics(InDomain(trials, d))]]

-----------------------------------------------------------------------------
(* runner.py *)

CallsOf(trials, c) == SumFunction([i \in DOMAIN trials |-> trials[i].on[c].calls])
RecordsOf(trials, c) == FlattenSeq([i \in DOMAIN trials |-> trials[i].on[c].records])
UsageOf(trials, c) == UsageSummary(RecordsOf(trials, c), CallsOf(trials, c))

(* _summarize *)
Summary(trials) ==
  [c \in Conditions |->
     [completed |-> Cardinality({i \in DOMAIN trials : trials[i].on[c].completed}),
      failures  |-> Cardinality({i \in DOMAIN trials : ~trials[i].on[c].completed}),
      passes    |-> Cardinality({i \in DOMAIN trials : trials[i].on[c].passed}),
      regressed |-> Cardinality({i \in DOMAIN trials :
                                   trials[i].on[c].completed /\ trials[i].on[c].regressed}),
      usage     |-> UsageOf(trials, c)]]

(* _paired_comparison: by trial, not by case. *)
TrialComparison(trials, left, right) ==
  LET Beats(a, b) == {i \in DOMAIN trials : trials[i].on[a].passed /\ ~trials[i].on[b].passed}
      wins == Cardinality(Beats(left, right))
      losses == Cardinality(Beats(right, left))
  IN [wins |-> wins, losses |-> losses, ties |-> Len(trials) - wins - losses]

(* What run_comparative_evaluation returns of its trials. *)
EvaluationResult(trials) ==
  [cases      |-> trials,
   summary    |-> Summary(trials),
   statistics |-> UniqueCaseStatistics(trials),
   paired     |-> [pair \in Comparisons |-> TrialComparison(trials, pair[1], pair[2])]]
=============================================================================
