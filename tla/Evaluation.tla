----------------------------- MODULE Evaluation -----------------------------
(* The evaluation of the controller.  One process runs the trials of a model in
   detail (ComparativeEvaluation); operators freeze documents, run the slots of
   a protocol and aggregate them (ModelSlots); and one process runs all the
   slots, over every table of trials (MultimodelAnalysis).

   The three share no state: what a slot observed is a table of trials, and
   TrialsArePossible says which tables there are.  A behaviour is of one stage. *)
EXTENDS ComparativeEvaluation, ModelSlots

VARIABLE stage

vars == <<stage, evaluationVars, slotVars>>

(* All the slots are run under documents that were frozen in order. *)
FrozenDocuments ==
  <<[kind |-> "manifest", models |-> CHOOSE draft \in Drafts : VerifiedManifest(draft)],
    [kind |-> "commitment", suite |-> suite]>>

Init ==
  /\ stage \in {"trials", "slots", "whole"}
  /\ EvaluationInit
  /\ SlotsInit
  /\ documents = IF stage = "whole" THEN FrozenDocuments ELSE <<>>

Next ==
  \/ stage = "trials" /\ EvaluationStep /\ UNCHANGED <<stage, slotVars>>
  \/ stage = "slots" /\ SlotsStep /\ UNCHANGED <<stage, evaluationVars>>
  \/ stage = "whole" /\ WholeStep /\ UNCHANGED <<stage, evaluationVars>>

Spec == Init /\ [][Next]_vars

-----------------------------------------------------------------------------
(* The trials that an evaluation may report: a direct answer is one call, the
   controller makes at most two and never regresses; of a condition whose
   runtime failed nothing passed, and a usage that is reported is not nothing. *)
Possible(row) ==
  /\ row.passed \in BOOLEAN /\ row.completed \in BOOLEAN /\ row.regressed \in BOOLEAN
  /\ row.records \in Seq([status : Statuses, tokens : Nat])
  /\ \A record \in Range(row.records) : record.status = "reported" => record.tokens > 0
  /\ row.passed => row.completed /\ ~row.regressed
  /\ row.calls \in 0 .. 2 /\ Len(row.records) <= row.calls
  /\ row.completed => row.calls > 0

PossibleTrial(t) ==
  /\ \A c \in Conditions : Possible(t.on[c])
  /\ t.on["direct"].calls <= 1 /\ ~t.on["direct"].regressed /\ ~t.on["dohaa"].regressed
  /\ t.on["self_reflection"].completed => t.on["self_reflection"].calls = 2

ASSUME TrialsArePossible ==
  \A table \in Tables \cup WholeTables :
    /\ table = [i \in 1 .. Len(Suite) * Repetitions |-> table[i]]
    /\ \A i \in DOMAIN table : /\ table[i].case = Suite[(i - 1) \div Repetitions + 1]
                               /\ PossibleTrial(table[i])

(* The controller's own verdict is the verdict of the score, which judges its
   last proposal again: it reports success exactly of a proposal that passes,
   and a first proposal that passes is the result, at one call, so that none is
   lost to a later answer or a later failure (runner.py:328, engine.py:439).
   What the trial leaves for the analysis is a possible trial. *)
ControllerAndScoreAgree ==
  /\ "dohaa" \in DOMAIN outcomes =>
       LET o == outcomes["dohaa"] IN
       /\ o.completed => (o.reason = "succeeded" <=> o.passed)
       /\ o.first => o.passed /\ o.calls = 1
  /\ \A i \in DOMAIN rows : PossibleTrial(rows[i])

ReportsWritten == {reports.seen[name].bytes[1] : name \in Present(reports)}

OfItsCampaign(report) ==
  /\ report.manifest < report.commitment
  /\ documents[report.commitment].suite = report.suite
  /\ \A i \in SlotIndices :
       LET source == report.sources[i] IN
       /\ [slot |-> source.slot, artifact |-> source.artifact] =
            documents[report.manifest].models[i]
       /\ source.slot = Slots[i]
       /\ report.mode = "slots" =>
            /\ source = measured[source.run]
            /\ \A field \in {"manifest", "commitment", "suite", "commit"} :
                 source[field] = report[field]

(* A report is of the campaign it names: each slot of the protocol once, in its
   order, with the artifact of one manifest, frozen before a commitment to the
   suite that was evaluated; and what it says of a slot is what one run of that
   slot observed, under those documents and that commit of the code, whatever
   else was frozen, run, stopped, mixed up or edited (multimodel.py:162). *)
ReportIsTheCampaign == \A report \in ReportsWritten : OfItsCampaign(report)

-----------------------------------------------------------------------------
(* The verdict, from exact counts over the trials of all models. *)
PassesIn(trials, c) == Quantify(DOMAIN trials, LAMBDA j : trials[j].on[c].passed)

Total(tables, c) == SumFunction([i \in SlotIndices |-> PassesIn(tables[i], c)])

Better(tables, a, b) ==
  LET Score(c, k) == SumFunction([i \in SlotIndices |-> Passes(tables[i], c, k)]) IN
  {k \in Cases(tables[1]) : Score(a, k) > Score(b, k)}

EveryCallIsReported(tables) ==
  \A t \in Range(AllTrials(tables)), c \in {"direct", "dohaa"} :
    /\ Len(t.on[c].records) = t.on[c].calls
    /\ \A record \in Range(t.on[c].records) : record.status = "reported"

TokensOf(tables, c) ==
  LET records == RecordsOf(AllTrials(tables), c)
  IN SumFunction([n \in DOMAIN records |-> records[n].tokens])

(* All criteria but the first, that of the global rate. *)
OtherCriteriaHold(tables) ==
  LET wins == Cardinality(Better(tables, "dohaa", "direct"))
      losses == Cardinality(Better(tables, "direct", "dohaa"))
      ahead == {i \in SlotIndices : PassesIn(tables[i], "dohaa") > PassesIn(tables[i], "direct")}
      behind == {i \in SlotIndices : PassesIn(tables[i], "dohaa") < PassesIn(tables[i], "direct")}
      trials == AllTrials(tables)
  IN /\ Cardinality(ahead) >= Criteria.minPositive
     /\ Cardinality(behind) <= Criteria.maxNegative
     /\ wins > losses
     /\ 2 * SumFunction([n \in 0 .. losses |-> choose(wins + losses, n)]) * Alpha[2]
          < Alpha[1] * 2 ^ (wins + losses)
     /\ CallsOf(trials, "dohaa") * Criteria.maxCalls[2] <= Criteria.maxCalls[1] * Len(trials)
     /\ EveryCallIsReported(tables)
     /\ TokensOf(tables, "dohaa") * Criteria.maxRatio[2]
          <= Criteria.maxRatio[1] * TokensOf(tables, "direct")

(* The magnitudes at which rounding to a millionth decides no criterion but a
   tie of the global rates.  A protected suite has at most 50 cases and a
   protocol at most 100 repetitions (commitment.py:255, runner.py:123); nothing
   bounds the slots, the decimals of a limit, or the tokens. *)
ProtocolMagnitudes ==
  /\ 3 * Len(Slots) * (Len(Suite) * Repetitions) <= 2 * Million
  /\ \A limit \in {Criteria.maxCalls, Criteria.maxRatio} : (Million * limit[1]) % limit[2] = 0
  /\ (Len(Slots) * (Len(Suite) * Repetitions)) * Criteria.maxCalls[2] <= 2 * Million
  /\ \A tables \in [SlotIndices -> Tables] \cup [SlotIndices -> WholeTables] :
       TokensOf(tables, "direct") * Criteria.maxRatio[2] <= 2 * Million

TablesOf(report) == [i \in SlotIndices |-> report.sources[i].evaluation]

(* An assessment passes if and only if the trials earn it: the rates of cases,
   rounded means, merged usage and summaries on the way neither lose a failure
   nor an unobserved call, nor move a comparison; where the two global rates are
   equal the rounding may decide (multimodel.py:297, multimodel.py:414). *)
VerdictsAreEarned ==
  \A report \in ReportsWritten :
    LET tables == TablesOf(report)
        lead == Total(tables, "dohaa") - Total(tables, "direct")
    IN /\ report.assessment.passed => OtherCriteriaHold(tables) /\ lead >= 0
       /\ OtherCriteriaHold(tables) /\ lead > 0 => report.assessment.passed

(* The first success criterion of the protocol, "the global DOHAA final-pass
   rate is higher than direct" (docs/evaluation-protocols/
   multimodel-generalization-v1.md:102): what assess_success reports as passed
   is a higher rate (multimodel.py:464). *)
PositiveDeltaIsHigherRate ==
  \A report \in ReportsWritten :
    report.assessment.criteria.global_delta = "passed" =>
      Total(TablesOf(report), "dohaa") > Total(TablesOf(report), "direct")
=============================================================================
