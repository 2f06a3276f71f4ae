----------------------------- MODULE ModelSlots -----------------------------
(* A preregistered evaluation of several models: evaluation/protocol.py,
   model_manifest.py, commitment.py, the slot runs and the aggregation of
   evaluation/multimodel.py, and the commands of cli.py that drive them.

   Operators freeze manifests of the models and commitments to the suite, run
   one evaluation per slot, each leaving a checkpoint, and aggregate a list of
   checkpoints they choose; or run all the slots in one process.  The protocol
   does not change.  A digest is kept as what it is a digest of; a document is
   known by its place among the documents, which is also when it was frozen. *)
EXTENDS MultimodelAnalysis, Publication

CONSTANTS
  Artifacts,     \* identities of model artifacts
  Suites,        \* what the suite file may hold
  Counts,        \* the number of cases of each domain, of each of Suites
  Planned,       \* the same as the protocol plans it
  MinCases, MaxCases, MinDomains, MinPerDomain,   \* of a protected suite
  Commits,       \* commits of the code that runs
  Runs,          \* processes that evaluate a slot; bound: each once
  Outputs,       \* names of checkpoint files
  Reports,       \* names of report files
  Tables,        \* what the evaluation of one slot may observe
  WholeTables,   \* the same for a process that runs all of them
  MaxDocuments,  \* bound: documents frozen
  MaxEdits       \* bound: checkpoint files edited by hand

CountAll(counts) == SumFunction(counts)

(* _validate_suite_policy, _validate_pilot_shape *)
PilotShape(counts) ==
  /\ CountAll(counts) \in MinCases .. MaxCases
  /\ Cardinality(DOMAIN counts) >= MinDomains
  /\ \A d \in DOMAIN counts : counts[d] >= MinPerDomain

(* EvaluationProtocol.from_dict, as far as what follows depends on it. *)
ASSUME ProtocolAssumption ==
  /\ IsInjective(Slots)
  /\ PilotShape(Planned)
  /\ MinPerDomain > 0

VARIABLES
  documents,   \* frozen manifests and commitments, in the order of freezing
  suite,       \* what the suite file holds
  runs,        \* of each process
  files,       \* the directory of the checkpoints
  reports,     \* and of the reports
  measured,    \* history: what each run that ended had observed
  edits        \* bound: edits made by hand

slotVars == <<documents, suite, runs, files, reports, measured, edits>>

NoRun == [at |-> "idle", output |-> "none", body |-> <<>>]

(* Nothing was run; the suite is one the protocol plans. *)
SlotsInit ==
  /\ suite = CHOOSE s \in Suites : Counts[s] = Planned
  /\ runs = [r \in Runs |-> NoRun]
  /\ files = EmptyDirectory(Outputs)
  /\ reports = EmptyDirectory(Reports)
  /\ measured = <<>>
  /\ edits = 0

-----------------------------------------------------------------------------
(* Documents *)

(* ModelManifest.verify: one artifact per slot of the protocol, in its order,
   and no artifact twice. *)
VerifiedManifest(models) ==
  /\ [i \in DOMAIN models |-> models[i].slot] = Slots
  /\ IsInjective([i \in DOMAIN models |-> models[i].artifact])

Drafts == [SlotIndices -> [slot : Range(Slots), artifact : Artifacts]]

(* Some suite is the one the protocol plans, and there are artifacts enough. *)
ASSUME RegistrationAssumption ==
  /\ \E s \in Suites : Counts[s] = Planned
  /\ \E draft \in Drafts : VerifiedManifest(draft)

(* freeze-model-manifest *)
FreezeManifest(draft) ==
  /\ Len(documents) < MaxDocuments
  /\ VerifiedManifest(draft)
  /\ documents' = Append(documents, [kind |-> "manifest", models |-> draft])
  /\ UNCHANGED <<suite, runs, files, reports, measured, edits>>

(* freeze-suite *)
FreezeSuite ==
  /\ Len(documents) < MaxDocuments
  /\ PilotShape(Counts[suite])
  /\ documents' = Append(documents, [kind |-> "commitment", suite |-> suite])
  /\ UNCHANGED <<suite, runs, files, reports, measured, edits>>

(* The suite is edited. *)
AuthorSuite(s) ==
  /\ s # suite
  /\ suite' = s
  /\ UNCHANGED <<documents, runs, files, reports, measured, edits>>

Manifests == {i \in DOMAIN documents : documents[i].kind = "manifest"}
Commitments == {i \in DOMAIN documents : documents[i].kind = "commitment"}

(* Faulty variant: the documents are checked, but not which came first. *)
ValidInAnyOrder(m, c) ==
  /\ documents[c].suite = suite
  /\ Counts[suite] = Planned

(* validate_multimodel_inputs; what verify checks of a manifest held when it
   was frozen. *)
ValidInputs(m, c) ==
  /\ documents[c].suite = suite
  /\ Counts[suite] = Planned
  /\ c > m

-----------------------------------------------------------------------------
(* evaluate-model-slot *)

(* What the operator names is read and checked once, before the first call. *)
BeginSlotRun(r, output, m, c, i, commit) ==
  /\ runs[r] = NoRun
  /\ output \notin Present(files)
  /\ ValidInputs(m, c)
  /\ runs' = [runs EXCEPT ![r] =
       [at |-> "evaluating", output |-> output,
        body |-> [run |-> r, manifest |-> m, commitment |-> c, suite |-> suite,
                  commit |-> commit, slot |-> Slots[i],
                  artifact |-> documents[m].models[i].artifact]]]
  /\ UNCHANGED <<documents, suite, files, reports, measured, edits>>

(* _checkpoint_identity: a digest of all the rest. *)
Checkpoint(body) == [body |-> body, id |-> body]

(* The evaluation returns; the checkpoint is built and written to a temporary
   file. *)
EvaluateSlot(r, trials) ==
  /\ runs[r].at = "evaluating"
  /\ LET body == Including(runs[r].body, "evaluation", trials) IN
     /\ runs' = [runs EXCEPT ![r].at = "written", ![r].body = body]
     /\ measured' = Including(measured, r, body)
  /\ UNCHANGED <<documents, suite, files, reports, edits>>

(* write_evaluation_result: the name may have been taken meanwhile. *)
PublishCheckpoint(r) ==
  /\ runs[r].at = "written"
  /\ IF Linkable(files, runs[r].output)
     THEN files' = Link(files, runs[r].output, Written(<<Checkpoint(runs[r].body)>>))
     ELSE UNCHANGED files
  /\ runs' = [runs EXCEPT ![r] = [NoRun EXCEPT !.at = "ended"]]
  /\ UNCHANGED <<documents, suite, reports, measured, edits>>

StopSlotRun(r) ==
  /\ runs[r].at \in {"evaluating", "written"}
  /\ runs' = [runs EXCEPT ![r] = [NoRun EXCEPT !.at = "ended"]]
  /\ UNCHANGED <<documents, suite, files, reports, measured, edits>>

(* Someone edits the evaluation in a checkpoint. *)
EditCheckpoint(output, trials) ==
  /\ edits < MaxEdits
  /\ output \in Present(files)
  /\ LET checkpoint == files.seen[output].bytes[1] IN
     /\ trials # checkpoint.body.evaluation
     /\ files' = [files EXCEPT !.seen[output].bytes =
                    <<[checkpoint EXCEPT !.body.evaluation = trials]>>]
  /\ edits' = edits + 1
  /\ UNCHANGED <<documents, suite, runs, reports, measured>>

-----------------------------------------------------------------------------
(* Reports *)

(* Faulty variant: the digest of a checkpoint is not computed again. *)
MatchesItsLabels(checkpoint, m, c, i, commit) ==
  /\ checkpoint.body.commit = commit
  /\ checkpoint.body.manifest = m
  /\ checkpoint.body.commitment = c
  /\ checkpoint.body.suite = suite
  /\ checkpoint.body.slot = Slots[i]
  /\ checkpoint.body.artifact = documents[m].models[i].artifact

(* aggregate_model_slot_checkpoints: the fields expected of each checkpoint. *)
Matches(checkpoint, m, c, i, commit) ==
  /\ checkpoint.body.commit = commit
  /\ checkpoint.body.manifest = m
  /\ checkpoint.body.commitment = c
  /\ checkpoint.body.suite = suite
  /\ checkpoint.body.slot = Slots[i]
  /\ checkpoint.body.artifact = documents[m].models[i].artifact
  /\ checkpoint.id = checkpoint.body

Report(mode, m, c, commit, sources) ==
  LET tables == [i \in SlotIndices |-> sources[i].evaluation] IN
  [mode |-> mode, manifest |-> m, commitment |-> c, suite |-> suite, commit |-> commit,
   sources |-> sources,
   results |-> [i \in SlotIndices |-> EvaluationResult(tables[i])],
   aggregate |-> Aggregate(tables), assessment |-> AssessSuccess(tables)]

WriteReport(name, report) ==
  /\ Linkable(reports, name)
  /\ reports' = Link(reports, name, Written(<<report>>))

(* aggregate-multimodel, of the checkpoint files the operator lists. *)
AggregateSlots(name, m, c, commit, chosen) ==
  /\ ValidInputs(m, c)
  /\ LET checkpoints == [i \in SlotIndices |-> files.seen[chosen[i]].bytes[1]]
         sources == [i \in SlotIndices |-> checkpoints[i].body]
     IN /\ \A i \in SlotIndices : Matches(checkpoints[i], m, c, i, commit)
        /\ SameCases([i \in SlotIndices |-> sources[i].evaluation])
        /\ WriteReport(name, Report("slots", m, c, commit, sources))
  /\ UNCHANGED <<documents, suite, runs, files, measured, edits>>

(* evaluate-multimodel: nothing is written before the last model is done. *)
EvaluateAll(name, m, c, tables) ==
  /\ ValidInputs(m, c)
  /\ LET sources == [i \in SlotIndices |->
                       [slot |-> Slots[i], artifact |-> documents[m].models[i].artifact,
                        evaluation |-> tables[i]]]
     IN WriteReport(name, Report("whole", m, c, "none", sources))
  /\ UNCHANGED <<documents, suite, runs, files, measured, edits>>

SlotsStep ==
  \/ \E draft \in Drafts : FreezeManifest(draft)
  \/ FreezeSuite
  \/ \E s \in Suites : AuthorSuite(s)
  \/ \E r \in Runs, trials \in Tables : EvaluateSlot(r, trials)
  \/ \E r \in Runs : PublishCheckpoint(r) \/ StopSlotRun(r)
  \/ \E output \in Outputs, trials \in Tables : EditCheckpoint(output, trials)
  \/ \E m \in Manifests, c \in Commitments, commit \in Commits :
       \/ \E r \in Runs, output \in Outputs, i \in SlotIndices :
            BeginSlotRun(r, output, m, c, i, commit)
       \/ \E name \in Reports, chosen \in [SlotIndices -> Present(files)] :
            AggregateSlots(name, m, c, commit, chosen)

WholeStep ==
  \E m \in Manifests, c \in Commitments, name \in Reports,
     tables \in [SlotIndices -> WholeTables] : EvaluateAll(name, m, c, tables)
=============================================================================
