# A formal model of Hermes-DOHAA

TLA+ modules, TLC configurations and TLAPS proofs about the code of this
repository. They are kept beside the code and are translated from it: every
definition that stands for code is listed in `PROJECT.json` under `map` with the
lines it models.

Hermes-DOHAA runs an untrusted language-model runtime inside a deterministic
controller: proposals are judged by gates, repaired within scopes the gates
authorize, retried within a budget, recorded in a hash-chained ledger, and
stopped for a human approval where the contract requires one. Around this core
the repository has a prompt-learning pipeline (offline, never activated), a
comparative evaluation over one or several models, and a set of host-side tools
that carry proposals to synthetic effects.

Contents: [the system](#the-system), [the modules](#the-modules),
[the runs](#the-runs), [the proofs](#the-proofs),
[what is not covered](#what-is-not-covered), [the plan](#the-plan).


## The system

Paths are relative to `src/hermes_dohaa/`, or to `tools/` where said so.

### Core

| Component | State | Operations | Interacts with |
|---|---|---|---|
| Controller, `controller/engine.py` | per run: attempt, fingerprints seen, best and last proposal with their verdicts, scope of the next attempt | `run`, `_repair_deterministically`, `_complete_passing_run`, `resume` | calls the runtime (`propose`, `repair`), the gates, the ledger |
| Repair policy, `controller/repair_policy.py` | none | scopes, their merge and closure, change assessment, comparison of failures | called by the controller between two verdicts |
| Gates, `assurance/*.py` | none | `evaluate(contract, proposal)`; the semantic gate also advertises a repair scope | called by the controller; deterministic |
| Semantic repair, `controller/semantic_repair.py` | none | candidate computed from the equalities of the contract | called by the controller |
| Ledger, `evidence/ledger.py` | one SQLite file, shared by every process that opens it; a connection's transaction flag | `append`, `transaction`, `records`, `verify_chain` | written by controllers and by `resume` |
| Contracts, `contracts/models.py` | immutable | parsing, canonical form | read by everybody |
| Identity, `controller/identity.py` | none | digest of controller sources and gate configuration | stored in the checkpoint, compared by `resume` |
| Runtime adapters, `runtime/*.py` | none that outlives a call | HTTP call to a model, proposal extraction, usage | untrusted; may return anything or raise |
| Command line, `cli.py` | none | `run`, `resume`, `verify-ledger`, `evaluate`, ... | builds the objects above |

### Evaluation and learning

| Component | State | Operations |
|---|---|---|
| `evaluation/runner.py`, `models.py`, `statistics.py` | counters of one evaluation, a result file | three arms per case, bounded calls, scoring, exclusive write of the result |
| `evaluation/multimodel.py`, `protocol.py`, `model_manifest.py`, `commitment.py` | slot checkpoints on disk | execution of a slot, aggregation of the checkpoints against frozen commitments |
| `learning/collection.py` | recording directory (dispatch, terminal, finished, aborted records), the uncertain and finished flags | paired collection through an adapter, cleanup, abort |
| `learning/review.py` | chain of review files | disposition appended against an expected head |
| `learning/development.py` | chain of selection records under a file lock | select, reverse, read |
| `learning/quarantine.py`, `artifacts.py`, `proposal.py` | digest-named files | publication by link, verification of files while they may change |
| `learning/shadow.py` | none | preregistration and scoring of recorded pairs |
| `learning/native_*.py` | one guard and one progress channel per worker process | one generation per worker, bounded diagnostics over datagrams |

### Host-side tools (`tools/`)

| Component | State | Operations |
|---|---|---|
| `controlled_tools.py` | tool database (inventory, grants, reservations, receipts), journal database (intents) | seed, authorize, lookup, apply; prepare, pending, record_receipt, complete; execute, recover |
| `host_steps.py` | step rows (allocated, requesting, proposed, ...) | allocate, bind a request, record its terminal, reconcile the effect |
| `controlled_tool_routes.py`, `controlled_tool_proposal.py`, `controlled_route_protocol.py` | route rows from decision intent to effect | decide, execute, recover |
| `native_multistep_tools.py`, `native_tool_canary.py`, `native_tool_evidence.py` | flow rows | attempt, settle, block the suffix, finish |
| `native_model_residency.py`, `native_model_block.py` | the one owned model instance | load, generate, unload; a bounded block of requests |
| `document_stream*.py`, `query_memory.py`, `native_memory_pilot.py`, `evidence_records.py`, `evidence_selection.py`, `untrusted_tool_context.py` | none, or one recording | pure selection, projection and scoring |
| `planned_reasoning_contrast.py`, `prospective_reasoning_budget.py` | none | arithmetic over a fixed workload |
| `build_*`, `validate_*`, `check_*`, `run_*_demo.py` | none | generators, validators, scripted checks |

`deploy/`, `schemas/`, `examples/` and `docs/` are configuration, data and prose.

### What is hard here

* **Several processes, one file.** Controllers and operators share the ledger;
  executors share the tool's databases. SQLite serializes writes, not a read
  followed by a write.
* **Crashes between two durable steps.** A checkpoint and its terminal event; an
  effect and its receipt; an intent and its dispatch.
* **Long sequences of legal steps.** Rejections, roll-backs and deterministic
  units, each of them acceptable, must not add up to an unauthorized edit, to a
  regression, or to verdicts that belong to another proposal.
* **Information flow.** A gate may be an oracle: what it says must not be visible
  to the runtime in any way, the order of retries included.
* **Retries.** The same operation may be executed again, by the same worker, by
  another one, or after a restart, and must have one effect and one answer.

* **Files as the only shared memory.** Reviews, selections, candidates,
  checkpoints and reports are published by linking a complete temporary file to
  its name. Two writers race for a name, the power fails between the link and the
  sync of the directory, a directory changes while it is being hashed.
* **One generation, four failing calls.** Start, generate, stop and cleanup drive a
  worker process, a model server and a lossy progress channel; each may raise,
  be interrupted or be cut off after it has taken effect.
* **Arithmetic with few cases.** A verdict over models, cases and repetitions goes
  through rounded rates, merged token counts and ratios of totals, any of which
  may be missing.

`PROJECT.json` lists these as hazards, each at its line, with the properties that
cover it; one (`evidence/ledger.py:138`) has none, and its note says why.

### What makes each part correct

* *Controller*: the verdicts it keeps are those of the proposal it keeps; success
  means every gate passes; what it retains only ever improves; the requested unit
  is repaired when a proposal replaces another; immutable and unlisted fields are
  preserved; it returns.
* *Repair policy*: a unit is the least closed set of failing scopes around the
  first; what is left for later is independent of it; only visible, advertised
  scopes authorize edits.
* *Oracles*: invisible until the outcome.
* *Ledger*: the chain verifies; a checkpoint is never without its terminal event;
  an approval is consumed once, on the checkpoint's own terms, on an intact
  chain; the write lock is released.
* *Controlled tool*: units are conserved, grants respected, one effect and one
  answer per operation, effects follow intents one at a time per task, lost
  acknowledgments are reconciled.
* *Tool flow*: a request is sent once, whoever stops where, and the model is held
  until its answer is on record; nothing takes effect that the controller did not
  accept in one complete run over that very answer; the tool, the journal, the
  host, the route and the flow name the same outcome; a step is attempted only
  after favourable predecessors; closing leaves no instance behind.
* *Prompt learning*: a snapshot was one state of its directory; a request reaches
  the server once, after its dispatch is on disk; what is recorded is what the
  server said, and a report that its state is known is true; a candidate is
  served only while it is approved; what was acknowledged survives a race for its
  name and a power failure.
* *Evaluation*: the controller's verdict is the one an independent score gives; a
  report is of the campaign it names, under documents frozen in order; a positive
  verdict is earned by exact counts of the trials, an unobserved token included.


## The modules

| Module | Models | Role |
|---|---|---|
| `RepairPolicy` | `controller/repair_policy.py` | pure operators |
| `AssuranceGates` | `assurance/gates.py`, `semantic_assertions.py`, `controller/semantic_repair.py` | the gate suite as constants and operators; EXTENDS `RepairPolicy` |
| `DohaaController` | `run` and what it calls in `controller/engine.py` | state machine; EXTENDS `AssuranceGates` |
| `ControllerProofs` | | theorems about `DohaaController` |
| `OracleBlindness` | two runs side by side | two INSTANCEs of `DohaaController` |
| `OracleBlindnessProofs` | | the theorem about the two runs |
| `RepairUnits` | `derive_repair_scope` against a reference definition | state machine over `RepairPolicy` |
| `RepairUnitsProofs` | | theorems about `RepairUnits` |
| `RunLedger` | `evidence/ledger.py`, the ledger side of `run`, `resume` | state machine of all processes on a file |
| `ApprovalProtocol` | what the ledger promises about a run | abstract specification |
| `RunLedgerProofs` | | theorems about `RunLedger`; it implements `ApprovalProtocol` |
| `ControlledTools` | `tools/controlled_tools.py` | state machine of host and workers |
| `ControlledToolsProofs` | | theorems about `ControlledTools` |
| `ModelResidency` | `tools/native_model_residency.py` and the catalog of the server | actions on one journal and one server |
| `HostSteps` | `tools/host_steps.py`, `controlled_tool_proposal.py` | actions on the host's store |
| `NativeToolEvidence` | `tools/native_tool_evidence.py`, the adapter's `generate` | bridge; EXTENDS `HostSteps`, INSTANCEs `ModelResidency` |
| `ToolRoutes` | `tools/controlled_tool_routes.py` | actions on decisions and runs; EXTENDS `HostSteps` |
| `MultistepFlow` | `tools/native_multistep_tools.py` | composition of the four above and `ControlledTools` |
| `MultistepFlowProofs` | | theorems about `MultistepFlow` |
| `Publication` | the write-link-sync idiom of `learning/` and of `evaluation/multimodel.py` | operators on a directory that may lose power |
| `CandidateStore` | `learning/quarantine.py`, `artifacts.py` | candidates under racing drafters; a snapshot while others write |
| `NativeProgress` | `learning/native_progress.py` | the datagram channel of a worker |
| `NativeWorker` | `learning/native_worker.py` | the worker process, its guard and the server |
| `NativePrompt` | `learning/native_prompt.py` | the adapter's four calls; EXTENDS `NativeWorker` |
| `ShadowScoring` | `learning/shadow.py` | pure operators |
| `PromptCollection` | `learning/collection.py` | the collector and its recording; EXTENDS `NativePrompt`, `ShadowScoring` |
| `ReviewChain` | `learning/review.py` | racing reviewers |
| `DevelopmentSelection` | `learning/development.py` | racing consumers of the selection; EXTENDS `ReviewChain` |
| `PromptLearning` | | composition of the pipeline |
| `PromptLearningProofs` | | theorems about what the pipeline keeps and serves, and about its collection |
| `TokenUsage` | `runtime/usage.py`, the call of `runtime/hermes_api.py` | pure operators |
| `TrialStatistics` | `evaluation/statistics.py`, the summary of `runner.py` | pure operators on tables of trials |
| `ComparativeEvaluation` | `evaluation/runner.py` | the trials of one model, call by call |
| `MultimodelAnalysis` | analysis and verdict of `evaluation/multimodel.py` | pure operators on the tables of all models |
| `ModelSlots` | documents, slots and aggregation of `evaluation/` and `cli.py` | operators, slot processes and their files |
| `Evaluation` | | composition of the evaluation |
| `EvaluationProofs` | | theorems about the trials, the reports and the verdict of `Evaluation` |
| `MC*` | | instances for TLC |

Definitions whose comment begins "Faulty variant" are not used by any
specification: each is a plausible mistake in the definition that follows it, and
the property paired with it in `PROJECT.json` (`mutants`) fails when the one is
put in place of the other.

### Data

A JSON Pointer is the sequence of its tokens. A proposal is a function from the
pointers of its nodes to what is found there: a value at a leaf, the shape at an
inner node. A node whose shape changed hides the changes below it, as in
`_changed_paths`. All proposals of a model have the same nodes; an absent one is
"missing".

A semantic assertion is a record of what the controller's decisions depend on:
its target, the result pointers it reads, its atomic group, the value it computes
when it is an equality with an independent side, or else the set of proposals it
accepts. The expression language is thereby data. A gate other than the semantic
one is the set of proposals it passes and its feedback mode.

### `DohaaController`

One behaviour is one run. `pc` follows the control flow: *proposing* (lines
228-307), *verifying* (309-428), *repairing* (`_repair_deterministically`),
*retrying* (`_record_retry` and the loop head), *done*. The other variables are
the locals of `run`: `attempt`, `seen` (fingerprints), `best`, `last` and their
verdicts, `scope`, and the locals of the deterministic sequence. `options` says
whether the contract has a repair policy, whether the runtime implements
`repair`, and whether approval is needed or given. `origin` and `authorized` are
observed only: no action reads them.

The runtime is the environment. `RuntimeFails` is a call that raises or times
out; `RepeatsProposal`, `EditsOutOfScope` and `ReturnsCandidate` are the three
things that may happen to an answer, and the answer is any proposal at all.

Notes. In legacy mode (no repair policy) an answer seen before is returned with
the verdicts of the *last* proposal, as in lines 332-333; for this reason the
last conjunct of `VerdictsBelongToProposal` is about runs with a policy. Scopes
that overlap without being equal (one pointer above another) merge into an
invalid scope, and the run escalates: it fails closed. The list of violations is
never truncated, since at most 64 assertions are allowed and 100 violations are
reported, so it is modelled as the full set.

### `RunLedger`

The processes are the controllers, one for each run, and the operators, who
execute `resume` any number of times. An append outside a transaction is two
steps, `Prepare` (the SELECT and the hash) and `Insert` (the INSERT and its
commit); inside a transaction it is one, `Write`, since the write lock is held
and the connection sees its own events. `Begin` is BEGIN IMMEDIATE, `Commit` and
`RollBackAs` are the two ways out of `transaction`. `Fails` is a process that
dies, or an exception such as "database is locked": the open transaction is
rolled back. `RefuseResume` stands for every refusal of `_resume_locked`, each a
conjunct of `Eligible`.

The hash of the i-th event is i; `prev` is the position its writer saw. `Terms`
are a task contract together with a control plane; `Uncapturable` are those for
which the identity cannot be captured. The events between the first and the last
of a run are one `gates.evaluated`.

`ApprovalProtocol` says what the ledger promises: per run, absent, open, then
closed or awaiting approval, and from there approved, once. The refinement
mapping is `Status`, a function of the committed events alone.

### `ControlledTools`

Two databases and workers. Every transaction of the code is one action; a worker
may stop before any of them, and stopping inside one is the same, because it is
rolled back. `Execute` and `ExecuteAgain` are the two results of `prepare` (a new
intent, a known one), `Recover` is `pending`, and `Lookup`, `Apply`,
`RecordReceipt`, `Complete` are `_reconcile`. Calls that raise leave both files
unchanged; a worker at one is stopped (`Stops`). Values keep within the bounds of
the instance: the width limit of `_integer` (2^31 - 1) is not reached by sums of
the seeds used.

### `MultistepFlow`

Five durable stores (tool and journal, host steps, bridge, decisions and ledger,
residency journal), the flow's own file and a model server. Each part is a module
of its own, whose actions change only that part; `MultistepFlow` says which action
a call takes next. A call holds the flow's lock from beginning to end, so there is
one at a time; `at` is the last durable boundary it passed:

* `run_next`: `RunNext`, `Allocates`, then `generate` (`BindsRequest`,
  `StoresRequest`, `RecordsIntent`, `Sends`, `Publishes`, `RecordsAnswer`), `decide`
  (`RecordsTerminal`, `BeginsDecision`, `FindsUnavailable` or `Runs`,
  `FinishesRun`, `Decides`), `execute` (`BeginsExecution`, `Executes`,
  `Reconciles`, `ObservesEffect`, `CommitsEffect`) and `_complete` (`Completes`);
* `recover_current`: `Recovers`, which is `bridge.recover`, then one of `Restores`,
  then the tail of `execute` if an execution was announced, then `_complete`;
* `finish`: `FinishesRows`, `BeginsClosing`, the unload, `Closes`.

`Fails` ends the call at any boundary, because something raised; `CreatorStops`
ends the process that created the flow, after which nobody may send. `Refuses` is
a call that finds what it may not go on from. `Interferes` is another client of
the backend, which loads and drops an instance of another model at any moment.
`sends` counts what reached the server and is only observed.

The model server answers a failure, text that is no proposal, an abstention, or a
proposal, within its step's scope or outside. A run of the controller over a
decision is "started" and then has its verdict: the two gates of the route are
fixed and its runtime reads back the verified proposal, so `denied` does not
occur for a bound proposal, and the decision that must not be taken is one from a
run that never finished. Only calls through the collector are modelled: code that
calls `execute` of the route, or `start` of the residency, beside a flow is outside.

### `Publication`

A directory is what processes see (`seen`) and what is on disk (`disk`). Linking a
written and synced temporary file changes the first, a sync of the directory copies
the first to the second; a power failure may keep either version of every name
changed since. `write_evaluation_result` (`multimodel.py`) does
not sync the directory: its reports and checkpoints are modelled without power
failures, and `AcknowledgedSurvive` says nothing of them.

### `PromptLearning`

A behaviour is of one of three stages, as no process of one takes part in another
and each reads what the one before left on disk.

* *store*: drafters race to freeze a candidate under one name (`freeze_candidate`:
  temporary file, link, which refuses a name that exists, sync), and one reader takes
  a snapshot of the artifacts while others write to them in place or by rename. The
  signature of a file (device, inode, size, times) is assumed to change with
  every write, as `artifacts.py` does.
* *collection*: the collector's calls of the adapter and its appends, each of which
  may raise before or after it took effect; the worker from its start to its
  terminal record, killed at any point; the server, which another client may
  also use; the channel, which loses datagrams and has its budget of packets and
  metadata. An interrupt between the start of a worker and the wait for it leaves
  the worker running: it is modelled, and the collection then reports its state as
  uncertain. An adapter that raised is never called again but to clean up.
* *review*: two reviewers append dispositions against the head they read; two
  consumers initialize, adopt, revert and read the selection under its file lock,
  scanning the reviews on the way; the power may fail at any step.

Notes. The recording of a collection is not subjected to a power failure: nothing
resumes it, and its marks are only read by a process that saw it end. The creation
of the development store and of its lock are not undone by one either. After a
refused attempt of the agent the hint `request_bytes` may decrease
(`native_worker.py:164`), which the reader of the channel takes for a stale
packet and rejects: `HonestHintsAreRead` excepts exactly this case.

### `Evaluation`

Three stages here too, linked by *tables of trials*, which is all that one hands
to the next; the assumption `TrialsArePossible` says which tables there are, and
`ControllerAndScoreAgree` that the trials of the first stage are among them.

* *trials* (`ComparativeEvaluation`): direct, self-reflection and controller, each
  call with its ending: an answer with or without usable token counts, an error of
  the server, a timeout, text that is no JSON, or a connection that is lost. The
  controller is that of `DohaaController` with two attempts and no approval, which
  is all that an evaluation case allows (`evaluation/models.py:43`). A proposal is
  what the gates and the comparison with the expected result tell of it.
* *slots* (`ModelSlots`): operators edit the suite, freeze manifests and
  commitments, run a slot to a checkpoint, stop it, edit a checkpoint by hand
  (without a new digest), and aggregate any list of checkpoints. A document is
  known by its place among the documents, which is its time of freezing; a digest
  is what it is a digest of.
* *whole* (`MultimodelAnalysis`): one process evaluates every slot, for every table,
  and the analysis and the verdict are computed as the code does, with each mean
  rounded to a millionth where the code rounds it.

Notes. Ties of a rounded mean go away from zero, where Python's go to the even
digit or to where the binary fraction lies; in the instances nothing that a criterion
compares is such a tie (`evaluation`: rates in eighths, which are exact, and token
ratios with a divisor of at most 8; `rounded_delta`: rates in sixths, and their means
over three cases). `Repetitions` divides a million. Wilson intervals, elapsed times and counts
per gate are reported by the code and compared with nothing; they are left out.
`regressed` never holds of the controller, so the criterion of regressions is
never what fails. When the second call of a condition fails, its first proposal is
discarded; for the controller it had not passed. In legacy mode a repeated
proposal is returned as it is. A manifest and a commitment are only compared by
their time of freezing: freezing both again over a suite that was already run
passes, and so do several runs of a slot of which the best is aggregated. Both are
outside of what the code can see, and `ReportIsTheCampaign` does not exclude them.


## The runs

| Run | Distinct states | Checks |
|---|---|---|
| `controller` | 79,342 | `TypeOK`, `VerdictsBelongToProposal`, `SuccessIsVerified`, `ImmutableFieldsPreserved`, `EditsWereAuthorized`, `RetentionImproves`, `RequestedUnitIsResolved`, `RunReturns` |
| `oracle_blindness` | 10,558 | `OracleOnlyVerdictsNeverSteer`, absence of deadlock |
| `repair_units` | 7,381 | `UnitIsLeastClosed`, `LaterUnitsAreIndependent` |
| `run_ledger` | 255,328 | `TypeOK`, `ApprovalIsConsumedOnce`, `CheckpointIsNeverAlone`, `ResumesOnIntactChain`, `ResumedOnItsOwnTerms`, `ImplementsApprovalProtocol` |
| `run_ledger_fork` | | `ChainIntact` **fails** |
| `run_ledger_live` | 241 | `LockIsReleased` |
| `controlled_tools` | 560,533 | `StockIsConserved`, `GrantsAreRespected`, `OneEffectPerOperation`, `JournalAgreesWithTool`, `EffectsFollowIntents` |
| `controlled_tools_live` | 119,731 | `PendingIsReconciled` |
| `multistep_flow` | 14,422 | `EverySendIsAccountedFor`, `EffectsWereAdmitted`, `OutcomesAgree`, `PredecessorsContinue`, `ClosedMeansUnloaded`, `AttemptsSettle` |
| `prompt_learning` | 464,844 | `SnapshotIsConsistent`, `SentOnceAndRecorded`, `AbortsTellTheTruth`, `OutcomesAreTheServers`, `HonestHintsAreRead`, `CandidateIsApproved`, `AcknowledgedSurvive` |
| `evaluation` | 522,975 | `ControllerAndScoreAgree`, `ReportIsTheCampaign`, `VerdictsAreEarned` |
| `rounded_delta` | | `PositiveDeltaIsHigherRate` **fails** |

### Bounds

* `controller`: three attempts: one without a scope and two with, so that a
  rejected candidate, an adopted one and the end of the budget can follow each
  other. Sixteen proposals over a result with three fields, an action list and a
  proposal of another shape. Four assertions, one of each kind that matters: a
  calculable field, an atomic group of a calculable and a free field, a relation
  without a target. One gate without a scope and one oracle. `StepLimit` stands
  for `MAX_ASSERTIONS` (64): 4 is the number of assertions of the instance, and
  every accepted unit removes a failure.
* `oracle_blindness`: the same contract; the second oracle accepts other results.
* `repair_units`: up to four verdicts, enough for a scope linked to the first
  only through a third, plus one independent of them.
* `run_ledger`: two controllers, two operators, three sets of terms of which one
  cannot be captured. Two writers suffice to break a chain, two operators to race
  for an approval. Operators and controllers of each kind are interchangeable,
  and so are the terms that can be captured; the symmetry set holds no more.
* `controlled_tools`: one product, two workers, two tasks. A reservation, its
  release, an operation that reuses the identity of the first with another
  quantity, a reservation of the other task that competes for the same unit; the
  host seeds one unit or two. `controlled_tools_live` has one task with a second
  release of the same reservation and a reused step.
* `multistep_flow`: two steps of one task, a reservation and its release, with one
  unit in stock and a quota of one. The first may be applied, rejected (a quantity
  the quota excludes), abstained, invalid or failed; the plan continues after two of
  these. The second must find the reservation the first left, or is out of scope.
  Two steps are enough for a predecessor and a blocked suffix. Calls and processes
  are not bounded: every boundary can be hit by a failure any number of times.
* `prompt_learning`: two cases, so four requests, in the two orders of arms; the
  server may answer completely or be cut off. A recording may hold 17 units, room
  for every event, or 10, at which it is full in the middle; the reserve is the
  code's two marks. One storage failure, three packets and one socket for hints (a
  worker with a channel and workers without one), two drafters, and two writes of
  others, so that a file can change and change back while the snapshot is taken; two
  reviewers and two consumers, enough for every race for a name. Symmetry holds
  the reviewers and the consumers.
* `evaluation`: two slots, two cases of two domains, two repetitions; at most two
  trials call by call with at most one faulty reply, four proposals (right, wrong
  without a failing gate, and with one or two), ten replies. Two artifacts, two contents of
  the suite, two commits of the code, two slot processes and two checkpoint names,
  one report, three documents (a commitment frozen before the manifest, or a second
  of either), one edit by hand. Slots choose among 2 tables, the process for all of
  them among 36 for each slot: gains, losses, ties, lost and refused calls in either
  case, enough to reach and to miss each criterion. The significance level is 3/5, as
  2 cases cannot reach the protocol's. With two slots and two repetitions every mean is
  exact in millionths: what rounding does to a verdict is not in this run, but in
  `rounded_delta` and in the theorem `VerdictsEarned`. The protocol's minimums (3 to 20
  slots, 30 to 50 cases, 3 domains of 5) are constants. Symmetry holds the slot
  processes and the checkpoint names.
* `rounded_delta`: three slots, three cases, two repetitions. Of the process for all
  slots 12 tables for each, in which every trial is passed by the controller or by the
  direct answer, never by both; the other two stages are cut to one table, one slot
  process, one trial and no faults.

Deadlock is checked where nothing may stop (`oracle_blindness`); in the other
runs the system ends: a run returns, operations are used up.

### The broken chain

`append` reads the newest hash, computes its own, and then inserts. Outside a
transaction nothing excludes another process between the two. `run_ledger_fork`
shows two controllers whose events name the same predecessor; from then on
`verify_chain` raises for the whole file. It contradicts "Append-only,
hash-chained SQLite evidence ledger" (`evidence/ledger.py:1`) and
`docs/operations.md:106`, which says that the events of all runs share one hash
chain. `ResumesOnIntactChain` shows that `resume` never builds on a broken one: the
failure is detected, but late, and it stops the resumption of every run in the
file.

### The rounded lead

The first success criterion of the preregistered protocol is that "the global
DOHAA final-pass rate is higher than direct"
(`docs/evaluation-protocols/multimodel-generalization-v1.md:102`).
`analyze_multimodel_results` rounds the rate of each case over the models to a
millionth (`_mean`, `evaluation/multimodel.py:655`), takes the mean of the
differences of these, rounded again, and `assess_success` compares it with zero
(`evaluation/multimodel.py:464`).
`rounded_delta` shows equal rates reported as a lead: three models, three cases, two
repetitions, so that each case has six trials. In two cases direct passes 2 of 6 and the
controller 4; in the third direct passes 5 and the controller 1. Both pass 9 of 18,
and both global rates are reported as 0.5. The rates of the cases are rounded to
0.666667 against 0.333333, twice, and 0.166667 against 0.833333; the differences
0.333334, 0.333334 and -0.666666 add up to 0.000002, their mean is rounded to 0.000001,
and the criterion is "passed". No tie is involved: two thirds of a millionth are
rounded up by any rule. These counts, however they are spread over the models, are
the only ones of the run's tables that violate the property.

Computed with `analyze_multimodel_results` and `assess_success` themselves, the same
tables give a difference of 1e-06 as well. With 32 cases of the first kind and 16 of
the second, and criteria that allow one model a negative delta, all of them pass
(p = 0.0293) while both rates are 0.5; the registered protocol allows none, and with equal
totals two models ahead leave one behind, so there only the first criterion is wrong.

`VerdictsAreEarned` says that this is the only way: apart from equal rates, a verdict is
passed exactly if the trials earn it. `VerdictsEarned` proves it for every protocol of
ordinary size.

### A call that leaves no observation

`docs/evaluation.md:312` says that an adapter records exactly one observation of
usage for every call it makes. A connection that is lost while the answer is read
(`RemoteDisconnected`, `ConnectionResetError`, `IncompleteRead`) is caught by no
handler of `runtime/hermes_api.py:188-222`: no observation is recorded and the
exception is not a `HermesApiError`. The model has it as the reply
"disconnected". It does no harm to a verdict: `VerdictsAreEarned` shows that the token
criterion is then not evaluated, and the assessment not passed.

### Fairness

* `controller`: weak fairness of `Next`. The code is sequential, and the
  runtime call has a timeout: it returns or raises.
* `run_ledger_live`: weak fairness of each process's own steps. Nothing in the
  code waits for another process except for the write lock, and only until a
  busy timeout, which is `Fails`.
* `controlled_tools_live`: weak fairness of a worker under way, strong fairness of
  recovery of each task: however busy the workers are with other calls, the host
  now and then asks to recover. The property assumes that from some time on
  workers are no longer interrupted.
* `multistep_flow`: weak fairness of a call under way and of refusals; strong
  fairness of `recover_current` and `finish` by another process, that is, whoever
  looks after the flow opens it again now and then, which is what the code leaves
  to its operator. `AttemptsSettle` assumes that from some time on calls no longer
  fail. An attempt without a published answer is not promised to settle: the code
  wants it to stay open.


## The proofs

Eight modules prove for every value of the constants what the runs check on small
ones. The assumptions are those named in the modules, and TLC evaluates them in the
runs:

* `ContractAssumption`, `SuiteAssumption`, and `ProposalsAssumption`: proposals have
  the same nodes, and a deterministic candidate is a proposal.
* `ProcessesAssumption`; `OperationsAssumption`: finitely many operations, of positive
  quantities; `BindingAssumption`: an operation's identity is a step's.
* The flow's `PlanAssumption`: the steps of a plan are distinct, are those of one task,
  and continue after applied, rejected or abstained outcomes at most;
  `InstancesAssumption`: the flow's instance is not another's.
* `DevelopersAssumption`: temporary file names are none of the fixed ones; the shadow
  plan's `PlanAssumption`: there are at least two cases, finitely many.
* `CollectionAssumption`: the reserve holds two marks, and an answer of the server ends
  with `stop` or by its length; `PacketsAssumption`: a channel may send at
  least one packet.
* `RepetitionsAssumption`; `RepliesAssumption`: how a call may end, and that counts of
  tokens are integers; `CriteriaAssumption`: limits are fractions of natural numbers,
  and the level of the sign test is below one; `TrialsArePossible`: a table holds, of
  each case in each repetition, a trial as `ControllerAgrees` says the first stage
  leaves them;
  `SharedContract`: what the controller assumes, of either of the two runs;
  `RegistrationAssumption`: some suite is the one the protocol plans, and there are
  artifacts enough for its slots.

| Theorem | States |
|---|---|
| `ControllerProofs!TypeCorrect` | `Spec => []TypeOK` |
| `ControllerProofs!VerdictsAreCurrent` | `Spec => []VerdictsBelongToProposal` |
| `ControllerProofs!SuccessVerified` | `Spec => []SuccessIsVerified` |
| `ControllerProofs!ImmutablePreserved` | `Spec => []ImmutableFieldsPreserved` |
| `ControllerProofs!RetentionShrinksFailures` | `Spec => RetentionImproves` |
| `ControllerProofs!RequestedUnitResolved` | `Spec => RequestedUnitIsResolved` |
| `ControllerProofs!EditsAuthorized` | `Spec => []EditsWereAuthorized` |
| `RepairUnitsProofs!UnitsAreLeastClosed` | `Spec => []UnitIsLeastClosed` |
| `RepairUnitsProofs!LaterUnitsIndependent` | `Spec => []LaterUnitsAreIndependent` |
| `OracleBlindnessProofs!OraclesNeverSteer` | `Spec => []OracleOnlyVerdictsNeverSteer` |
| `RunLedgerProofs!TypeCorrect` | `Spec => []TypeOK` |
| `RunLedgerProofs!ApprovalConsumedOnce` | `Spec => []ApprovalIsConsumedOnce` |
| `RunLedgerProofs!CheckpointAtomic` | `Spec => []CheckpointIsNeverAlone` |
| `RunLedgerProofs!ResumesOnlyOnIntactChain` | `Spec => []ResumesOnIntactChain` |
| `RunLedgerProofs!ResumedOnOwnTerms` | `Spec => ResumedOnItsOwnTerms` |
| `RunLedgerProofs!ApprovalProtocolImplemented` | `Spec => ImplementsApprovalProtocol` |
| `ControlledToolsProofs!JournalAgrees` | `Spec => []JournalAgreesWithTool` |
| `ControlledToolsProofs!EffectIsUnique` | `Spec => []OneEffectPerOperation` |
| `ControlledToolsProofs!EffectFollowsIntent` | `Spec => EffectsFollowIntents` |
| `ControlledToolsProofs!StockConserved` | `Spec => []StockIsConserved` |
| `ControlledToolsProofs!GrantsRespected` | `Spec => []GrantsAreRespected` |
| `MultistepFlowProofs!SendsAccounted` | `Spec => []EverySendIsAccountedFor` |
| `MultistepFlowProofs!EffectsAdmitted` | `Spec => []EffectsWereAdmitted` |
| `MultistepFlowProofs!OutcomesAgreed` | `Spec => []OutcomesAgree` |
| `MultistepFlowProofs!PlanFollowed` | `Spec => PredecessorsContinue` |
| `MultistepFlowProofs!ClosedIsUnloaded` | `Spec => []ClosedMeansUnloaded` |
| `PromptLearningProofs!AcknowledgementsSurvive` | `Spec => []AcknowledgedSurvive` |
| `PromptLearningProofs!ApprovedCandidate` | `Spec => []CandidateIsApproved` |
| `PromptLearningProofs!SnapshotConsistent` | `Spec => []SnapshotIsConsistent` |
| `PromptLearningProofs!SentOnce` | `Spec => []SentOnceAndRecorded` |
| `PromptLearningProofs!AbortsTruthful` | `Spec => []AbortsTellTheTruth` |
| `PromptLearningProofs!OutcomesFaithful` | `Spec => []OutcomesAreTheServers` |
| `PromptLearningProofs!HintsRead` | `Spec => []HonestHintsAreRead` |
| `EvaluationProofs!ControllerAgrees` | `Spec => []ControllerAndScoreAgree` |
| `EvaluationProofs!ReportFaithful` | `Spec => []ReportIsTheCampaign` |
| `EvaluationProofs!VerdictsEarned` | `ProtocolMagnitudes` implies `Spec => []VerdictsAreEarned` |

**Controller.** None of the safety properties is inductive: they speak of `best`
when a new proposal is retained, while the decisions are taken earlier, about
`candidate`, in up to `StepLimit` deterministic units. The invariant proved in
`Invariance` says what holds in between: while units are applied in a scoped
attempt, the failures of `results` are already a strict subset of those of
`bestResults` and hold none of the requested rules; every field of `candidate`
under an immutable pointer is still that of `origin`; and verdicts are those of
the proposal they stand beside. Two lemmas about operators carry it: an accepted
comparison means strict inclusion, and an allowed change leaves the topmost
differing nodes, and so every node above or below an immutable pointer, as it was.

**Authorized edits.** A change is checked against the proposal it starts from, and
every attempt has a scope of its own, so no scope ever sees the distance from the
first proposal. The invariant is that this distance lies in the union of the scopes
adopted so far, for `best` and for the `candidate` of the deterministic sequence
(`EditsCovered`); a check looks at the topmost changes only, and what is below one is
covered because the pointers of a scope are well formed (`ScopeIsTyped`) and prefixes
compose.

**Repair units.** The unit comes from a loop, and its definition from a quantifier over
all sets of failing scopes; the provers cannot use the library's induction, so what
holds after every round is proved by a first round that breaks it (`LeastNatural`). Every round adds a
scope or finds nothing to add, and what has stopped growing stays: as many rounds as
there are scopes reach a set that is closed under entanglement (`RoundsSelect`). Every
closed set with the first failure contains each round, so this one is the least. A scope
that is left out is entangled with none of its members, and a merge edits and groups what
its members do (`MergeGathers`).

**Two runs.** The runs share every operator but the one that says what a gate accepts
(`SameScopes`, `SameAtoms` and the like), so they decide alike about alike verdicts. The
verdicts on one proposal differ in oracles only (`Alike`), where neither a scope nor a
failure atom looks (`AlikeScopes`). What does look is success: where every gate passes in
one run no failure is visible in the other, which then has no scope to go on with, and
both end. The one run cannot reject, extend or settle where the other does not
(`SameMove`). The contract is that of either run (`SharedContract`).

**Ledger.** The properties are about committed events, but a pair is written in a
transaction, so the invariant also describes the open one: what its one or two
events are in each place of its holder, that a run's events are its own process's
or a resume's, that no controller of a run is under way once the run is
terminal, and that while an operator is between its check and its commit nothing
can be committed by others. A `prepared` event is never a checkpoint or a resume. The chain itself is *not* assumed intact.

**Refinement.** `Status` is a function of the committed events, and only `Insert` and
`Commit` commit some, of one run. Besides the ledger's invariant the proof needs
`Started`: a controller past `run.received` has an event on the chain, so that what it
appends next continues a run the abstract protocol has seen open. What an operator
commits follows an `approval.required` that is the latest terminal event of its run.

**Controlled tool.** Neither property is inductive: between the intent and its
receipt a worker acts on what it read. The invariant has a part for each: an intent
never changes its operation, no two share an identity or a step, and one of a task is
pending (`Journal`); a receipt answers the operation of an intent (`Receipts`); what a
worker holds and has found is what the files hold (`Executors`). Two workers on the
same intent may both be past their look-up; the second finds the receipt of the
first, which answers the same operation.

The two sums are folds, and the provers cannot use the library's induction. What a fold over a finite set
satisfies is proved by a least counterexample (`SmallestSet`): of the subsets a claim
does not hold for, one has no smaller one, because sizes are natural numbers. With the
lemmas about such sums (one element more, one less, one changed), conservation and grants
follow from a reservation being a row of an applied operation on a product with stock
(`Reservations`).

**Tool flow.** Five files know a step: the host's, the bridge's, the model's, the
route's and the tool's. `Told(i)` explains each by the one written before it: a terminal
by an artifact, an artifact by a send, a decision by a terminal, an intent by a decision,
a receipt by an intent. It holds at every state, whoever is working. What only holds while
a call is under way is said of its boundaries (`CallInv`, `ExecutorInv`), and a call that
ends there gives it up without loss. Only the step of the attempted row changes, which
keeps the other steps as `SameTold` says and the rows as they are (`RowsInv`). The proof
has a lemma for each of the flow's actions. One attempt at it failed for a reason of its
own: an alternative of a `CASE` was open to two results; `Outcome` now tells them apart in
the order of the code.

**Prompt learning.** A file that a call acknowledged is *settled*: processes see it
and the disk has it. Nothing changes a settled name, because a name is linked only
when it is free, only temporary names are removed, and a power failure chooses between
two equal versions. What remains is that the file is settled when the call returns, for
which the invariant says what a call under way holds: the pinned review it appends
to, the states it extends and the last file it has still to write. A revocation that was
acknowledged is therefore found by every later scan, so a call past the scan began
before it (`Approved`).

A snapshot is read file by file, then its signatures once more. No signature ever comes
back: a write in place has a new time, a file that is renamed over another a new number
(`SnapshotConsistent`). A file that has at the end the signature it was read under was
never another in between, so at the moment the last file was read all of them were there.

**Collection.** The collector does one thing at a time, so its place says what it knows:
at some that no worker runs, at fewer that nothing is loaded either (`KnowledgeInv`).
An exception may leave from any of them, and the flags of the handler keep just that much.
The marks it still has to write fit because every other event left the reserve free
(`JournalInv`). A worker lives from the dispatch of its request to the end of the call
(`WorkerInv`); the server receives nothing of a request before its dispatch and answers
nothing any more after its receipt (`RecordInv`, `AnswersInv`), so the audit, which looks
each response up by the place of its receipt, sees the server's answers (`VerdictInv`).
What is in the pipe of hints follows what was read, by counters that only grow, until a
refused generation leaves its size in one (`HintsInv`). The run of the instance fixes what
the server may answer to two answers; the theorems hold for any.

**Evaluation.** A runtime is followed from call to call (`Under`): while the controller
goes on, neither its first proposal nor its best passes, so one that passes ended its
condition at once. What ends a condition leaves a sound outcome, and a trial of sound
outcomes is a possible one, which is what `TrialsArePossible` assumes of the tables the
other stages read. A run measures once and under its own name (`RunsInv`), so the digest
in a checkpoint stays that of a measurement however the checkpoint is edited, and one
that agrees with its digest is what its run measured. Documents are only added, so a
report stays true of them.

**Verdict.** A report is written of tables that were observed, and its assessment is
theirs (`Assessed`): what remains is about operators, `VerdictIsEarned`. The code goes
from trials to rates of cases, to rounded means over the models, to a rounded mean of
differences, and merges usage over all trials; `VerdictsAreEarned` counts trials. Three
kinds of lemmas join the two.

* *Sums.* The library's induction theorems cannot be used, so that induction is proved
  for a *set* instead of an operator: a set of subsets of a finite set that has `{}` and
  whatever it has without one element holds every subset (`EverySubset`), and the like
  for the naturals (`EveryNatural`). With it `SumOver` is shown to be what its recursive
  function in the library says (`SumIs`), linear, monotone, and the same by rows as by
  columns (`SumSwap`), which is why trials may be counted by case or by slot
  (`PassesAdd`, `ScoresAdd`). `FlattenSeq` and the factorial get the same treatment
  (`WeightOfFlattened`, `FactorialOf`).
* *Rounding.* A rounded mean is within a half of the mean and has its sign (`Rounded`),
  so the order of two means survives if they differ by a whole (`RoundingKeepsOrder`),
  and so does a ratio against a limit of six decimals (`RoundedRatio`). The global
  difference is a rounded mean of differences of rounded means: it may be off by more
  than it is, but not by as much as one trial weighs (`GlobalSign`).
* *Criteria.* One lemma for each says what passing it means in trials (`ModelsJudged`,
  `CasesJudged`, `CallsJudged`, `TokensJudged`). A call without an observation, or one
  that failed, makes the merged usage incomplete, whatever other trials reported
  (`UsageIsComplete`), and what is unevaluable does not pass.

`ProtocolMagnitudes` is where rounding to a millionth would begin to decide. It asks for

* at most 2,000,000 / 3 trials of a condition in all. A protected suite has at most 50
  cases and an evaluation at most 100 repetitions (`commitment.py:255`,
  `runner.py:123`), which leaves room for 133 models;
* limits of calls and of tokens in whole millionths, as six decimals can write them;
* a denominator of such a limit times the trials, and times the tokens of all direct
  answers, of at most 2,000,000. With the registered ratio of 3/2 that is a million
  tokens. The code bounds neither. Beyond it a ratio within half a millionth above its
  limit is rounded to the limit and passes, and nothing else changes.

The run's module states `ProtocolMagnitudes` of its instances, and TLC evaluates it. At
the bounds themselves an exact half can occur, which the model rounds away from zero
and Python to even. Below them one comparison can still depend on that rule, the
global lead of equal rates, as with direct passing 1/3 and 3/3 of two cases and the
controller 2/3 of both: half a millionth. There `VerdictsAreEarned` allows either
verdict. The model keeps the
p-value a fraction, which the code rounds to twelve decimals
(`statistics.py:101`).

### Checked by TLC only

* Liveness: `RunReturns`, `LockIsReleased`, `PendingIsReconciled`, `AttemptsSettle`.

Of the type invariants those of the controller and of the ledger are stated and
proved; of the other modules they are part of the invariants the proofs use.

## What is not covered

* Parsing, canonical JSON, hashing, expression evaluation, dates and numbers: the
  models have their results as data.
* A commit that is refused while the connection survives
  (`evidence/ledger.py:138`): in `RunLedger` a failing process is gone.
* Tampering with the file: the model's hashes tell events apart and nothing else.
* Events that are only recorded: the order and content of what a run appends
  between its first and its last event.
* Of the tool flow: digests, source bindings and file protection (every row is the
  one written, every file the one published), phases, timings, usage and the
  comparison with the plan's expected results; the canary collector
  (`native_tool_canary.py`) and `record_block`, which take the same steps through
  the same four modules.
* Of the gates: the result specification and the evidence policy are gates of
  `AssuranceGates` by what they pass, not by how they decide it; the expression
  language of semantic assertions is data.
* Of the learning pipeline: the text of proposals and prompts (`proposal.py`), and
  the checks of request contexts, response formats, reasoning settings and tool
  contracts (`native_context.py`, `native_response_format.py`, `native_reasoning.py`,
  `native_tool_contract.py`), which are functions from text to accepted or not; the
  documents' field-by-field validation everywhere.
* Of the command line: parsing, `run`, `resume` and `verify-ledger`, which build the
  objects modelled elsewhere and call one operation.
* The document stream, the memory pilot, evidence selection and the reasoning
  budgets: pure projections and arithmetic over fixed workloads, with no state that
  outlives a call.
* Build, validation and demonstration scripts, deployment, schemas, examples.


## The plan

The order follows what would hurt most.

1. *Done*: the controller and its repair policy, the ledger and resume, the
   controlled tool; theorems about them, the refinement included.
2. *Done*: the multi-step tool flow over `ModelResidency`, `HostSteps`,
   `NativeToolEvidence`, `ToolRoutes` and `ControlledTools`.
3. *Done*: the prompt-learning pipeline.
4. *Done*: the comparative and the multi-model evaluation.
5. `ToolCanary` and `ModelBlock`, the other two collectors over the same parts. An
   abstract specification of a step (proposed, admitted, effected once) that the
   flow implements.
6. `ResultSpecification` and `EvidencePolicy` as pure functions against reference
   definitions.
7. *Done*: the theorem of `VerdictsAreEarned`, for protocols of a bounded size.
8. An abstract specification of the stock service (one lending per operation, taken
   in one step), refined by `ControlledTools`.
