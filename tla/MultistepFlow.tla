---------------------------- MODULE MultistepFlow ----------------------------
(***************************************************************************)
(* One prospective flow of tool steps, from the load of the model to its   *)
(* unload (tools/native_multistep_tools.py): the composition of the model  *)
(* residency, the native bridge, the host's steps, the tool route and the  *)
(* executor of the stock tool, each with files of its own.                 *)
(*                                                                         *)
(* Every call of the collector holds the flow's lock, so there is one call *)
(* at a time; "at" is the durable boundary it has reached.  It may end at  *)
(* any of them: because something raises, or because its process stops.    *)
(* Only the process that created the flow may send a request.  Any other   *)
(* one may open the flow again to recover a step or to finish.             *)
(***************************************************************************)
EXTENDS ToolRoutes, NativeToolEvidence, FiniteSets

CONSTANTS
  Plan,               \* sequence of [id, continue_on]
  Products, InitialStock, Quota

VARIABLES
  stock, seeded, grants, reservations,    \* of the tool
  pc, held, receipt,                      \* of its executor
  rows,        \* position -> [state, result]
  lifecycle,   \* "none" before the flow is created, "open", "closing", "closed"
  at,          \* where the call under way stands
  current,     \* the position it works on
  caller,      \* which process makes it
  creator      \* the process that created the flow: "running" or "stopped"

Executor == "executor"

Tool == INSTANCE ControlledTools
          WITH Workers <- {Executor}, Seeds <- {InitialStock}, Quotas <- {Quota}

callVars == <<at, current, caller>>
flowVars == <<rows, lifecycle>>
toolVars == <<stock, seeded, grants, reservations, receipts, intents, pc, held, receipt>>
modelVars == <<residency, terminals, loaded>>
vars == <<callVars, flowVars, creator, toolVars, modelVars, bridgeVars, steps, routeVars>>

Positions == DOMAIN Plan
Id(k) == Plan[k].id
I == Id(current)

ASSUME PlanAssumption ==
  /\ Len(Plan) \in Nat /\ Positions = 1 .. Len(Plan)
  /\ {Id(k) : k \in Positions} = StepIds
  /\ \A k, l \in Positions : Id(k) = Id(l) => k = l
  /\ \A k, l \in Positions : TaskOf(Id(k)) = TaskOf(Id(l))
  /\ \A k \in Positions : Plan[k].continue_on \subseteq {"applied", "rejected", "abstained"}

Row(state) == [state |-> state, result |-> None]

(* The host has seeded the stock and granted the quota; the flow pins both. *)
Init ==
  /\ stock = [p \in Products |-> [available |-> InitialStock, version |-> 0]]
  /\ seeded = [p \in Products |-> InitialStock]
  /\ grants = [g \in {TaskOf(i) : i \in StepIds} \X Products |-> Quota]
  /\ reservations = [i \in StepIds |-> None]
  /\ receipts = [i \in StepIds |-> None]
  /\ intents = [i \in StepIds |-> None]
  /\ pc = [w \in {Executor} |-> "idle"]
  /\ held = [w \in {Executor} |-> None]
  /\ receipt = [w \in {Executor} |-> None]
  /\ Model!ResidencyInit /\ NativeInit /\ HostStepsInit /\ ToolRoutesInit
  /\ rows = [k \in Positions |-> Row("pending")]
  /\ lifecycle = "none"
  /\ at = "idle" /\ current = 1 /\ caller = "nobody"
  /\ creator = "running"

-----------------------------------------------------------------------------
(* Calls *)

Begins(who, k, where) ==
  /\ at = "idle"
  /\ who = "creator" => creator = "running"
  /\ at' = where /\ current' = k /\ caller' = who
  /\ UNCHANGED creator

Goes(from, where) ==
  /\ at = from /\ at' = where
  /\ UNCHANGED <<current, caller, creator>>

Ends == at' = "idle" /\ current' = 1 /\ caller' = "nobody"

ExecutorLeaves ==
  /\ Tool!Leaves(Executor)
  /\ UNCHANGED <<stock, seeded, grants, reservations, receipts, intents>>

(* Only the named part of the system changes. *)
OnlyModel  == UNCHANGED <<flowVars, toolVars, bridgeVars, steps, routeVars>>
OnlyBridge == UNCHANGED <<flowVars, toolVars, modelVars, steps, routeVars>>
OnlySteps  == UNCHANGED <<flowVars, toolVars, modelVars, bridgeVars, routeVars>>
OnlyRoute  == UNCHANGED <<flowVars, toolVars, modelVars, bridgeVars, steps>>
OnlyTool   == UNCHANGED <<flowVars, modelVars, bridgeVars, steps, routeVars>>
OnlyFlow   == UNCHANGED <<toolVars, modelVars, bridgeVars, steps, routeVars>>
OnlyCall   == OnlyFlow /\ UNCHANGED flowVars

-----------------------------------------------------------------------------
(* The model is loaded, and the flow created by the process that loaded it. *)

Start ==
  /\ lifecycle = "none" /\ Begins("creator", 1, "loading")
  /\ Model!StartLoading /\ OnlyModel

Loads == Goes("loading", "loaded") /\ Model!ServerLoads /\ OnlyModel

RecordsLoad ==
  /\ at = "loaded" /\ Ends /\ UNCHANGED creator
  /\ \E contextMatches \in BOOLEAN : Model!RecordLoad(contextMatches)
  /\ OnlyModel

Create ==
  /\ lifecycle = "none" /\ at = "idle" /\ creator = "running"
  /\ residency.state = "ready"
  /\ lifecycle' = "open"
  /\ UNCHANGED <<rows, callVars, creator>> /\ OnlyFlow

-----------------------------------------------------------------------------
(* run_next *)

RunNext ==
  /\ lifecycle = "open"
  /\ \E k \in Positions :
       /\ rows[k].state = "pending"
       /\ \A j \in 1 .. k - 1 : rows[j].state \notin {"pending", "attempted"}
       /\ Begins("creator", k, "attempted")
       /\ rows' = [rows EXCEPT ![k] = Row("attempted")]
  /\ UNCHANGED lifecycle /\ OnlyFlow

Allocates == Goes("attempted", "allocated") /\ Allocate(I) /\ OnlySteps

BindsRequest ==
  /\ Goes("allocated", "requested")
  /\ ReadyToGenerate /\ BeginRequest(I, I) /\ OnlySteps

StoresRequest == Goes("requested", "stored") /\ StoreRequest(I) /\ OnlyBridge

RecordsIntent ==
  Goes("stored", "generating") /\ Model!BeginGeneration(I) /\ OnlyModel

Sends == Goes("generating", "sent") /\ Send(I) /\ OnlyBridge

Publishes ==
  /\ Goes("sent", "published")
  /\ \E answer \in Answers(I) : Publish(I, answer)
  /\ OnlyBridge

RecordsAnswer ==
  /\ Goes("published", "answered")
  /\ Native(I) /\ Model!RecordGeneration(I, artifacts[I]) /\ OnlyModel

RecordsTerminal ==
  /\ Goes("answered", "recorded")
  /\ decisions[I] = None /\ NoPendingEffect(TaskOf(I)) /\ NoEffect(I)
  /\ Verified(I) /\ RecordTerminal(I, artifacts[I]) /\ OnlySteps

BeginsDecision == Goes("recorded", "deciding") /\ BeginDecision(I) /\ OnlyRoute

FindsUnavailable ==
  Goes("deciding", "settled") /\ DecideUnavailable(I) /\ OnlyRoute

Runs == Goes("deciding", "running") /\ StartRun(I) /\ OnlyRoute

FinishesRun == Goes("running", "decided") /\ FinishRun(I) /\ OnlyRoute

Decides ==
  /\ at = "decided" /\ CommitDecision(I)
  /\ at' = IF decisions'[I].state = "accepted" THEN "accepted" ELSE "settled"
  /\ UNCHANGED <<current, caller, creator>> /\ OnlyRoute

BeginsExecution == Goes("accepted", "executing") /\ BeginExecution(I) /\ OnlyRoute

Executes ==
  /\ Goes("executing", "applying")
  /\ \/ Tool!Execute(Executor, BoundOperation(I))
     \/ Tool!ExecuteAgain(Executor, BoundOperation(I))
  /\ OnlyTool

Reconciles ==
  /\ at = "applying" /\ Tool!Reconciles(Executor)
  /\ at' = IF pc'[Executor] = "idle" THEN "reconciling" ELSE "applying"
  /\ UNCHANGED <<current, caller, creator>> /\ OnlyTool

ObservesEffect ==
  Goes("reconciling", "observed") /\ ReconcileEffect(I) /\ OnlySteps

CommitsEffect == Goes("observed", "settled") /\ CommitEffect(I) /\ OnlyRoute

(* observed_state: what the tool and its journal hold *)
Observed ==
  [inventory |-> stock, reservations |-> reservations,
   receipts  |-> Cardinality({i \in StepIds : receipts[i] # None}),
   completed |-> Cardinality({i \in StepIds :
                   intents[i] # None /\ intents[i].state = "complete"})]

Result(i) ==
  [state |-> decisions[i].state,
   code |-> IF receipts[i] = None THEN "none" ELSE receipts[i].code,
   observed |-> Observed]

(* Faulty variant: the steps after an unfavourable outcome stay open. *)
CompletesOnly ==
  /\ at = "settled" /\ Ends /\ UNCHANGED creator
  /\ decisions[I].state \in Settled
  /\ Reportable(I) /\ Verified(I) /\ NoPendingEffect(TaskOf(I))
  /\ rows' = [rows EXCEPT ![current] = [state |-> "complete", result |-> Result(I)]]
  /\ UNCHANGED lifecycle /\ OnlyFlow

(* _complete: the row, and what it blocks, in one transaction *)
Completes ==
  /\ at = "settled" /\ Ends /\ UNCHANGED creator
  /\ decisions[I].state \in Settled
  /\ Reportable(I) /\ Verified(I) /\ NoPendingEffect(TaskOf(I))
  /\ rows' = [k \in Positions |->
                IF k = current THEN [state |-> "complete", result |-> Result(I)]
                ELSE IF k > current /\ decisions[I].state \notin Plan[current].continue_on
                THEN Row("blocked")
                ELSE rows[k]]
  /\ UNCHANGED lifecycle /\ OnlyFlow

-----------------------------------------------------------------------------
(* recover_current *)

Attempted == {k \in Positions : rows[k].state = "attempted"}

(* Faulty variant: what the model answered is not recorded for it. *)
RecoversReading(who) ==
  /\ \E k \in Attempted :
       /\ Begins(who, k, "restoring")
       /\ Verified(Id(k))
  /\ UNCHANGED modelVars /\ OnlyModel

(* bridge.recover: an answer that was published but not recorded is recorded *)
Recovers(who) ==
  /\ \E k \in Attempted :
       /\ Begins(who, k, "restoring")
       /\ Native(Id(k))
       /\ IF residency.state = "generating"
          THEN Model!RecordGeneration(Id(k), artifacts[Id(k)])
          ELSE Verified(Id(k)) /\ UNCHANGED modelVars
  /\ OnlyModel

(* workflow.recover: only what was already decided, or announced *)
RestoresUnavailable ==
  /\ Goes("restoring", "settled") /\ decisions[I] # None
  /\ NoPendingEffect(TaskOf(I)) /\ NoEffect(I)
  /\ DecideUnavailable(I) /\ OnlyRoute

RestoresDecision ==
  /\ Goes("restoring", "settled") /\ decisions[I] # None
  /\ NoPendingEffect(TaskOf(I)) /\ NoEffect(I)
  /\ ~ Unavailable(I) /\ CommitDecision(I) /\ OnlyRoute

RestoresExecution ==
  /\ Goes("restoring", "executing")
  /\ decisions[I] # None /\ decisions[I].state = "executing"
  /\ \A i \in StepIds \ {I} : intents[i] # None => intents[i].state = "complete"
  /\ OnlyCall

RestoresOutcome ==
  /\ Goes("restoring", "settled")
  /\ decisions[I] # None /\ decisions[I].state \notin {"deciding", "executing"}
  /\ OnlyCall

Restores ==
  \/ RestoresUnavailable \/ RestoresDecision
  \/ RestoresExecution \/ RestoresOutcome

-----------------------------------------------------------------------------
(* finish *)

FinishesRows(who) ==
  LET pending == {k \in Positions : rows[k].state = "pending"}
  IN /\ lifecycle # "none"
     /\ Begins(who, 1, "finishing")
     /\ \A k \in Attempted : Verified(Id(k))
     /\ pending # {} /\ Attempted = {} => who # "creator"
     /\ rows' = [k \in Positions |->
                   IF k \in Attempted THEN Row("unresolved")
                   ELSE IF k \in pending THEN Row("blocked")
                   ELSE rows[k]]
     /\ UNCHANGED lifecycle /\ OnlyFlow

Completed == {k \in Positions : rows[k].state = "complete"}

(* summary: the completed rows still say what the route and the tool say *)
Summary ==
  /\ \A k \in Completed :
       /\ Reportable(Id(k))
       /\ rows[k].result.state = decisions[Id(k)].state
       /\ rows[k].result.code = Result(Id(k)).code
  /\ (\A k \in Positions : rows[k].state \notin {"attempted", "unresolved"}) =>
       \A k \in Completed : (\A l \in Completed : l <= k) =>
         rows[k].result.observed = Observed

BeginsClosing ==
  /\ Goes("finishing", IF residency.state = "closed" THEN "unloaded" ELSE "unloading")
  /\ Summary
  /\ lifecycle' = IF lifecycle = "open" THEN "closing" ELSE lifecycle
  /\ UNCHANGED rows /\ OnlyFlow

BeginsUnloading ==
  Goes("unloading", "unload sent") /\ Model!BeginUnloading /\ OnlyModel

Unloads ==
  Goes("unload sent", "unload answered") /\ Model!ServerUnloads /\ OnlyModel

RecordsUnload ==
  Goes("unload answered", "unloaded") /\ Model!RecordUnload /\ OnlyModel

Closes ==
  /\ at = "unloaded" /\ Ends /\ UNCHANGED creator
  /\ residency.state = "closed" /\ loaded = {}
  /\ lifecycle' = IF lifecycle = "none" THEN "none" ELSE "closed"
  /\ UNCHANGED rows /\ OnlyFlow

(* An instance loaded with another context than asked for is only given back. *)
Releases ==
  /\ lifecycle = "none" /\ residency.state = "loaded_invalid"
  /\ Begins("creator", 1, "unloading") /\ OnlyCall

-----------------------------------------------------------------------------
(* How a call ends before it is done *)

(* It finds what it may not go on from. *)
Refused ==
  \/ at = "restoring" /\ decisions[I] = None
  \/ /\ at = "restoring" /\ decisions[I] # None /\ decisions[I].state = "deciding"
     /\ ~ Unavailable(I) /\ ~ Proven(I)
  \/ at = "settled" /\ decisions[I].state = "accepted"
  \/ at \in {"allocated", "stored", "generating", "unloading"} /\ ~ Model!SameInstance
  \/ at = "sent" /\ ForeignInstance \in loaded
  \/ at = "unloading" /\ residency.state \notin {"ready", "loaded_invalid"}
  \/ at \in {"unload answered", "unloaded"} /\ loaded # {}

Refuses == Refused /\ Ends /\ UNCHANGED creator /\ OnlyCall

Fails ==
  /\ at # "idle" /\ Ends /\ UNCHANGED creator
  /\ ExecutorLeaves
  /\ UNCHANGED <<flowVars, modelVars, bridgeVars, steps, routeVars>>

CreatorStops ==
  /\ creator = "running" /\ creator' = "stopped"
  /\ IF caller = "creator" THEN Ends /\ ExecutorLeaves
     ELSE UNCHANGED <<callVars, toolVars>>
  /\ UNCHANGED <<flowVars, modelVars, bridgeVars, steps, routeVars>>

Interferes == Model!OthersUseBackend /\ UNCHANGED <<callVars, creator>> /\ OnlyModel

-----------------------------------------------------------------------------

Proceeds ==
  \/ Loads \/ RecordsLoad
  \/ Allocates \/ BindsRequest \/ StoresRequest \/ RecordsIntent \/ Sends \/ Publishes
  \/ RecordsAnswer \/ RecordsTerminal \/ BeginsDecision \/ FindsUnavailable
  \/ Runs \/ FinishesRun \/ Decides
  \/ BeginsExecution \/ Executes \/ Reconciles \/ ObservesEffect \/ CommitsEffect
  \/ Completes \/ Restores
  \/ BeginsClosing \/ BeginsUnloading \/ Unloads \/ RecordsUnload \/ Closes

Processes == {"creator", "another"}

Next ==
  \/ Start \/ Create \/ Releases \/ RunNext
  \/ \E who \in Processes : Recovers(who) \/ FinishesRows(who)
  \/ Proceeds \/ Refuses \/ Fails \/ CreatorStops \/ Interferes

Spec == Init /\ [][Next]_vars

(* A call goes on until it is done or refuses; whoever looks after the flow
   opens it again, now and then, to recover a step or to finish. *)
FairSpec ==
  /\ Spec
  /\ WF_vars(Proceeds) /\ WF_vars(Refuses)
  /\ SF_vars(Recovers("another")) /\ SF_vars(FinishesRows("another"))

-----------------------------------------------------------------------------
(* Properties *)

(* A request is sent at most once, by whatever process and after whatever
   stops; while its answer is not on record the model is held for it, so that it
   is neither given back nor asked anything else (run_next, generate, recover). *)
EverySendIsAccountedFor ==
  \A i \in StepIds :
    /\ sends[i] <= 1
    /\ sends[i] = 1 => Requested(i) /\ requests[i] = "stored"
    /\ sends[i] = 1 /\ terminals[i] = Model!NoReceipt =>
         residency = [state |-> "generating", request |-> i]

(* Nothing is asked of the tool that the controller did not accept in one
   complete run, over the very terminal the model server gave, and that was not
   announced before (decide, execute, recover). *)
EffectsWereAdmitted ==
  \A i \in StepIds :
    /\ decisions[i] # None /\ decisions[i].state \in Admitted =>
         /\ runs[i] = <<"accepted">>
         /\ Verified(i) /\ steps[i].terminal = artifacts[i]
    /\ intents[i] # None =>
         /\ decisions[i] # None
         /\ decisions[i].state \in {"executing", "applied", "rejected"}
         /\ intents[i].op = BoundOperation(i)

(* The host's step, the route's decision and the flow's row name an outcome only
   if it is the one the tool's receipt gives, however the step was interrupted
   and recovered (reconcile_effect, _receipt, _complete). *)
OutcomesAgree ==
  /\ \A i \in StepIds :
       /\ steps[i] # None /\ steps[i].state \in {"applied", "rejected"} =>
            receipts[i] # None /\ steps[i].state = EffectStatus(receipts[i])
       /\ decisions[i] # None /\ decisions[i].state \in {"applied", "rejected"} =>
            decisions[i].state = steps[i].state
  /\ \A k \in Completed :
       LET i == Id(k) IN
       /\ rows[k].result.state = decisions[i].state
       /\ rows[k].result.state \in {"applied", "rejected"} <=> receipts[i] # None

(* A step is attempted only after every earlier one completed with an outcome
   its plan continues on (run_next, _complete, finish). *)
PredecessorsContinue ==
  \A k \in Positions : rows[k].state \in {"attempted", "complete", "unresolved"} =>
    \A j \in 1 .. k - 1 : /\ rows[j].state = "complete"
                          /\ rows[j].result.state \in Plan[j].continue_on

(* A flow that is closed has given its model back, holds the answer to all it
   sent, and leaves no step open (finish, ModelResidency.finish). *)
ClosedMeansUnloaded ==
  /\ residency.state = "closed" => OwnInstance \notin loaded
  /\ lifecycle = "closed" =>
       /\ residency.state = "closed"
       /\ \A i \in StepIds : sends[i] = 1 => Verified(i)
       /\ \A k \in Positions : rows[k].state \notin {"pending", "attempted"}

(* An attempt whose answer was published does not stay open for ever: it is
   completed, or declared unresolved, once calls stop failing (recover_current,
   finish).  Without an answer it stays open, which the code wants. *)
AttemptsSettle ==
  <>[][~ Fails]_vars =>
    \A k \in Positions :
      rows[k].state = "attempted" /\ artifacts[Id(k)] # None
        ~> rows[k].state \in {"complete", "unresolved"}
=============================================================================
