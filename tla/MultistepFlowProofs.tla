------------------------ MODULE MultistepFlowProofs ------------------------
(***************************************************************************)
(* What a multi-step flow promises, for any plan, any scopes and any       *)
(* proposals the model makes, and whichever of its calls stop where.       *)
(*                                                                         *)
(* The argument.  Five files know a step: the host's, the bridge's, the    *)
(* model's, the route's and the tool's.  Each is written in an order that  *)
(* leaves what is written later to be explained by what was written        *)
(* before: a terminal by an artifact, an artifact by a send, a decision by *)
(* a terminal, an intent by a decision, a receipt by an intent.  Told(i)   *)
(* says so of a step, and holds whether or not a call works on it.  What   *)
(* only holds while a call is under way is said of its boundaries, in      *)
(* CallInv and ExecutorInv, and is given up without loss when the call     *)
(* ends there.  Only the step of the attempted row ever changes, which is  *)
(* what keeps the rows (RowsInv) and the other steps as they are.          *)
(***************************************************************************)
EXTENDS MultistepFlow, TLAPS

(* The points of a call that works on a step, and those of one that closes. *)
StepPoints ==
  {"attempted", "allocated", "requested", "stored", "generating", "sent", "published",
   "answered", "recorded", "deciding", "running", "decided", "accepted", "executing",
   "applying", "reconciling", "observed", "settled", "restoring"}

ClosingPoints == {"finishing", "unloading", "unload sent", "unload answered", "unloaded"}

Shapes ==
  /\ DOMAIN steps = StepIds /\ DOMAIN requests = StepIds /\ DOMAIN artifacts = StepIds
  /\ DOMAIN sends = StepIds /\ DOMAIN terminals = StepIds /\ DOMAIN decisions = StepIds
  /\ DOMAIN runs = StepIds /\ DOMAIN intents = StepIds /\ DOMAIN receipts = StepIds
  /\ DOMAIN pc = {Executor} /\ DOMAIN held = {Executor} /\ DOMAIN receipt = {Executor}
  /\ DOMAIN rows = Positions /\ DOMAIN residency = {"state", "request"}

(* What is sent was requested and stored, what is published was sent, and what
   the residency recorded was published. *)
Asking(i) ==
  /\ sends[i] \in {0, 1}
  /\ requests[i] # "absent" => requests[i] = "stored" /\ Requested(i)
  /\ sends[i] = 1 => requests[i] = "stored"
  /\ artifacts[i] # None => sends[i] = 1 /\ artifacts[i] \in Answers(i)
  /\ terminals[i] # Model!NoReceipt => artifacts[i] # None /\ terminals[i] = artifacts[i]
  /\ sends[i] = 1 /\ terminals[i] = Model!NoReceipt =>
       residency = [state |-> "generating", request |-> i]

(* A step that has its terminal has the one the server gave. *)
Stepping(i) ==
  steps[i] # None =>
    /\ DOMAIN steps[i] = {"state", "request", "terminal", "effect"}
    /\ steps[i].state = "allocated" <=> steps[i].request = None
    /\ steps[i].state \notin {"allocated", "requesting"} =>
         Verified(i) /\ steps[i].terminal = artifacts[i]
    /\ steps[i].state \in {"applied", "rejected"} =>
         receipts[i] # None /\ steps[i].state = EffectStatus(receipts[i])

(* A decision is about such a step, and rests on the one run of its contract. *)
Deciding(i) ==
  /\ runs[i] \in {<<>>, <<"started">>, <<"accepted">>, <<"denied">>}
  /\ decisions[i] = None => runs[i] = <<>>
  /\ runs[i] # <<>> => ~ Unavailable(i)
  /\ decisions[i] # None =>
       /\ DOMAIN decisions[i] = {"state", "admission", "effect"}
       /\ steps[i] # None /\ steps[i].state \notin {"allocated", "requesting"}
       /\ decisions[i].state \in Admitted => runs[i] = <<"accepted">>
       /\ decisions[i].state \in Admitted \ {"abstained"} =>
            BoundOperation(i) \in Operations /\ BoundOperation(i).id = i
       /\ decisions[i].state \in {"applied", "rejected"} =>
            decisions[i].state = steps[i].state

(* An intent and a receipt are of the operation whose execution was announced. *)
Executing(i) ==
  /\ intents[i] # None =>
       /\ DOMAIN intents[i] = {"op", "state", "receipt"}
       /\ decisions[i] # None
       /\ decisions[i].state \in {"executing", "applied", "rejected"}
       /\ intents[i].op = BoundOperation(i)
       /\ intents[i].receipt # None => intents[i].receipt = receipts[i]
       /\ intents[i].state = "complete" => intents[i].receipt # None
  /\ receipts[i] # None => intents[i] # None /\ receipts[i].op = intents[i].op

Told(i) == Asking(i) /\ Stepping(i) /\ Deciding(i) /\ Executing(i)

StepInv == \A i \in StepIds : Told(i)

(* The executor works for the call that executes, on the operation of its step. *)
ExecutorInv ==
  /\ pc[Executor] \in {"idle", "looking up", "applying", "recording", "completing"}
  /\ at # "applying" => pc[Executor] = "idle"
  /\ pc[Executor] # "idle" => held[Executor] = BoundOperation(I) /\ intents[I] # None
  /\ pc[Executor] = "recording" =>
       receipt[Executor] # None /\ receipt[Executor] = receipts[I]
  /\ pc[Executor] = "completing" => intents[I].receipt # None

(* What a call that works on a step may rely on at each of its boundaries. *)
CallInv ==
  /\ at \in StepPoints => current \in Positions /\ rows[current].state = "attempted"
  /\ at = "attempted" => steps[I] = None
  /\ at = "allocated" => steps[I] # None /\ steps[I].state = "allocated"
  /\ at \in {"requested", "stored", "generating", "sent", "published", "answered"} =>
       Requested(I)
  /\ at \in {"stored", "generating"} => requests[I] = "stored" 
  /\ at = "generating" => sends[I] = 0
  /\ at \in {"generating", "sent", "published"} =>
       /\ residency = [state |-> "generating", request |-> I]
       /\ terminals[I] = Model!NoReceipt
  /\ at \in {"sent", "published"} => sends[I] = 1
  /\ at = "published" => artifacts[I] # None
  /\ at \in {"answered", "restoring"} => Verified(I)
  /\ at = "recorded" => steps[I] # None /\ steps[I].state \notin {"allocated", "requesting"}
  /\ at \in {"deciding", "running", "decided"} =>
       decisions[I] # None /\ decisions[I].state = "deciding"
  /\ at = "deciding" => runs[I] = <<>>
  /\ at = "running" => runs[I] = <<"started">>
  /\ at = "accepted" => decisions[I] # None /\ decisions[I].state = "accepted"
  /\ at \in {"executing", "applying", "reconciling", "observed"} =>
       decisions[I] # None /\ decisions[I].state = "executing"
  /\ at = "settled" => decisions[I] # None

(* Outcomes the plan does not continue on, and steps that were given up, block
   all that is after them; what is blocked or pending has not begun. *)
RowsInv ==
  /\ \A k \in Positions :
       /\ rows[k].state \in {"pending", "attempted", "complete", "blocked", "unresolved"}
       /\ rows[k].state \in {"pending", "blocked"} => steps[Id(k)] = None
       /\ rows[k].state = "complete" =>
            /\ decisions[Id(k)] # None /\ rows[k].result.state = decisions[Id(k)].state
            /\ rows[k].result.state \in {"applied", "rejected"} <=> receipts[Id(k)] # None
  /\ PredecessorsContinue
  /\ \A j, k \in Positions :
       /\ j < k
       /\ \/ rows[j].state \in {"blocked", "unresolved"}
          \/ rows[j].state = "complete" /\ rows[j].result.state \notin Plan[j].continue_on
       => rows[k].state = "blocked"

LifecycleInv ==
  /\ lifecycle \in {"none", "open", "closing", "closed"}
  /\ lifecycle = "none" => \A k \in Positions : rows[k].state = "pending"
  /\ lifecycle \in {"closing", "closed"} \/ (at \in ClosingPoints /\ lifecycle # "none") =>
       \A k \in Positions : rows[k].state \notin {"pending", "attempted"}
  /\ lifecycle = "closed" => residency.state = "closed"
  /\ at \in {"loading", "loaded"} => residency.state = "loading"
  /\ residency.state = "closed" => OwnInstance \notin loaded

IInv == Shapes /\ StepInv /\ ExecutorInv /\ CallInv /\ RowsInv /\ LifecycleInv

-----------------------------------------------------------------------------
(* What a step of the system leaves alone *)

Same(i) ==
  UNCHANGED <<steps[i], requests[i], artifacts[i], sends[i], terminals[i],
              decisions[i], runs[i], intents[i], receipts[i]>>

(* A step that no file says anything new about is told as before, unless the
   residency that is held for it goes on to another state. *)
LEMMA SameTold ==
  ASSUME NEW i \in StepIds, Told(i), Same(i),
         residency' = residency \/ ~ (sends[i] = 1 /\ terminals[i] = Model!NoReceipt)
  PROVE  Told(i)'
<1>1. Asking(i)'
  BY DEF Told, Same, Asking, Requested
<1>2. Stepping(i)'
  BY DEF Told, Same, Stepping, Verified, Native, Requested
<1>3. Deciding(i)'
  BY DEF Told, Same, Deciding, BoundOperation, Unavailable
<1>4. Executing(i)'
  BY DEF Told, Same, Executing, BoundOperation
<1> QED
  BY <1>1, <1>2, <1>3, <1>4 DEF Told

(* Each position of the plan has a step of its own, and each step a position. *)
LEMMA IdsOfPositions ==
  /\ \A k \in Positions : Id(k) \in StepIds
  /\ \A i \in StepIds : \E k \in Positions : i = Id(k)
  /\ \A k, l \in Positions : Id(k) = Id(l) => k = l
BY PlanAssumption

(* Only the step that a call works on changes: the rows keep what they say. *)
LEMMA RowsKept ==
  ASSUME RowsInv, UNCHANGED rows, NEW c \in Positions, rows[c].state = "attempted",
         \A j \in StepIds : j # Id(c) => Same(j)
  PROVE  RowsInv'
<1>1. \A k \in Positions : k # c => Same(Id(k))
  BY IdsOfPositions
<1>2. \A k \in Positions :
        /\ rows'[k].state \in {"pending", "attempted", "complete", "blocked", "unresolved"}
        /\ rows'[k].state \in {"pending", "blocked"} => steps'[Id(k)] = None
        /\ rows'[k].state = "complete" =>
             /\ decisions'[Id(k)] # None /\ rows'[k].result.state = decisions'[Id(k)].state
             /\ rows'[k].result.state \in {"applied", "rejected"} <=> receipts'[Id(k)] # None
  BY <1>1 DEF RowsInv, Same
<1>3. PredecessorsContinue'
  BY DEF RowsInv, PredecessorsContinue
<1> QED
  BY <1>2, <1>3 DEF RowsInv

(* A call that works on a step goes on with it. *)
LEMMA CallGoesOn ==
  ASSUME IInv, NEW i, i = I, at \in StepPoints, at' \in StepPoints,
         UNCHANGED <<current, rows, lifecycle, loaded>>,
         residency' = residency \/ residency'.state \in {"generating", "ready"},
         \A j \in StepIds : j # i =>
           /\ Same(j)
           /\ residency' = residency \/ ~ (sends[j] = 1 /\ terminals[j] = Model!NoReceipt),
         Shapes', Told(i)', ExecutorInv', CallInv'
  PROVE  IInv'
<1>1. current \in Positions /\ rows[current].state = "attempted" /\ i = Id(current)
  BY DEF IInv, CallInv, I
<1>2. RowsInv'
  BY <1>1, RowsKept DEF IInv
<1>3. StepInv'
  BY SameTold DEF IInv, StepInv
<1>4. LifecycleInv'
  BY <1>1 DEF IInv, LifecycleInv, StepPoints, ClosingPoints
<1> QED
  BY <1>2, <1>3, <1>4 DEF IInv

(* Whoever does not execute leaves the executor idle. *)
LEMMA ExecutorKept ==
  ASSUME ExecutorInv, at # "applying", UNCHANGED pc
  PROVE  ExecutorInv'
BY DEF ExecutorInv

(* The step a call works on, as long as the call works on it. *)
LEMMA Here ==
  ASSUME IInv, at \in StepPoints, UNCHANGED current
  PROVE  I \in StepIds /\ I' = I /\ Told(I)
<1>1. I \in StepIds /\ I' = I
  BY IdsOfPositions DEF IInv, CallInv, I, Id
<1> QED
  BY <1>1 DEF IInv, StepInv

(* Before its decision, a step has no run, no intent and no receipt. *)
LEMMA Undecided ==
  ASSUME NEW i \in StepIds, Told(i), decisions[i] = None,
         UNCHANGED <<decisions[i], runs[i], intents[i], receipts[i]>>
  PROVE  Deciding(i)' /\ Executing(i)'
<1>1. runs[i] = <<>> /\ intents[i] = None /\ receipts[i] = None
  BY DEF Told, Deciding, Executing
<1> QED
  BY <1>1 DEF Deciding, Executing

(* What a decision rests on stays as it is. *)
LEMMA Decided ==
  ASSUME NEW i \in StepIds, Told(i),
         UNCHANGED <<steps[i], decisions[i], runs[i], intents[i], receipts[i]>>
  PROVE  Deciding(i)' /\ Executing(i)'
BY DEF Told, Deciding, Executing, Unavailable, BoundOperation

(* The fields of a step that are read where the model is asked. *)
LEMMA Terminated ==
  ASSUME NEW i \in StepIds, Told(i), terminals[i] = Model!NoReceipt
  PROVE  decisions[i] = None /\ (steps[i] # None => steps[i].state \in {"allocated", "requesting"})
<1>1. artifacts[i] # None => artifacts[i] # Model!NoReceipt
  BY DEF Told, Asking, Answers, Failed, Malformed, Abstention, Answer, Model!NoReceipt
<1>2. ~ Verified(i)
  BY <1>1 DEF Verified, Native
<1> QED
  BY <1>2 DEF Told, Stepping, Deciding

(* The rows are kept by whatever leaves them, the steps, decisions and receipts. *)
LEMMA RowsLeft ==
  ASSUME RowsInv, UNCHANGED <<rows, steps, decisions, receipts>>
  PROVE  RowsInv'
<1>1. PredecessorsContinue'
  BY DEF RowsInv, PredecessorsContinue
<1> QED
  BY <1>1 DEF RowsInv

-----------------------------------------------------------------------------
(* The host's steps *)

(* A row that is attempted has no step yet: the one allocated is its first. *)
LEMMA AllocatesKeeps == ASSUME IInv, Allocates PROVE IInv'
<1>1. PICK i : i = I
  OBVIOUS
<1>2. /\ at = "attempted" /\ at' = "allocated" /\ UNCHANGED <<current, caller, creator>>
      /\ UNCHANGED <<rows, lifecycle, residency, terminals, loaded, requests, artifacts,
                     adapter, sends, decisions, runs>>
      /\ UNCHANGED <<receipts, intents, pc, held, receipt>>
  BY DEF Allocates, Goes, OnlySteps, flowVars, toolVars, modelVars, bridgeVars, routeVars
<1>3. i \in StepIds /\ I' = i /\ steps[i] = None
  BY <1>1, <1>2, IdsOfPositions DEF IInv, CallInv, StepPoints, I, Id
<1>4. steps' = [steps EXCEPT ![i] = [state |-> "allocated", request |-> None,
                                     terminal |-> None, effect |-> None]]
  BY <1>1, <1>3 DEF Allocates, Allocate
<1>5. /\ Shapes' /\ steps'[i] = [state |-> "allocated", request |-> None,
                                terminal |-> None, effect |-> None]
      /\ \A j \in StepIds : j # i => Same(j)
  BY <1>2, <1>3, <1>4 DEF IInv, Shapes, Same
<1>6. steps'[i] # None
  BY <1>5 DEF None
<1>7. Told(i)
  BY <1>3 DEF IInv, StepInv
<1>8. Told(i)'
  <2>1. Asking(i)'
    BY <1>2, <1>3, <1>5, <1>7 DEF Told, Asking, Requested
  <2>2. Stepping(i)'
    BY <1>5 DEF Stepping
  <2>3. decisions[i] = None /\ runs[i] = <<>>
    BY <1>3, <1>7 DEF Told, Deciding
  <2>4. Deciding(i)'
    BY <1>2, <2>3 DEF Deciding
  <2>5. Executing(i)'
    BY <1>2, <1>7, <2>3 DEF Told, Executing
  <2> QED
    BY <2>1, <2>2, <2>4, <2>5 DEF Told
<1>9. CallInv'
  BY <1>2, <1>3, <1>5, <1>6 DEF IInv, CallInv, StepPoints
<1>10. ExecutorInv'
  BY <1>2, ExecutorKept DEF IInv
<1> QED
  BY <1>1, <1>2, <1>5, <1>8, <1>9, <1>10, CallGoesOn DEF StepPoints

(* The request is bound to an allocated step. *)
LEMMA BindsRequestKeeps == ASSUME IInv, BindsRequest PROVE IInv'
<1>1. PICK i : i = I
  OBVIOUS
<1>2. /\ at = "allocated" /\ at' = "requested" /\ UNCHANGED <<current, caller, creator>>
      /\ UNCHANGED <<rows, lifecycle, residency, terminals, loaded, requests, artifacts,
                     adapter, sends, decisions, runs>>
      /\ UNCHANGED <<receipts, intents, pc, held, receipt>>
  BY DEF BindsRequest, Goes, OnlySteps, flowVars, toolVars, modelVars, bridgeVars, routeVars
<1>3. i \in StepIds /\ I' = i /\ steps[i] # None /\ steps[i].state = "allocated"
  BY <1>1, <1>2, IdsOfPositions DEF IInv, CallInv, StepPoints, I, Id
<1>7. Told(i)
  BY <1>3 DEF IInv, StepInv
<1> DEFINE row == [[steps[i] EXCEPT !.state = "requesting"] EXCEPT !.request = [digest |-> i]]
<1>4. steps' = [steps EXCEPT ![i] = row]
  BY <1>1 DEF BindsRequest, BeginRequest
<1>5. /\ Shapes' /\ steps'[i] = row
      /\ \A j \in StepIds : j # i => Same(j)
  BY <1>2, <1>3, <1>4 DEF IInv, Shapes, Same
<1>6. /\ row.state = "requesting" /\ row.request = [digest |-> i]
      /\ DOMAIN row = {"state", "request", "terminal", "effect"}
  BY <1>3, <1>7 DEF Told, Stepping
<1>61. row # None /\ row.request # None
  BY <1>6 DEF None
<1> HIDE DEF row
<1>8. Told(i)'
  <2>1. Asking(i)'
    BY <1>2, <1>3, <1>5, <1>6, <1>61, <1>7 DEF Told, Asking, Requested
  <2>2. Stepping(i)'
    BY <1>5, <1>6, <1>61 DEF Stepping
  <2>3. decisions[i] = None /\ runs[i] = <<>>
    BY <1>3, <1>7 DEF Told, Deciding
  <2>4. Deciding(i)'
    BY <1>2, <2>3 DEF Deciding
  <2>5. Executing(i)'
    BY <1>2, <1>7, <2>3 DEF Told, Executing
  <2> QED
    BY <2>1, <2>2, <2>4, <2>5 DEF Told
<1>9. CallInv'
  BY <1>2, <1>3, <1>5, <1>6, <1>61 DEF IInv, CallInv, StepPoints, Requested
<1>10. ExecutorInv'
  BY <1>2, ExecutorKept DEF IInv
<1> QED
  BY <1>1, <1>2, <1>5, <1>8, <1>9, <1>10, CallGoesOn DEF StepPoints

-----------------------------------------------------------------------------
(* The bridge and the model *)

(* The bridge stores the request of a step that has one. *)
LEMMA StoresRequestKeeps == ASSUME IInv, StoresRequest PROVE IInv'
<1>1. PICK i : i = I
  OBVIOUS
<1>2. /\ at = "requested" /\ at' = "stored" /\ UNCHANGED <<current, caller, creator>>
      /\ UNCHANGED <<rows, lifecycle, residency, terminals, loaded, steps, decisions, runs>>
      /\ UNCHANGED <<receipts, intents, pc, held, receipt, artifacts, sends>>
  BY DEF StoresRequest, StoreRequest, Goes, OnlyBridge, flowVars, toolVars, modelVars, routeVars
<1>3. i \in StepIds /\ I' = i /\ Told(i)
  BY <1>1, <1>2, Here DEF StepPoints
<1>4. Requested(i) /\ requests' = [requests EXCEPT ![i] = "stored"]
  BY <1>1, <1>2 DEF StoresRequest, StoreRequest, IInv, CallInv
<1>5. /\ Shapes' /\ requests'[i] = "stored" /\ \A j \in StepIds : j # i => Same(j)
  BY <1>2, <1>3, <1>4 DEF IInv, Shapes, Same
<1>6. Told(i)'
  <2>1. Asking(i)'
    BY <1>2, <1>3, <1>4, <1>5 DEF Told, Asking, Requested
  <2>2. Stepping(i)'
    BY <1>2, <1>3, <1>4, <1>5 DEF Told, Stepping, Verified, Native, Requested
  <2> QED
    BY <1>2, <1>3, <2>1, <2>2, Decided DEF Told
<1>7. CallInv'
  BY <1>2, <1>3, <1>4, <1>5 DEF IInv, CallInv, StepPoints, Requested
<1>8. ExecutorInv'
  BY <1>2, ExecutorKept DEF IInv
<1> QED
  BY <1>1, <1>2, <1>5, <1>6, <1>7, <1>8, CallGoesOn DEF StepPoints

(* No request awaits an answer while the residency is ready, so that it can be
   held for the next one. *)
LEMMA RecordsIntentKeeps == ASSUME IInv, RecordsIntent PROVE IInv'
<1>1. PICK i : i = I
  OBVIOUS
<1>2. /\ at = "stored" /\ at' = "generating" /\ UNCHANGED <<current, caller, creator>>
      /\ UNCHANGED <<rows, lifecycle, terminals, loaded, steps, decisions, runs>>
      /\ UNCHANGED <<receipts, intents, pc, held, receipt, requests, artifacts, sends>>
  BY DEF RecordsIntent, Model!BeginGeneration, Goes, OnlyModel, flowVars, toolVars, bridgeVars,
         routeVars
<1>3. i \in StepIds /\ I' = i /\ Told(i)
  BY <1>1, <1>2, Here DEF StepPoints
<1>4. /\ residency.state = "ready" /\ terminals[i] = Model!NoReceipt
      /\ residency' = [state |-> "generating", request |-> i]
  BY <1>1 DEF RecordsIntent, Model!BeginGeneration
<1>5. /\ Shapes' /\ \A j \in StepIds : Same(j)
  BY <1>2, <1>4 DEF IInv, Shapes, Same
<1>6. \A j \in StepIds : ~ (sends[j] = 1 /\ terminals[j] = Model!NoReceipt)
  BY <1>4 DEF IInv, StepInv, Told, Asking
<1>7. Told(i)'
  BY <1>3, <1>5, <1>6, SameTold
<1>8. requests[i] = "stored" /\ Requested(i) /\ sends[i] = 0
  BY <1>1, <1>2, <1>3, <1>4, <1>6 DEF IInv, CallInv, Told, Asking
<1>9. CallInv'
  BY <1>2, <1>3, <1>4, <1>8 DEF IInv, CallInv, StepPoints, Requested
<1>10. ExecutorInv'
  BY <1>2, ExecutorKept DEF IInv
<1> QED
  BY <1>1, <1>2, <1>4, <1>5, <1>6, <1>7, <1>9, <1>10, CallGoesOn DEF StepPoints

(* The first send of a request, since its generation has only begun. *)
LEMMA SendsKeeps == ASSUME IInv, Sends PROVE IInv'
<1>1. PICK i : i = I
  OBVIOUS
<1>2. /\ at = "generating" /\ at' = "sent" /\ UNCHANGED <<current, caller, creator>>
      /\ UNCHANGED <<rows, lifecycle, residency, terminals, loaded, steps, decisions, runs>>
      /\ UNCHANGED <<receipts, intents, pc, held, receipt, requests, artifacts>>
  BY DEF Sends, Send, Goes, OnlyBridge, flowVars, toolVars, modelVars, routeVars
<1>3. i \in StepIds /\ I' = i /\ Told(i)
  BY <1>1, <1>2, Here DEF StepPoints
<1>4. /\ Requested(i) /\ requests[i] = "stored" /\ sends[i] = 0 /\ terminals[i] = Model!NoReceipt
      /\ residency = [state |-> "generating", request |-> i]
      /\ sends' = [sends EXCEPT ![i] = sends[i] + 1]
  BY <1>1, <1>2 DEF Sends, Send, IInv, CallInv
<1>5. /\ Shapes' /\ sends'[i] = 1 /\ \A j \in StepIds : j # i => Same(j)
  BY <1>2, <1>3, <1>4 DEF IInv, Shapes, Same
<1>6. Told(i)'
  <2>1. Asking(i)'
    BY <1>2, <1>3, <1>4, <1>5 DEF Told, Asking, Requested
  <2>2. Stepping(i)'
    BY <1>2, <1>3, <1>4, <1>5 DEF Told, Stepping, Verified, Native, Requested
  <2> QED
    BY <1>2, <1>3, <2>1, <2>2, Decided DEF Told
<1>7. CallInv'
  BY <1>2, <1>3, <1>4, <1>5 DEF IInv, CallInv, StepPoints, Requested
<1>8. ExecutorInv'
  BY <1>2, ExecutorKept DEF IInv
<1> QED
  BY <1>1, <1>2, <1>5, <1>6, <1>7, <1>8, CallGoesOn DEF StepPoints

(* What is published was sent, and nothing was decided on it before. *)
LEMMA PublishesKeeps == ASSUME IInv, Publishes PROVE IInv'
<1>1. PICK i : i = I
  OBVIOUS
<1>2. /\ at = "sent" /\ at' = "published" /\ UNCHANGED <<current, caller, creator>>
      /\ UNCHANGED <<rows, lifecycle, residency, terminals, loaded, steps, decisions, runs>>
      /\ UNCHANGED <<receipts, intents, pc, held, receipt, requests, sends>>
  BY DEF Publishes, Publish, Goes, OnlyBridge, flowVars, toolVars, modelVars, routeVars
<1>3. i \in StepIds /\ I' = i /\ Told(i)
  BY <1>1, <1>2, Here DEF StepPoints
<1>4. PICK answer \in Answers(i) : artifacts' = [artifacts EXCEPT ![i] = answer]
  BY <1>1 DEF Publishes, Publish
<1>5. answer # None
  BY DEF Answers, Failed, Malformed, Abstention, Answer, None
<1>6. /\ Requested(i) /\ sends[i] = 1 /\ terminals[i] = Model!NoReceipt
      /\ residency = [state |-> "generating", request |-> i]
  BY <1>1, <1>2 DEF IInv, CallInv
<1>7. /\ Shapes' /\ artifacts'[i] = answer /\ \A j \in StepIds : j # i => Same(j)
  BY <1>2, <1>3, <1>4 DEF IInv, Shapes, Same
<1>8. Told(i)'
  <2>1. Answers(i)' = Answers(i)
    BY DEF Answers
  <2>2. Asking(i)'
    BY <1>2, <1>3, <1>5, <1>6, <1>7, <2>1 DEF Told, Asking, Requested
  <2>3. decisions[i] = None /\ (steps[i] # None => steps[i].state \in {"allocated", "requesting"})
    BY <1>3, <1>6, Terminated
  <2>4. Stepping(i)'
    BY <1>2, <1>3, <2>3 DEF Told, Stepping
  <2> QED
    BY <1>2, <1>3, <2>2, <2>3, <2>4, Undecided DEF Told
<1>9. CallInv'
  BY <1>2, <1>3, <1>5, <1>6, <1>7 DEF IInv, CallInv, StepPoints, Requested
<1>10. ExecutorInv'
  BY <1>2, ExecutorKept DEF IInv
<1> QED
  BY <1>1, <1>2, <1>7, <1>8, <1>9, <1>10, CallGoesOn DEF StepPoints

(* The residency records the answer of the request it is held for. *)
LEMMA AnswerIsRecorded ==
  ASSUME IInv, NEW i \in StepIds, Native(i), Model!RecordGeneration(i, artifacts[i]),
         UNCHANGED <<loaded, steps, requests, artifacts, sends, decisions, runs,
                     intents, receipts>>
  PROVE  /\ StepInv' /\ Verified(i)'
         /\ residency.state = "generating" /\ residency'.state = "ready"
         /\ DOMAIN terminals' = StepIds /\ DOMAIN residency' = {"state", "request"}
<1>1. /\ residency.state = "generating" /\ residency.request = i
      /\ terminals' = [terminals EXCEPT ![i] = artifacts[i]]
      /\ residency' = [state |-> "ready", request |-> "no request"]
  BY DEF Model!RecordGeneration, Model!NoRequest
<1>2. residency'.state = "ready" /\ DOMAIN residency' = {"state", "request"}
  BY <1>1
<1>3. /\ DOMAIN terminals' = StepIds /\ terminals'[i] = artifacts[i]
      /\ \A j \in StepIds : j # i => terminals'[j] = terminals[j]
  BY <1>1 DEF IInv, Shapes
<1>4. \A j \in StepIds : j # i => Same(j)
  BY <1>3 DEF Same
<1>5. \A j \in StepIds : j # i => ~ (sends[j] = 1 /\ terminals[j] = Model!NoReceipt)
  <2>1. \A j \in StepIds : sends[j] = 1 /\ terminals[j] = Model!NoReceipt =>
          residency = [state |-> "generating", request |-> j]
    BY DEF IInv, StepInv, Told, Asking
  <2>2. \A j \in StepIds : sends[j] = 1 /\ terminals[j] = Model!NoReceipt =>
          residency.request = j
    BY <2>1
  <2> QED
    BY <1>1, <2>2
<1>6. Verified(i)'
  BY <1>3 DEF Verified, Native, Requested
<1>7. Told(i)
  BY DEF IInv, StepInv
<1>8. artifacts[i] # None /\ artifacts[i] # Model!NoReceipt
  <2>1. artifacts[i] # None /\ artifacts[i] \in Answers(i)
    BY <1>7 DEF Native, Told, Asking
  <2> QED
    BY <2>1 DEF Answers, Failed, Malformed, Abstention, Answer, Model!NoReceipt
<1>9. Told(i)'
  <2>1. Answers(i)' = Answers(i)
    BY DEF Answers
  <2>2. Asking(i)'
    BY <1>3, <1>7, <1>8, <2>1 DEF Told, Asking, Requested
  <2>3. Stepping(i)'
    BY <1>6, <1>7 DEF Told, Stepping
  <2> QED
    BY <1>7, <2>2, <2>3, Decided DEF Told
<1>10. StepInv'
  BY <1>4, <1>5, <1>9, SameTold DEF IInv, StepInv
<1> QED
  BY <1>1, <1>2, <1>3, <1>6, <1>10

(* The call that published an answer records it. *)
LEMMA RecordsAnswerKeeps == ASSUME IInv, RecordsAnswer PROVE IInv'
<1>1. PICK i : i = I
  OBVIOUS
<1>2. /\ at = "published" /\ at' = "answered" /\ UNCHANGED <<current, caller, creator>>
      /\ UNCHANGED <<rows, lifecycle, loaded, steps, decisions, runs>>
      /\ UNCHANGED <<receipts, intents, pc, held, receipt, requests, artifacts, sends>>
  BY DEF RecordsAnswer, Model!RecordGeneration, Goes, OnlyModel, flowVars, toolVars,
         bridgeVars, routeVars
<1>3. i \in StepIds /\ I' = i
  BY <1>1, <1>2, Here DEF StepPoints
<1>4. Native(i) /\ Model!RecordGeneration(i, artifacts[i])
  BY <1>1 DEF RecordsAnswer
<1>5. /\ StepInv' /\ Verified(i)' /\ residency.state = "generating"
      /\ residency'.state = "ready"
      /\ DOMAIN terminals' = StepIds /\ DOMAIN residency' = {"state", "request"}
  BY <1>2, <1>3, <1>4, AnswerIsRecorded
<1>6. Shapes'
  BY <1>2, <1>5 DEF IInv, Shapes
<1>7. CallInv'
  BY <1>1, <1>2, <1>3, <1>5 DEF IInv, CallInv, StepPoints, Verified, Native
<1>8. ExecutorInv'
  BY <1>2, ExecutorKept DEF IInv
<1>9. RowsInv'
  BY <1>2, RowsLeft DEF IInv
<1>10. LifecycleInv'
  BY <1>2, <1>5 DEF IInv, LifecycleInv, ClosingPoints
<1> QED
  BY <1>5, <1>6, <1>7, <1>8, <1>9, <1>10 DEF IInv

(* The states a terminal can lead to. *)
LEMMA Outcomes ==
  ASSUME NEW i, NEW answer
  PROVE  /\ Outcome(i, answer) \notin {"allocated", "requesting", "applied", "rejected"}
         /\ Outcome(i, answer) \in {"generation_failed", "invalid", "abstained", "proposed"}
BY DEF Outcome

(* The step gets the verified terminal, or already has one. *)
LEMMA RecordsTerminalKeeps == ASSUME IInv, RecordsTerminal PROVE IInv'
<1>1. PICK i : i = I
  OBVIOUS
<1>2. /\ at = "answered" /\ at' = "recorded" /\ UNCHANGED <<current, caller, creator>>
      /\ UNCHANGED <<rows, lifecycle, residency, terminals, loaded, decisions, runs>>
      /\ UNCHANGED <<receipts, intents, pc, held, receipt, requests, artifacts, sends>>
  BY DEF RecordsTerminal, Goes, OnlySteps, flowVars, toolVars, modelVars, bridgeVars, routeVars
<1>3. i \in StepIds /\ I' = i /\ Told(i)
  BY <1>1, <1>2, Here DEF StepPoints
<1>4. decisions[i] = None /\ Verified(i) /\ Requested(i) /\ RecordTerminal(i, artifacts[i])
  BY <1>1 DEF RecordsTerminal, RecordTerminal
<1>5. CASE steps[i].state # "requesting"
  <2>1. UNCHANGED steps
    BY <1>4, <1>5 DEF RecordTerminal
  <2>2. Shapes' /\ \A j \in StepIds : Same(j)
    BY <1>2, <2>1 DEF IInv, Shapes, Same
  <2>3. Told(i)'
    BY <1>2, <1>3, <2>2, SameTold
  <2>4. steps[i] # None /\ steps[i].state \notin {"allocated", "requesting"}
    <3>1. steps[i] # None /\ steps[i].request # None
      BY <1>4 DEF Requested
    <3> QED
      BY <1>3, <1>5, <3>1 DEF Told, Stepping
  <2>5. CallInv'
    BY <1>2, <1>3, <2>1, <2>4 DEF IInv, CallInv, StepPoints
  <2>6. ExecutorInv'
    BY <1>2, ExecutorKept DEF IInv
  <2> QED
    BY <1>1, <1>2, <2>2, <2>3, <2>5, <2>6, CallGoesOn DEF StepPoints
<1>6. CASE steps[i].state = "requesting"
  <2> DEFINE row == [[steps[i] EXCEPT !.state = Outcome(i, artifacts[i])]
                       EXCEPT !.terminal = artifacts[i]]
  <2>1. steps' = [steps EXCEPT ![i] = row]
    BY <1>4, <1>6 DEF RecordTerminal
  <2>2. /\ Shapes' /\ steps'[i] = row /\ \A j \in StepIds : j # i => Same(j)
    BY <1>2, <1>3, <2>1 DEF IInv, Shapes, Same
  <2>3. /\ row.state = Outcome(i, artifacts[i]) /\ row.terminal = artifacts[i]
        /\ row.request = steps[i].request
        /\ DOMAIN row = {"state", "request", "terminal", "effect"}
    BY <1>3, <1>4 DEF Told, Stepping, Requested
  <2>4. row # None
    BY <2>3 DEF None
  <2> HIDE DEF row
  <2>5. steps[i] # None /\ steps[i].request # None /\ steps'[i] # None
        /\ steps'[i].request # None
    BY <1>4, <2>2, <2>3, <2>4 DEF Requested
  <2>6. Verified(i)'
    BY <1>2, <1>4, <2>5 DEF Verified, Native, Requested
  <2>7. Told(i)'
    <3>1. Answers(i)' = Answers(i)
      BY DEF Answers
    <3>2. Asking(i)'
      BY <1>2, <1>3, <2>5, <3>1 DEF Told, Asking, Requested
    <3>3. Stepping(i)'
      BY <1>2, <2>2, <2>3, <2>5, <2>6, Outcomes DEF Stepping
    <3> QED
      BY <1>2, <1>3, <1>4, <3>2, <3>3, Undecided DEF Told
  <2>8. CallInv'
    BY <1>2, <1>3, <2>2, <2>3, <2>4, Outcomes DEF IInv, CallInv, StepPoints
  <2>9. ExecutorInv'
    BY <1>2, ExecutorKept DEF IInv
  <2> QED
    BY <1>1, <1>2, <2>2, <2>7, <2>8, <2>9, CallGoesOn DEF StepPoints
<1> QED
  BY <1>5, <1>6

(* The step takes the outcome of the receipt its intent was completed with. *)
LEMMA ObservesEffectKeeps == ASSUME IInv, ObservesEffect PROVE IInv'
<1>1. PICK i : i = I
  OBVIOUS
<1>2. /\ at = "reconciling" /\ at' = "observed" /\ UNCHANGED <<current, caller, creator>>
      /\ UNCHANGED <<rows, lifecycle, residency, terminals, loaded, decisions, runs>>
      /\ UNCHANGED <<receipts, intents, pc, held, receipt, requests, artifacts, sends>>
  BY DEF ObservesEffect, Goes, OnlySteps, flowVars, toolVars, modelVars, bridgeVars, routeVars
<1>3. i \in StepIds /\ I' = i /\ Told(i)
  BY <1>1, <1>2, Here DEF StepPoints
<1>4. decisions[i] # None /\ decisions[i].state = "executing" /\ ReconcileEffect(i)
  BY <1>1, <1>2 DEF ObservesEffect, IInv, CallInv
<1>5. CASE UNCHANGED steps
  <2>1. Shapes' /\ \A j \in StepIds : Same(j)
    BY <1>2, <1>5 DEF IInv, Shapes, Same
  <2>2. Told(i)'
    BY <1>2, <1>3, <2>1, SameTold
  <2>3. CallInv'
    BY <1>2, <1>3, <1>4 DEF IInv, CallInv, StepPoints
  <2>4. ExecutorInv'
    BY <1>2, ExecutorKept DEF IInv
  <2> QED
    BY <1>1, <1>2, <2>1, <2>2, <2>3, <2>4, CallGoesOn DEF StepPoints
<1>6. CASE ~ UNCHANGED steps
  <2> DEFINE row == [[steps[i] EXCEPT !.state = EffectStatus(receipts[i])]
                       EXCEPT !.effect = receipts[i]]
  <2>1. /\ steps[i].state = "proposed" /\ intents[i] # None /\ intents[i].state = "complete"
        /\ intents[i].receipt = receipts[i] /\ steps' = [steps EXCEPT ![i] = row]
    BY <1>4, <1>6 DEF ReconcileEffect
  <2>2. /\ Shapes' /\ steps'[i] = row /\ \A j \in StepIds : j # i => Same(j)
    BY <1>2, <1>3, <2>1 DEF IInv, Shapes, Same
  <2>3. steps[i] # None /\ receipts[i] # None
    BY <1>3, <1>4, <2>1 DEF Told, Deciding, Executing
  <2>4. /\ row.state = EffectStatus(receipts[i]) /\ row.terminal = steps[i].terminal
        /\ row.request = steps[i].request
        /\ DOMAIN row = {"state", "request", "terminal", "effect"}
    BY <1>3, <2>3 DEF Told, Stepping
  <2>5. row # None /\ row.state \in {"applied", "rejected"}
    BY <2>4 DEF None, EffectStatus
  <2> HIDE DEF row
  <2>6. Verified(i) /\ steps[i].request # None /\ steps[i].terminal = artifacts[i]
    BY <1>3, <2>1, <2>3 DEF Told, Stepping
  <2>7. Verified(i)'
    BY <1>2, <2>2, <2>4, <2>5, <2>6 DEF Verified, Native, Requested
  <2>8. Told(i)'
    <3>1. Answers(i)' = Answers(i)
      BY DEF Answers
    <3>2. Asking(i)'
      BY <1>2, <1>3, <2>2, <2>4, <2>5, <2>6, <3>1 DEF Told, Asking, Requested
    <3>3. Stepping(i)'
      BY <1>2, <2>2, <2>3, <2>4, <2>5, <2>6, <2>7 DEF Stepping, EffectStatus
    <3>4. Unavailable(i)' = Unavailable(i) /\ BoundOperation(i)' = BoundOperation(i)
      BY <2>2, <2>4 DEF Unavailable, BoundOperation
    <3>5. Deciding(i)'
      BY <1>2, <1>3, <1>4, <2>2, <2>4, <2>5, <3>4 DEF Told, Deciding
    <3>6. Executing(i)'
      BY <1>2, <1>3, <3>4 DEF Told, Executing
    <3> QED
      BY <3>2, <3>3, <3>5, <3>6 DEF Told
  <2>9. CallInv'
    BY <1>2, <1>3, <1>4 DEF IInv, CallInv, StepPoints
  <2>10. ExecutorInv'
    BY <1>2, ExecutorKept DEF IInv
  <2> QED
    BY <1>1, <1>2, <2>2, <2>8, <2>9, <2>10, CallGoesOn DEF StepPoints
<1> QED
  BY <1>5, <1>6

-----------------------------------------------------------------------------
(* The route *)

(* Only the decision and the runs of the step the call works on change. *)
LEMMA RouteGoesOn ==
  ASSUME IInv, NEW i, i = I, at \in StepPoints \ {"applying"}, at' \in StepPoints,
         UNCHANGED <<current, caller, creator>>, OnlyRoute,
         DOMAIN decisions' = StepIds, DOMAIN runs' = StepIds,
         \A j \in StepIds : j # i => UNCHANGED <<decisions[j], runs[j]>>,
         Deciding(i)', Executing(i)', CallInv'
  PROVE  IInv'
<1>1. i \in StepIds /\ I' = i /\ Told(i)
  BY Here
<1>2. /\ UNCHANGED <<rows, lifecycle, residency, terminals, loaded, steps>>
      /\ UNCHANGED <<receipts, intents, pc, held, receipt, requests, artifacts, sends>>
  BY DEF OnlyRoute, flowVars, toolVars, modelVars, bridgeVars
<1>3. Shapes' /\ \A j \in StepIds : j # i => Same(j)
  BY <1>2 DEF IInv, Shapes, Same
<1>4. Asking(i)' /\ Stepping(i)'
  <2>1. Asking(i)'
    BY <1>1, <1>2 DEF Told, Asking, Requested, Answers
  <2>2. Stepping(i)'
    BY <1>1, <1>2 DEF Told, Stepping, Verified, Native, Requested
  <2> QED
    BY <2>1, <2>2
<1>5. Told(i)'
  BY <1>4 DEF Told
<1>6. ExecutorInv'
  BY <1>2, ExecutorKept DEF IInv
<1> QED
  BY <1>2, <1>3, <1>5, <1>6, CallGoesOn

(* A decision is begun once, when there are neither runs nor effects. *)
LEMMA BeginsDecisionKeeps == ASSUME IInv, BeginsDecision PROVE IInv'
<1>1. PICK i : i = I
  OBVIOUS
<1>2. /\ at = "recorded" /\ at' = "deciding" /\ UNCHANGED <<current, caller, creator>>
      /\ OnlyRoute /\ UNCHANGED runs
  BY DEF BeginsDecision, BeginDecision, Goes
<1>3. UNCHANGED <<rows, steps, intents, receipts, requests, sends, residency, terminals, artifacts>>
  BY <1>2 DEF OnlyRoute, flowVars, toolVars, modelVars, bridgeVars
<1>4. i \in StepIds /\ I' = i /\ Told(i)
  BY <1>1, <1>2, Here DEF StepPoints
<1> DEFINE row == [state |-> "deciding", admission |-> None, effect |-> None]
<1>5. decisions[i] = None /\ decisions' = [decisions EXCEPT ![i] = row]
  BY <1>1 DEF BeginsDecision, BeginDecision
<1>6. /\ DOMAIN decisions' = StepIds /\ DOMAIN runs' = StepIds /\ decisions'[i] = row
      /\ \A j \in StepIds : j # i => UNCHANGED <<decisions[j], runs[j]>>
  BY <1>2, <1>4, <1>5 DEF IInv, Shapes
<1>7. row # None
  BY DEF None
<1>8. steps[i] # None /\ steps[i].state \notin {"allocated", "requesting"}
  BY <1>1, <1>2 DEF IInv, CallInv
<1>9. runs[i] = <<>> /\ intents[i] = None /\ receipts[i] = None
  BY <1>4, <1>5 DEF Told, Deciding, Executing
<1>10. Deciding(i)'
  BY <1>2, <1>3, <1>6, <1>7, <1>8, <1>9 DEF Deciding, Admitted
<1>11. Executing(i)'
  BY <1>3, <1>9 DEF Executing
<1>12. CallInv'
  BY <1>1, <1>2, <1>3, <1>4, <1>6, <1>7, <1>9 DEF IInv, CallInv, StepPoints
<1> QED
  BY <1>1, <1>2, <1>6, <1>10, <1>11, <1>12, RouteGoesOn DEF StepPoints

(* A step whose answer is no proposal is settled without a run. *)
LEMMA UnavailableKeeps ==
  ASSUME IInv, NEW from \in {"deciding", "restoring"}, Goes(from, "settled"),
         decisions[I] # None, DecideUnavailable(I), OnlyRoute
  PROVE  IInv'
<1>1. PICK i : i = I
  OBVIOUS
<1>2. /\ at = from /\ at' = "settled" /\ UNCHANGED <<current, caller, creator>>
      /\ UNCHANGED runs
  BY DEF DecideUnavailable, Goes
<1>3. UNCHANGED <<rows, steps, intents, receipts, requests, sends, residency, terminals, artifacts>>
  BY DEF OnlyRoute, flowVars, toolVars, modelVars, bridgeVars
<1>4. i \in StepIds /\ I' = i /\ Told(i)
  BY <1>1, <1>2, Here DEF StepPoints
<1> DEFINE row == [decisions[i] EXCEPT !.state = Outcome(i, steps[i].terminal)]
<1>5. /\ decisions[i] # None /\ decisions[i].state = "deciding" /\ Unavailable(i)
      /\ decisions' = [decisions EXCEPT ![i] = row]
  BY <1>1 DEF DecideUnavailable
<1>6. /\ DOMAIN decisions' = StepIds /\ DOMAIN runs' = StepIds /\ decisions'[i] = row
      /\ \A j \in StepIds : j # i => UNCHANGED <<decisions[j], runs[j]>>
  BY <1>2, <1>4, <1>5 DEF IInv, Shapes
<1>7. /\ row.state \in {"invalid", "generation_failed"}
      /\ DOMAIN row = {"state", "admission", "effect"}
  BY <1>4, <1>5 DEF Told, Deciding, Unavailable
<1>8. row # None
  BY <1>7 DEF None
<1> HIDE DEF row
<1>9. /\ steps[i] # None /\ steps[i].state \notin {"allocated", "requesting"}
      /\ runs[i] = <<>> /\ intents[i] = None /\ receipts[i] = None
  BY <1>4, <1>5 DEF Told, Deciding, Executing
<1>10. Deciding(i)'
  BY <1>2, <1>3, <1>6, <1>7, <1>8, <1>9 DEF Deciding, Admitted
<1>11. Executing(i)'
  BY <1>3, <1>9 DEF Executing
<1>12. CallInv'
  BY <1>1, <1>2, <1>3, <1>4, <1>6, <1>8 DEF IInv, CallInv, StepPoints
<1> QED
  BY <1>1, <1>2, <1>6, <1>10, <1>11, <1>12, RouteGoesOn DEF StepPoints

(* An unavailable proposal is settled in the call that decides. *)
LEMMA FindsUnavailableKeeps == ASSUME IInv, FindsUnavailable PROVE IInv'
<1>1. decisions[I] # None
  BY DEF FindsUnavailable, Goes, IInv, CallInv
<1> QED
  BY <1>1, UnavailableKeeps DEF FindsUnavailable

(* An unavailable proposal is settled in a later call. *)
LEMMA RestoresUnavailableKeeps == ASSUME IInv, RestoresUnavailable PROVE IInv'
BY UnavailableKeeps DEF RestoresUnavailable

(* The controller starts its one run. *)
LEMMA RunsKeeps == ASSUME IInv, Runs PROVE IInv'
<1>1. PICK i : i = I
  OBVIOUS
<1>2. /\ at = "deciding" /\ at' = "running" /\ UNCHANGED <<current, caller, creator>>
      /\ OnlyRoute /\ UNCHANGED decisions
  BY DEF Runs, StartRun, Goes
<1>3. UNCHANGED <<rows, steps, intents, receipts, requests, sends, residency, terminals, artifacts>>
  BY <1>2 DEF OnlyRoute, flowVars, toolVars, modelVars, bridgeVars
<1>4. i \in StepIds /\ I' = i /\ Told(i)
  BY <1>1, <1>2, Here DEF StepPoints
<1>5. /\ decisions[i] # None /\ decisions[i].state = "deciding" /\ runs[i] = <<>>
      /\ ~ Unavailable(i) /\ runs' = [runs EXCEPT ![i] = Append(runs[i], "started")]
  BY <1>1, <1>2 DEF Runs, StartRun, IInv, CallInv
<1>6. Append(runs[i], "started") = <<"started">>
  BY <1>5
<1>7. /\ DOMAIN decisions' = StepIds /\ DOMAIN runs' = StepIds /\ runs'[i] = <<"started">>
      /\ \A j \in StepIds : j # i => UNCHANGED <<decisions[j], runs[j]>>
  BY <1>2, <1>4, <1>5, <1>6 DEF IInv, Shapes
<1>8. Deciding(i)'
  <2>1. Unavailable(i)' = Unavailable(i)
    BY <1>3 DEF Unavailable
  <2> QED
    BY <1>2, <1>3, <1>4, <1>5, <1>7, <2>1 DEF Told, Deciding, Admitted
<1>9. Executing(i)'
  BY <1>2, <1>3, <1>4 DEF Told, Executing, BoundOperation
<1>10. CallInv'
  BY <1>1, <1>2, <1>3, <1>4, <1>5, <1>7 DEF IInv, CallInv, StepPoints
<1> QED
  BY <1>1, <1>2, <1>7, <1>8, <1>9, <1>10, RouteGoesOn DEF StepPoints

(* The run that was started ends with a verdict. *)
LEMMA FinishesRunKeeps == ASSUME IInv, FinishesRun PROVE IInv'
<1>1. PICK i : i = I
  OBVIOUS
<1>2. /\ at = "running" /\ at' = "decided" /\ UNCHANGED <<current, caller, creator>>
      /\ OnlyRoute /\ UNCHANGED decisions
  BY DEF FinishesRun, FinishRun, Goes
<1>3. UNCHANGED <<rows, steps, intents, receipts, requests, sends, residency, terminals, artifacts>>
  BY <1>2 DEF OnlyRoute, flowVars, toolVars, modelVars, bridgeVars
<1>4. i \in StepIds /\ I' = i /\ Told(i)
  BY <1>1, <1>2, Here DEF StepPoints
<1>5. /\ decisions[i] # None /\ decisions[i].state = "deciding" /\ runs[i] = <<"started">>
      /\ runs' = [runs EXCEPT ![i][Len(runs[i])] = Admission(i)]
  BY <1>1, <1>2 DEF FinishesRun, FinishRun, IInv, CallInv
<1>6. Admission(i) \in {"accepted", "denied"}
  BY DEF Admission
<1>7. [runs[i] EXCEPT ![Len(runs[i])] = Admission(i)] = <<Admission(i)>>
  BY <1>5
<1>8. /\ DOMAIN decisions' = StepIds /\ DOMAIN runs' = StepIds /\ runs'[i] = <<Admission(i)>>
      /\ \A j \in StepIds : j # i => UNCHANGED <<decisions[j], runs[j]>>
  BY <1>2, <1>4, <1>5, <1>7 DEF IInv, Shapes
<1>9. runs'[i] \in {<<"accepted">>, <<"denied">>}
  BY <1>6, <1>8
<1>10. ~ Unavailable(i)
  <2>1. runs[i] # <<>>
    BY <1>5
  <2> QED
    BY <1>4, <2>1 DEF Told, Deciding
<1>11. Deciding(i)'
  <2>1. Unavailable(i)' = Unavailable(i)
    BY <1>3 DEF Unavailable
  <2> QED
    BY <1>2, <1>3, <1>4, <1>5, <1>9, <1>10, <2>1 DEF Told, Deciding, Admitted
<1>12. Executing(i)'
  BY <1>2, <1>3, <1>4 DEF Told, Executing, BoundOperation
<1>13. CallInv'
  BY <1>1, <1>2, <1>3, <1>4, <1>5 DEF IInv, CallInv, StepPoints
<1> QED
  BY <1>1, <1>2, <1>8, <1>11, <1>12, <1>13, RouteGoesOn DEF StepPoints

(* A proposal that is available and not an abstention is of an operation that
   the model could propose for this step. *)
LEMMA BoundIsProposed ==
  ASSUME NEW i \in StepIds, Told(i), steps[i] # None,
         steps[i].state \notin {"allocated", "requesting"},
         ~ Unavailable(i), BoundOperation(i) # None
  PROVE  BoundOperation(i) \in Operations /\ BoundOperation(i).id = i
<1>1. steps[i].terminal \in Answers(i)
  BY DEF Told, Asking, Stepping, Verified, Native
<1>2. steps[i].terminal # Failed /\ steps[i].terminal # Malformed
  <2>1. Outcome(i, Failed) = "generation_failed"
    BY DEF Outcome, Failed
  <2>2. Malformed.status # "failed" /\ Malformed.content = "malformed"
    BY DEF Malformed
  <2>3. Outcome(i, Malformed) = "invalid"
    BY <2>2 DEF Outcome
  <2> QED
    BY <2>1, <2>3 DEF Unavailable
<1>3. steps[i].terminal # Abstention
  BY DEF BoundOperation, Abstention
<1>4. PICK op \in Operations : op.id = i /\ steps[i].terminal = Answer(op)
  BY <1>1, <1>2, <1>3 DEF Answers
<1> QED
  BY <1>4 DEF BoundOperation, Answer

(* Taking the decision that the finished run proves. *)
LEMMA CommitDecisionKeeps ==
  ASSUME IInv, at \in {"decided", "restoring"}, UNCHANGED <<current, caller, creator>>,
         decisions[I] # None, ~ Unavailable(I), CommitDecision(I), OnlyRoute,
         at' = "settled" \/ (at' = "accepted" /\ decisions'[I].state = "accepted")
  PROVE  IInv'
<1>1. PICK i : i = I
  OBVIOUS
<1>2. UNCHANGED runs
  BY DEF CommitDecision
<1>3. UNCHANGED <<rows, steps, intents, receipts, requests, sends, residency, terminals, artifacts>>
  BY DEF OnlyRoute, flowVars, toolVars, modelVars, bridgeVars
<1>4. i \in StepIds /\ I' = i /\ Told(i)
  BY <1>1, <1>2, Here DEF StepPoints
<1> DEFINE state == IF runs[i][1] = "denied" THEN "denied"
                    ELSE IF BoundOperation(i) = None THEN "abstained" ELSE "accepted"
           row == [[decisions[i] EXCEPT !.admission = [verdict |-> runs[i][1]]]
                     EXCEPT !.state = state]
<1>5. /\ decisions[i] # None /\ decisions[i].state = "deciding" /\ Proven(i)
      /\ decisions' = [decisions EXCEPT ![i] = row]
  BY <1>1 DEF CommitDecision
<1>6. /\ DOMAIN decisions' = StepIds /\ DOMAIN runs' = StepIds /\ decisions'[i] = row
      /\ \A j \in StepIds : j # i => UNCHANGED <<decisions[j], runs[j]>>
  BY <1>2, <1>4, <1>5 DEF IInv, Shapes
<1>7. runs[i] \in {<<"accepted">>, <<"denied">>}
  <2>1. runs[i] \in {<<>>, <<"started">>, <<"accepted">>, <<"denied">>}
    BY <1>4 DEF Told, Deciding
  <2>2. Len(runs[i]) = 1 /\ runs[i][1] # "started"
    BY <1>5 DEF Proven
  <2> QED
    BY <2>1, <2>2
<1>8. state \in {"accepted", "abstained", "denied"}
  OBVIOUS
<1>9. state # "denied" => runs[i] = <<"accepted">>
  BY <1>7
<1>10. row.state = state /\ DOMAIN row = {"state", "admission", "effect"}
  BY <1>4, <1>5 DEF Told, Deciding
<1>11. row # None
  BY <1>10 DEF None
<1>12. state = "accepted" => BoundOperation(i) # None
  OBVIOUS
<1> HIDE DEF row, state
<1>13. /\ steps[i] # None /\ steps[i].state \notin {"allocated", "requesting"}
       /\ intents[i] = None /\ receipts[i] = None
  BY <1>4, <1>5 DEF Told, Deciding, Executing
<1>14. state = "accepted" => BoundOperation(i) \in Operations /\ BoundOperation(i).id = i
  BY <1>1, <1>4, <1>12, <1>13, BoundIsProposed
<1>15. Deciding(i)'
  <2>1. Unavailable(i)' = Unavailable(i) /\ BoundOperation(i)' = BoundOperation(i)
    BY <1>3 DEF Unavailable, BoundOperation
  <2>2. runs'[i] = runs[i] /\ decisions'[i] = row /\ steps'[i] = steps[i]
    BY <1>2, <1>3, <1>6
  <2>3. row.state \in Admitted => runs'[i] = <<"accepted">>
    BY <1>8, <1>9, <1>10, <2>2 DEF Admitted
  <2>4. row.state \in Admitted \ {"abstained"} => row.state = "accepted"
    BY <1>8, <1>10 DEF Admitted
  <2>5. runs'[i] \in {<<>>, <<"started">>, <<"accepted">>, <<"denied">>}
    BY <1>7, <2>2
  <2> QED
    BY <1>1, <1>8, <1>10, <1>11, <1>13, <1>14, <2>1, <2>2, <2>3, <2>4, <2>5 DEF Deciding
<1>16. Executing(i)'
  BY <1>3, <1>13 DEF Executing
<1>17. CallInv'
  BY <1>1, <1>2, <1>3, <1>4, <1>6, <1>11 DEF IInv, CallInv, StepPoints
<1> QED
  BY <1>1, <1>2, <1>6, <1>15, <1>16, <1>17, RouteGoesOn DEF StepPoints

(* The decision is taken in the call whose run proves it. *)
LEMMA DecidesKeeps == ASSUME IInv, Decides PROVE IInv'
<1>1. at = "decided" /\ decisions[I] # None /\ I \in StepIds /\ Told(I)
  <2>1. UNCHANGED current
    BY DEF Decides
  <2> QED
    BY <2>1, Here DEF Decides, IInv, CallInv, StepPoints
<1>2. ~ Unavailable(I)
  <2>1. Len(runs[I]) = 1
    BY DEF Decides, CommitDecision, Proven
  <2>2. runs[I] # <<>>
    BY <2>1
  <2> QED
    BY <1>1, <2>2 DEF Told, Deciding
<1>3. at' = "settled" \/ (at' = "accepted" /\ decisions'[I].state = "accepted")
  BY DEF Decides
<1> QED
  BY <1>1, <1>2, <1>3, CommitDecisionKeeps DEF Decides

(* The decision is taken in a later call, from the run on record. *)
LEMMA RestoresDecisionKeeps == ASSUME IInv, RestoresDecision PROVE IInv'
BY CommitDecisionKeeps DEF RestoresDecision, Goes

(* The execution of an accepted operation is announced before any effect. *)
LEMMA BeginsExecutionKeeps == ASSUME IInv, BeginsExecution PROVE IInv'
<1>1. PICK i : i = I
  OBVIOUS
<1>2. /\ at = "accepted" /\ at' = "executing" /\ UNCHANGED <<current, caller, creator>>
      /\ OnlyRoute /\ UNCHANGED runs
  BY DEF BeginsExecution, BeginExecution, Goes
<1>3. UNCHANGED <<rows, steps, intents, receipts, requests, sends, residency, terminals, artifacts>>
  BY <1>2 DEF OnlyRoute, flowVars, toolVars, modelVars, bridgeVars
<1>4. i \in StepIds /\ I' = i /\ Told(i)
  BY <1>1, <1>2, Here DEF StepPoints
<1> DEFINE row == [decisions[i] EXCEPT !.state = "executing"]
<1>5. /\ decisions[i] # None /\ decisions[i].state = "accepted" /\ NoEffect(i)
      /\ decisions' = [decisions EXCEPT ![i] = row]
  BY <1>1, <1>2 DEF BeginsExecution, BeginExecution, IInv, CallInv
<1>6. /\ DOMAIN decisions' = StepIds /\ DOMAIN runs' = StepIds /\ decisions'[i] = row
      /\ \A j \in StepIds : j # i => UNCHANGED <<decisions[j], runs[j]>>
  BY <1>2, <1>4, <1>5 DEF IInv, Shapes
<1>7. row.state = "executing" /\ DOMAIN row = {"state", "admission", "effect"}
  BY <1>4, <1>5 DEF Told, Deciding
<1>8. row # None
  BY <1>7 DEF None
<1> HIDE DEF row
<1>9. Deciding(i)'
  <2>1. Unavailable(i)' = Unavailable(i) /\ BoundOperation(i)' = BoundOperation(i)
    BY <1>3 DEF Unavailable, BoundOperation
  <2> QED
    BY <1>2, <1>3, <1>4, <1>5, <1>6, <1>7, <1>8, <2>1 DEF Told, Deciding, Admitted
<1>10. Executing(i)'
  BY <1>3, <1>5 DEF Executing, NoEffect
<1>11. CallInv'
  BY <1>1, <1>2, <1>3, <1>4, <1>6, <1>7, <1>8 DEF IInv, CallInv, StepPoints
<1> QED
  BY <1>1, <1>2, <1>6, <1>9, <1>10, <1>11, RouteGoesOn DEF StepPoints

(* The decision takes the outcome that the host step has. *)
LEMMA CommitsEffectKeeps == ASSUME IInv, CommitsEffect PROVE IInv'
<1>1. PICK i : i = I
  OBVIOUS
<1>2. /\ at = "observed" /\ at' = "settled" /\ UNCHANGED <<current, caller, creator>>
      /\ OnlyRoute /\ UNCHANGED runs
  BY DEF CommitsEffect, CommitEffect, Goes
<1>3. UNCHANGED <<rows, steps, intents, receipts, requests, sends, residency, terminals, artifacts>>
  BY <1>2 DEF OnlyRoute, flowVars, toolVars, modelVars, bridgeVars
<1>4. i \in StepIds /\ I' = i /\ Told(i)
  BY <1>1, <1>2, Here DEF StepPoints
<1> DEFINE row == [[decisions[i] EXCEPT !.state = EffectStatus(receipts[i])]
                     EXCEPT !.effect = receipts[i]]
<1>5. /\ decisions[i] # None /\ decisions[i].state = "executing" /\ Receipted(i)
      /\ decisions' = [decisions EXCEPT ![i] = row]
  BY <1>1, <1>2 DEF CommitsEffect, CommitEffect, IInv, CallInv
<1>6. /\ DOMAIN decisions' = StepIds /\ DOMAIN runs' = StepIds /\ decisions'[i] = row
      /\ \A j \in StepIds : j # i => UNCHANGED <<decisions[j], runs[j]>>
  BY <1>2, <1>4, <1>5 DEF IInv, Shapes
<1>7. row.state = EffectStatus(receipts[i]) /\ DOMAIN row = {"state", "admission", "effect"}
  BY <1>4, <1>5 DEF Told, Deciding
<1>8. row # None /\ row.state \in {"applied", "rejected"} /\ row.state = steps[i].state
  BY <1>5, <1>7 DEF None, EffectStatus, Receipted
<1> HIDE DEF row
<1>9. Deciding(i)'
  <2>1. Unavailable(i)' = Unavailable(i) /\ BoundOperation(i)' = BoundOperation(i)
    BY <1>3 DEF Unavailable, BoundOperation
  <2> QED
    BY <1>2, <1>3, <1>4, <1>5, <1>6, <1>7, <1>8, <2>1 DEF Told, Deciding, Admitted
<1>10. Executing(i)'
  <2>1. BoundOperation(i)' = BoundOperation(i)
    BY <1>3 DEF BoundOperation
  <2> QED
    BY <1>3, <1>4, <1>6, <1>8, <2>1 DEF Told, Executing
<1>11. CallInv'
  BY <1>1, <1>2, <1>3, <1>4, <1>6, <1>7, <1>8 DEF IInv, CallInv, StepPoints
<1> QED
  BY <1>1, <1>2, <1>6, <1>9, <1>10, <1>11, RouteGoesOn DEF StepPoints
-----------------------------------------------------------------------------
(* The executor of the tool *)

(* Only the intent and the receipt of the step the call executes change. *)
LEMMA ToolGoesOn ==
  ASSUME IInv, NEW i, i = I, at \in StepPoints, at' \in {"applying", "reconciling"},
         UNCHANGED <<current, caller, creator>>, OnlyTool,
         decisions[i] # None, decisions[i].state = "executing",
         DOMAIN intents' = StepIds, DOMAIN receipts' = StepIds,
         DOMAIN pc' = {Executor}, DOMAIN held' = {Executor}, DOMAIN receipt' = {Executor},
         \A j \in StepIds : j # i => UNCHANGED <<intents[j], receipts[j]>>,
         receipts[i] # None => UNCHANGED receipts[i],
         Executing(i)', ExecutorInv'
  PROVE  IInv'
<1>1. i \in StepIds /\ I' = i /\ Told(i)
  BY Here
<1>2. /\ UNCHANGED <<rows, lifecycle, residency, terminals, loaded, steps, decisions, runs>>
      /\ UNCHANGED <<requests, artifacts, sends>>
  BY DEF OnlyTool, flowVars, routeVars, modelVars, bridgeVars
<1>3. Shapes' /\ \A j \in StepIds : j # i => Same(j)
  BY <1>2 DEF IInv, Shapes, Same
<1>4. Told(i)'
  <2>1. Asking(i)'
    BY <1>1, <1>2 DEF Told, Asking, Requested, Answers
  <2>2. Stepping(i)'
    BY <1>1, <1>2 DEF Told, Stepping, Verified, Native, Requested
  <2>3. Deciding(i)'
    BY <1>1, <1>2 DEF Told, Deciding, Unavailable, BoundOperation
  <2> QED
    BY <2>1, <2>2, <2>3 DEF Told
<1>5. CallInv'
  BY <1>1, <1>2 DEF IInv, CallInv, StepPoints
<1> QED
  BY <1>2, <1>3, <1>4, <1>5, CallGoesOn DEF StepPoints

(* The operation that is executed is the one bound to the step. *)
LEMMA ExecutedOperation ==
  ASSUME IInv, NEW i \in StepIds,
         \/ decisions[i] # None /\ decisions[i].state = "executing"
         \/ intents[i] # None
         \/ receipts[i] # None
  PROVE  /\ BoundOperation(i) \in Operations /\ BoundOperation(i).id = i
         /\ i \in Tool!Ids
         /\ intents[i] # None => intents[i].op = BoundOperation(i)
         /\ receipts[i] # None => intents[i] # None /\ receipts[i].op = BoundOperation(i)
<1>1. Told(i)
  BY DEF IInv, StepInv
<1>2. /\ intents[i] # None => intents[i].op = BoundOperation(i)
      /\ receipts[i] # None => intents[i] # None /\ receipts[i].op = BoundOperation(i)
  BY <1>1 DEF Told, Executing
<1>3. decisions[i] # None /\ decisions[i].state \in {"executing", "applied", "rejected"}
  BY <1>1, <1>2 DEF Told, Executing
<1>4. BoundOperation(i) \in Operations /\ BoundOperation(i).id = i
  BY <1>1, <1>3 DEF Told, Deciding, Admitted
<1> QED
  BY <1>2, <1>4 DEF Tool!Ids

(* What is on record for an operation is on record under its own identity. *)
LEMMA OwnRecord ==
  ASSUME IInv, NEW i \in StepIds, i \in Tool!Ids, NEW table, table \in {intents, receipts},
         Tool!Replays(table, BoundOperation(i)), BoundOperation(i).id = i
  PROVE  (Tool!Previous(table, BoundOperation(i)) # {}) <=> table[i] # None
<1> DEFINE op == BoundOperation(i)
<1>1. Tool!None = None
  BY DEF Tool!None, None
<1>2. table[i] # None => i \in Tool!Previous(table, op)
  BY <1>1 DEF Tool!Previous
<1>3. ASSUME NEW j \in Tool!Previous(table, op) PROVE table[i] # None
  <2>1. j \in Tool!Ids /\ table[j] # None /\ table[j].op = op
    BY <1>1 DEF Tool!Previous, Tool!Replays
  <2>2. j \in StepIds
    BY <2>1, BindingAssumption DEF Tool!Ids
  <2>3. table[j].op = BoundOperation(j) /\ BoundOperation(j).id = j
    BY <2>1, <2>2, ExecutedOperation
  <2> QED
    BY <2>1, <2>3
<1> QED
  BY <1>2, <1>3

(* The executor takes the operation of the step, new or already journaled. *)
LEMMA ExecutesKeeps == ASSUME IInv, Executes PROVE IInv'
<1>1. PICK i : i = I
  OBVIOUS
<1> DEFINE op == BoundOperation(i)
<1>2. /\ at = "executing" /\ at' = "applying" /\ UNCHANGED <<current, caller, creator>>
      /\ OnlyTool
      /\ Tool!Execute(Executor, op) \/ Tool!ExecuteAgain(Executor, op)
  BY <1>1 DEF Executes, Goes
<1>3. i \in StepIds /\ I' = i /\ Told(i)
  BY <1>1, <1>2, Here DEF StepPoints
<1>4. /\ UNCHANGED <<decisions, steps, receipts>> /\ BoundOperation(i)' = op
      /\ decisions[i] # None /\ decisions[i].state = "executing"
  BY <1>1, <1>2 DEF IInv, CallInv, OnlyTool, routeVars, BoundOperation, Tool!Execute,
                    Tool!ExecuteAgain, Tool!toolVars
<1>5. op \in Operations /\ op.id = i /\ i \in Tool!Ids
  BY <1>3, <1>4, ExecutedOperation
<1>6. Tool!None = None
  BY DEF Tool!None, None
<1>7. DOMAIN pc = {Executor} /\ DOMAIN held = {Executor} /\ DOMAIN receipt = {Executor}
  BY DEF IInv, Shapes
<1> HIDE DEF op
<1>8. CASE Tool!Execute(Executor, op)
  <2> DEFINE new == [op |-> op, state |-> "pending", receipt |-> None]
  <2>1. /\ Tool!Previous(intents, op) = {}
        /\ intents' = [intents EXCEPT ![i] = new]
        /\ Tool!Takes(Executor, op, None)
    BY <1>5, <1>6, <1>8 DEF Tool!Execute
  <2>2. intents[i] = None
    BY <1>5, <1>6, <2>1 DEF Tool!Previous
  <2>3. /\ DOMAIN intents' = StepIds /\ intents'[i] = new /\ DOMAIN receipts' = StepIds
        /\ \A j \in StepIds : j # i => UNCHANGED <<intents[j], receipts[j]>>
    BY <1>3, <1>4, <2>1 DEF IInv, Shapes
  <2>4. new # None
    BY DEF None
  <2>5. /\ pc'[Executor] = "looking up" /\ held'[Executor] = op
        /\ DOMAIN pc' = {Executor} /\ DOMAIN held' = {Executor} /\ DOMAIN receipt' = {Executor}
    BY <1>6, <1>7, <2>1 DEF Tool!Takes
  <2>6. receipts[i] = None
    BY <1>3, <2>2 DEF Told, Executing
  <2>7. Executing(i)'
    BY <1>3, <1>4, <2>3, <2>4, <2>6 DEF Executing, op
  <2>8. ExecutorInv'
    BY <1>2, <1>3, <1>4, <2>3, <2>4, <2>5 DEF ExecutorInv
  <2> QED
    BY <1>1, <1>2, <1>4, <2>3, <2>5, <2>6, <2>7, <2>8, ToolGoesOn DEF StepPoints
<1>9. CASE Tool!ExecuteAgain(Executor, op)
  <2>1. /\ Tool!Previous(intents, op) # {} /\ Tool!Replays(intents, op)
        /\ UNCHANGED intents /\ Tool!Takes(Executor, op, intents[i].receipt)
    BY <1>5, <1>9 DEF Tool!ExecuteAgain
  <2>2. intents[i] # None
    BY <1>3, <1>5, <2>1, OwnRecord DEF op
  <2>3. intents[i].receipt # None => intents[i].receipt = receipts[i]
    BY <1>3, <2>2 DEF Told, Executing
  <2>4. /\ pc'[Executor] = IF intents[i].receipt = None THEN "looking up" ELSE "recording"
        /\ held'[Executor] = op /\ receipt'[Executor] = intents[i].receipt
        /\ DOMAIN pc' = {Executor} /\ DOMAIN held' = {Executor} /\ DOMAIN receipt' = {Executor}
    BY <1>6, <1>7, <2>1 DEF Tool!Takes
  <2>5. Executing(i)'
    BY <1>3, <1>4, <2>1 DEF Told, Executing, op
  <2>6. ExecutorInv'
    BY <1>2, <1>3, <1>4, <2>1, <2>2, <2>3, <2>4 DEF ExecutorInv
  <2>7. /\ DOMAIN intents' = StepIds /\ DOMAIN receipts' = StepIds
        /\ \A j \in StepIds : j # i => UNCHANGED <<intents[j], receipts[j]>>
        /\ UNCHANGED receipts[i]
    BY <1>4, <2>1 DEF IInv, Shapes
  <2> QED
    BY <1>1, <1>2, <1>4, <2>4, <2>5, <2>6, <2>7, ToolGoesOn DEF StepPoints
<1> QED
  BY <1>2, <1>8, <1>9

(* Each step of the executor is about the operation of the step; what it reads
   or writes is the one receipt of it. *)
LEMMA ReconcilesKeeps == ASSUME IInv, Reconciles PROVE IInv'
<1>1. PICK i : i = I
  OBVIOUS
<1> DEFINE op == BoundOperation(i)
<1>2. /\ at = "applying" /\ UNCHANGED <<current, caller, creator>> /\ OnlyTool
      /\ at' = (IF pc'[Executor] = "idle" THEN "reconciling" ELSE "applying")
      /\ Tool!Reconciles(Executor)
  BY DEF Reconciles
<1>3. i \in StepIds /\ I' = i /\ Told(i)
  BY <1>1, <1>2, Here DEF StepPoints
<1>4. /\ UNCHANGED <<decisions, steps>> /\ BoundOperation(i)' = op
      /\ decisions[i] # None /\ decisions[i].state = "executing"
  BY <1>1, <1>2 DEF IInv, CallInv, OnlyTool, routeVars, BoundOperation
<1>5. op \in Operations /\ op.id = i /\ i \in Tool!Ids
  BY <1>3, <1>4, ExecutedOperation
<1>6. Tool!None = None
  BY DEF Tool!None, None
<1>7. /\ DOMAIN pc = {Executor} /\ DOMAIN held = {Executor} /\ DOMAIN receipt = {Executor}
      /\ DOMAIN intents = StepIds /\ DOMAIN receipts = StepIds
  BY DEF IInv, Shapes
<1>8. pc[Executor] # "idle" => held[Executor] = op /\ intents[i] # None
  BY <1>1 DEF IInv, ExecutorInv
<1>9. intents[i] # None =>
        /\ DOMAIN intents[i] = {"op", "state", "receipt"} /\ intents[i].op = op
        /\ intents[i].receipt # None => intents[i].receipt = receipts[i]
        /\ intents[i].state = "complete" => intents[i].receipt # None
  BY <1>3 DEF Told, Executing
<1>10. receipts[i] # None => intents[i] # None /\ receipts[i].op = intents[i].op
  BY <1>3 DEF Told, Executing
<1> HIDE DEF op
<1>11. CASE Tool!Lookup(Executor)
  <2>1. /\ pc[Executor] = "looking up" /\ held[Executor] = op /\ intents[i] # None
        /\ UNCHANGED <<intents, receipts, held>>
        /\ receipt' = [receipt EXCEPT ![Executor] = receipts[i]]
        /\ pc' = [pc EXCEPT ![Executor] =
                    IF receipts[i] = None THEN "applying" ELSE "recording"]
    BY <1>5, <1>6, <1>8, <1>11 DEF Tool!Lookup, Tool!toolVars
  <2>2. /\ pc'[Executor] = IF receipts[i] = None THEN "applying" ELSE "recording"
        /\ receipt'[Executor] = receipts[i]
        /\ DOMAIN pc' = {Executor} /\ DOMAIN held' = {Executor} /\ DOMAIN receipt' = {Executor}
    BY <1>7, <2>1
  <2>3. at' = "applying"
    BY <1>2, <2>2
  <2>4. Executing(i)'
    BY <1>3, <1>4, <2>1 DEF Told, Executing, op
  <2>5. ExecutorInv'
    BY <1>3, <1>4, <2>1, <2>2, <2>3 DEF ExecutorInv
  <2> QED
    BY <1>1, <1>2, <1>4, <1>7, <2>1, <2>2, <2>3, <2>4, <2>5, ToolGoesOn DEF StepPoints
<1>12. CASE Tool!Apply(Executor)
  <2>1. /\ pc[Executor] = "applying" /\ held[Executor] = op /\ intents[i] # None
        /\ Tool!Replays(receipts, op) /\ UNCHANGED <<intents, held>>
        /\ IF Tool!Previous(receipts, op) # {} THEN UNCHANGED receipts ELSE Tool!Effect(op)
        /\ receipt' = [receipt EXCEPT ![Executor] = receipts'[i]]
        /\ pc' = [pc EXCEPT ![Executor] = "recording"]
    BY <1>5, <1>8, <1>12 DEF Tool!Apply, Tool!toolVars
  <2>2. (Tool!Previous(receipts, op) # {}) <=> receipts[i] # None
    BY <1>3, <1>5, <2>1, OwnRecord DEF op
  <2>3. /\ DOMAIN receipts' = StepIds
        /\ \A j \in StepIds : j # i => UNCHANGED receipts[j]
        /\ receipts[i] # None => UNCHANGED receipts[i]
        /\ receipts'[i] # None /\ receipts'[i].op = op
    <3>1. CASE receipts[i] # None
      BY <1>7, <1>9, <1>10, <2>1, <2>2, <3>1
    <3>2. CASE receipts[i] = None
      <4>1. PICK code, after :
              receipts' = [receipts EXCEPT ![i] = Tool!Receipt(op, code, after)]
        BY <1>5, <2>1, <2>2, <3>2 DEF Tool!Effect
      <4>2. Tool!Receipt(op, code, after).op = op /\ Tool!Receipt(op, code, after) # None
        BY DEF Tool!Receipt, None
      <4> QED
        BY <1>3, <1>7, <3>2, <4>1, <4>2
    <3> QED
      BY <3>1, <3>2
  <2>4. /\ pc'[Executor] = "recording" /\ receipt'[Executor] = receipts'[i]
        /\ DOMAIN pc' = {Executor} /\ DOMAIN held' = {Executor} /\ DOMAIN receipt' = {Executor}
    BY <1>7, <2>1
  <2>5. at' = "applying"
    BY <1>2, <2>4
  <2>6. intents[i].receipt # None => receipts'[i] = intents[i].receipt
    BY <1>6, <1>9, <2>1, <2>3
  <2>7. Executing(i)'
    <3>1. decisions'[i] = decisions[i] /\ intents'[i] = intents[i]
      BY <1>4, <2>1
    <3> QED
      BY <1>4, <1>9, <2>1, <2>3, <2>6, <3>1 DEF Executing, op
  <2>8. ExecutorInv'
    BY <1>3, <1>4, <2>1, <2>3, <2>4, <2>5 DEF ExecutorInv
  <2> QED
    BY <1>1, <1>2, <1>4, <1>7, <2>1, <2>3, <2>4, <2>5, <2>7, <2>8, ToolGoesOn DEF StepPoints
<1>13. CASE Tool!RecordReceipt(Executor)
  <2> DEFINE new == [intents[i] EXCEPT !.receipt = receipt[Executor]]
  <2>1. /\ pc[Executor] = "recording" /\ held[Executor] = op /\ intents[i] # None
        /\ intents' = [intents EXCEPT ![i] = new]
        /\ pc' = [pc EXCEPT ![Executor] = "completing"]
        /\ UNCHANGED <<receipts, held, receipt>>
    BY <1>5, <1>8, <1>13 DEF Tool!RecordReceipt, Tool!toolVars
  <2>2. receipt[Executor] # None /\ receipt[Executor] = receipts[i]
    BY <1>1, <2>1 DEF IInv, ExecutorInv
  <2>3. /\ DOMAIN new = {"op", "state", "receipt"} /\ new.op = op
        /\ new.receipt = receipts[i] /\ new.receipt # None
    BY <1>9, <2>1, <2>2
  <2>4. new # None
    BY <2>3 DEF None
  <2>5. /\ DOMAIN intents' = StepIds /\ intents'[i] = new
        /\ \A j \in StepIds : j # i => UNCHANGED intents[j]
    BY <1>3, <1>7, <2>1
  <2>6. /\ pc'[Executor] = "completing"
        /\ DOMAIN pc' = {Executor} /\ DOMAIN held' = {Executor} /\ DOMAIN receipt' = {Executor}
    BY <1>7, <2>1
  <2>7. at' = "applying"
    BY <1>2, <2>6
  <2> HIDE DEF new
  <2>8. Executing(i)'
    BY <1>4, <1>9, <1>10, <2>1, <2>3, <2>4, <2>5 DEF Executing, op
  <2>9. ExecutorInv'
    BY <1>3, <1>4, <2>1, <2>3, <2>4, <2>5, <2>6, <2>7 DEF ExecutorInv
  <2> QED
    BY <1>1, <1>2, <1>4, <1>7, <2>1, <2>5, <2>6, <2>7, <2>8, <2>9, ToolGoesOn DEF StepPoints
<1>14. CASE Tool!Complete(Executor)
  <2> DEFINE new == [intents[i] EXCEPT !.state = "complete"]
  <2>1. /\ pc[Executor] = "completing" /\ intents[i] # None /\ intents[i].receipt # None
        /\ intents' = [intents EXCEPT ![i] = new]
        /\ Tool!Leaves(Executor) /\ UNCHANGED receipts
    BY <1>5, <1>6, <1>8, <1>14 DEF Tool!Complete, Tool!toolVars
  <2>2. /\ DOMAIN new = {"op", "state", "receipt"} /\ new.op = op
        /\ new.receipt = receipts[i] /\ new.receipt # None
    BY <1>9, <2>1
  <2>3. new # None
    BY <2>2 DEF None
  <2>4. /\ DOMAIN intents' = StepIds /\ intents'[i] = new
        /\ \A j \in StepIds : j # i => UNCHANGED intents[j]
    BY <1>3, <1>7, <2>1
  <2>5. /\ pc'[Executor] = "idle"
        /\ DOMAIN pc' = {Executor} /\ DOMAIN held' = {Executor} /\ DOMAIN receipt' = {Executor}
    BY <1>7, <2>1 DEF Tool!Leaves
  <2>6. at' = "reconciling"
    BY <1>2, <2>5
  <2> HIDE DEF new
  <2>7. Executing(i)'
    BY <1>4, <1>9, <1>10, <2>1, <2>2, <2>3, <2>4 DEF Executing, op
  <2>8. ExecutorInv'
    BY <2>5, <2>6 DEF ExecutorInv
  <2> QED
    BY <1>1, <1>2, <1>4, <1>7, <2>1, <2>4, <2>5, <2>6, <2>7, <2>8, ToolGoesOn DEF StepPoints
<1> QED
  BY <1>2, <1>11, <1>12, <1>13, <1>14 DEF Tool!Reconciles
-----------------------------------------------------------------------------
(* What the flow, the residency and the ends of calls leave alone *)

(* No step changes when none of its files does and the residency is not held
   for one. *)
LEMMA StepsLeft ==
  ASSUME IInv,
         UNCHANGED <<steps, requests, artifacts, sends, terminals, decisions, runs,
                     intents, receipts>>,
         residency' = residency \/ residency.state # "generating"
  PROVE  StepInv'
<1>1. \A j \in StepIds : Same(j)
  BY DEF Same
<1>2. \A j \in StepIds : sends[j] = 1 /\ terminals[j] = Model!NoReceipt =>
        residency = [state |-> "generating", request |-> j]
  BY DEF IInv, StepInv, Told, Asking
<1>3. \A j \in StepIds : sends[j] = 1 /\ terminals[j] = Model!NoReceipt =>
        residency.state = "generating"
  BY <1>2
<1> QED
  BY <1>1, <1>3, SameTold DEF IInv, StepInv

(* At the other boundaries a call has nothing to rely on. *)
LEMMA NoStep == ASSUME at' \notin StepPoints PROVE CallInv'
BY DEF CallInv, StepPoints


(* A call that works on a step and only moves on. *)
LEMMA OnlyMoves ==
  ASSUME IInv, at \in StepPoints \ {"applying"}, at' \in StepPoints,
         UNCHANGED <<current, caller, creator>>, OnlyCall, CallInv'
  PROVE  IInv'
<1>1. PICK i : i = I
  OBVIOUS
<1>2. /\ UNCHANGED <<rows, lifecycle, residency, terminals, loaded, steps, decisions, runs>>
      /\ UNCHANGED <<receipts, intents, pc, held, receipt, requests, artifacts, sends>>
  BY DEF OnlyCall, OnlyFlow, flowVars, toolVars, modelVars, bridgeVars, routeVars
<1>3. Shapes' /\ \A j \in StepIds : Same(j)
  BY <1>2 DEF IInv, Shapes, Same
<1>4. i \in StepIds /\ Told(i)
  BY <1>1, Here
<1>5. Told(i)'
  BY <1>2, <1>3, <1>4, SameTold
<1>6. ExecutorInv'
  BY <1>2, ExecutorKept DEF IInv
<1> QED
  BY <1>1, <1>2, <1>3, <1>5, <1>6, CallGoesOn

(* An announced execution is taken up again. *)
LEMMA RestoresExecutionKeeps == ASSUME IInv, RestoresExecution PROVE IInv'
<1>1. /\ at = "restoring" /\ at' = "executing" /\ UNCHANGED <<current, caller, creator>>
      /\ decisions[I] # None /\ decisions[I].state = "executing" /\ OnlyCall
  BY DEF RestoresExecution, Goes
<1>2. UNCHANGED <<decisions, rows>>
  BY <1>1 DEF OnlyCall, OnlyFlow, routeVars, flowVars
<1>3. CallInv'
  BY <1>1, <1>2, Here DEF IInv, CallInv, StepPoints
<1> QED
  BY <1>1, <1>3, OnlyMoves DEF StepPoints

(* A decision that was already taken is only reported. *)
LEMMA RestoresOutcomeKeeps == ASSUME IInv, RestoresOutcome PROVE IInv'
<1>1. /\ at = "restoring" /\ at' = "settled" /\ UNCHANGED <<current, caller, creator>>
      /\ decisions[I] # None /\ OnlyCall
  BY DEF RestoresOutcome, Goes
<1>2. UNCHANGED <<decisions, rows>>
  BY <1>1 DEF OnlyCall, OnlyFlow, routeVars, flowVars
<1>3. CallInv'
  BY <1>1, <1>2, Here DEF IInv, CallInv, StepPoints
<1> QED
  BY <1>1, <1>3, OnlyMoves DEF StepPoints

-----------------------------------------------------------------------------
(* The residency *)

(* The residency changes where no request is under way. *)
LEMMA ModelGoesOn ==
  ASSUME IInv, OnlyModel, UNCHANGED terminals, at \notin StepPoints, at' \notin StepPoints,
         residency' = residency \/ residency.state # "generating",
         DOMAIN residency' = {"state", "request"}, LifecycleInv'
  PROVE  IInv'
<1>1. /\ UNCHANGED <<rows, lifecycle, steps, decisions, runs, receipts, intents>>
      /\ UNCHANGED <<pc, held, receipt, requests, artifacts, sends>>
  BY DEF OnlyModel, flowVars, toolVars, bridgeVars, routeVars
<1>2. Shapes'
  BY <1>1 DEF IInv, Shapes
<1>3. StepInv'
  BY <1>1, StepsLeft
<1>4. RowsInv'
  BY <1>1, RowsLeft DEF IInv
<1>5. ExecutorInv'
  BY <1>1, ExecutorKept DEF IInv, StepPoints
<1> QED
  BY <1>2, <1>3, <1>4, <1>5, NoStep DEF IInv

(* The load is announced. *)
LEMMA StartKeeps == ASSUME IInv, Start PROVE IInv'
<1>1. /\ lifecycle = "none" /\ at = "idle" /\ at' = "loading" /\ residency.state = "new"
      /\ residency' = [residency EXCEPT !.state = "loading"]
      /\ UNCHANGED <<terminals, loaded>> /\ OnlyModel
  BY DEF Start, Begins, Model!StartLoading, Model!To
<1>2. residency'.state = "loading" /\ DOMAIN residency' = {"state", "request"}
  BY <1>1 DEF IInv, Shapes
<1>3. UNCHANGED <<rows, lifecycle>>
  BY <1>1 DEF OnlyModel, flowVars
<1>4. LifecycleInv'
  BY <1>1, <1>2, <1>3 DEF IInv, LifecycleInv, ClosingPoints
<1> QED
  BY <1>1, <1>2, <1>4, ModelGoesOn DEF StepPoints

(* The server loads the instance while the residency says that it loads. *)
LEMMA LoadsKeeps == ASSUME IInv, Loads PROVE IInv'
<1>1. /\ at = "loading" /\ at' = "loaded" /\ UNCHANGED <<residency, terminals>> /\ OnlyModel
  BY DEF Loads, Goes, Model!ServerLoads
<1>2. residency.state = "loading" /\ DOMAIN residency = {"state", "request"}
  BY <1>1 DEF IInv, LifecycleInv, Shapes
<1>3. UNCHANGED <<rows, lifecycle>>
  BY <1>1 DEF OnlyModel, flowVars
<1>4. LifecycleInv'
  BY <1>1, <1>2, <1>3 DEF IInv, LifecycleInv, ClosingPoints
<1> QED
  BY <1>1, <1>2, <1>4, ModelGoesOn DEF StepPoints

(* The load is recorded. *)
LEMMA RecordsLoadKeeps == ASSUME IInv, RecordsLoad PROVE IInv'
<1>1. PICK contextMatches \in BOOLEAN : Model!RecordLoad(contextMatches)
  BY DEF RecordsLoad
<1>2. /\ at = "loaded" /\ at' = "idle" /\ residency.state = "loading"
      /\ residency' = [residency EXCEPT
           !.state = IF contextMatches THEN "ready" ELSE "loaded_invalid"]
      /\ UNCHANGED <<terminals, loaded>> /\ OnlyModel
  BY <1>1 DEF RecordsLoad, Ends, Model!RecordLoad, Model!To
<1>3. /\ residency'.state \in {"ready", "loaded_invalid"}
      /\ DOMAIN residency' = {"state", "request"}
  BY <1>2 DEF IInv, Shapes
<1>4. UNCHANGED <<rows, lifecycle>>
  BY <1>2 DEF OnlyModel, flowVars
<1>5. LifecycleInv'
  BY <1>2, <1>3, <1>4 DEF IInv, LifecycleInv, ClosingPoints
<1> QED
  BY <1>2, <1>3, <1>5, ModelGoesOn DEF StepPoints

(* The unload is announced. *)
LEMMA BeginsUnloadingKeeps == ASSUME IInv, BeginsUnloading PROVE IInv'
<1>1. /\ at = "unloading" /\ at' = "unload sent"
      /\ residency.state \in {"ready", "loaded_invalid"}
      /\ residency' = [residency EXCEPT !.state = "unloading"]
      /\ UNCHANGED <<terminals, loaded>> /\ OnlyModel
  BY DEF BeginsUnloading, Goes, Model!BeginUnloading, Model!To
<1>2. residency'.state = "unloading" /\ DOMAIN residency' = {"state", "request"}
  BY <1>1 DEF IInv, Shapes
<1>3. UNCHANGED <<rows, lifecycle>>
  BY <1>1 DEF OnlyModel, flowVars
<1>4. LifecycleInv'
  BY <1>1, <1>2, <1>3 DEF IInv, LifecycleInv, ClosingPoints
<1> QED
  BY <1>1, <1>2, <1>4, ModelGoesOn DEF StepPoints

(* The server may, or may not, drop the instance. *)
LEMMA UnloadsKeeps == ASSUME IInv, Unloads PROVE IInv'
<1>1. /\ at = "unload sent" /\ at' = "unload answered" /\ loaded' \subseteq loaded
      /\ UNCHANGED <<residency, terminals>> /\ OnlyModel
  BY DEF Unloads, Goes, Model!ServerUnloads
<1>2. DOMAIN residency = {"state", "request"}
  BY DEF IInv, Shapes
<1>3. UNCHANGED <<rows, lifecycle>>
  BY <1>1 DEF OnlyModel, flowVars
<1>4. LifecycleInv'
  BY <1>1, <1>3 DEF IInv, LifecycleInv, ClosingPoints
<1> QED
  BY <1>1, <1>2, <1>4, ModelGoesOn DEF StepPoints

(* The residency is closed when the catalog is empty. *)
LEMMA RecordsUnloadKeeps == ASSUME IInv, RecordsUnload PROVE IInv'
<1>1. /\ at = "unload answered" /\ at' = "unloaded"
      /\ residency.state = "unloading" /\ loaded = {}
      /\ residency' = [residency EXCEPT !.state = "closed"]
      /\ UNCHANGED <<terminals, loaded>> /\ OnlyModel
  BY DEF RecordsUnload, Goes, Model!RecordUnload, Model!To
<1>2. residency'.state = "closed" /\ DOMAIN residency' = {"state", "request"}
  BY <1>1 DEF IInv, Shapes
<1>3. UNCHANGED <<rows, lifecycle>>
  BY <1>1 DEF OnlyModel, flowVars
<1>4. LifecycleInv'
  BY <1>1, <1>2, <1>3 DEF IInv, LifecycleInv, ClosingPoints
<1> QED
  BY <1>1, <1>2, <1>4, ModelGoesOn DEF StepPoints

(* Others only load and drop their own instance. *)
LEMMA InterferesKeeps == ASSUME IInv, Interferes PROVE IInv'
<1>1. /\ UNCHANGED <<at, current, caller, creator, residency, terminals>> /\ OnlyModel
      /\ OwnInstance \in loaded' => OwnInstance \in loaded
  BY InstancesAssumption DEF Interferes, callVars, Model!OthersUseBackend
<1>2. /\ UNCHANGED <<rows, lifecycle, steps, decisions, runs, receipts, intents>>
      /\ UNCHANGED <<pc, held, receipt, requests, artifacts, sends>>
  BY <1>1 DEF OnlyModel, flowVars, toolVars, bridgeVars, routeVars
<1>3. Shapes'
  BY <1>1, <1>2 DEF IInv, Shapes
<1>4. StepInv'
  BY <1>1, <1>2, StepsLeft
<1>5. RowsInv'
  BY <1>2, RowsLeft DEF IInv
<1>6. I' = I
  BY <1>1 DEF I, Id
<1>7. ExecutorInv'
  BY <1>1, <1>2, <1>6 DEF IInv, ExecutorInv, BoundOperation
<1>8. CallInv'
  BY <1>1, <1>2, <1>6 DEF IInv, CallInv, Requested, Verified, Native
<1>9. LifecycleInv'
  BY <1>1, <1>2 DEF IInv, LifecycleInv
<1> QED
  BY <1>3, <1>4, <1>5, <1>7, <1>8, <1>9 DEF IInv
-----------------------------------------------------------------------------
(* The flow *)

(* The flow's own calls leave the steps, the model and the tool as they are. *)
LEMMA FlowGoesOn ==
  ASSUME IInv, OnlyFlow, at # "applying", DOMAIN rows' = Positions,
         RowsInv', CallInv', LifecycleInv'
  PROVE  IInv'
<1>1. /\ UNCHANGED <<residency, terminals, steps, decisions, runs, receipts, intents>>
      /\ UNCHANGED <<pc, held, receipt, requests, artifacts, sends>>
  BY DEF OnlyFlow, toolVars, modelVars, bridgeVars, routeVars
<1>2. Shapes'
  BY <1>1 DEF IInv, Shapes
<1>3. StepInv'
  BY <1>1, StepsLeft
<1>4. ExecutorInv'
  BY <1>1, ExecutorKept DEF IInv
<1> QED
  BY <1>2, <1>3, <1>4 DEF IInv

(* A flow is created with all of its rows pending. *)
LEMMA CreateKeeps == ASSUME IInv, Create PROVE IInv'
<1>1. /\ at = "idle" /\ at' = "idle" /\ lifecycle = "none" /\ lifecycle' = "open"
      /\ residency.state = "ready" /\ UNCHANGED rows /\ OnlyFlow
  BY DEF Create, callVars
<1>2. UNCHANGED <<residency, loaded, steps, decisions, receipts>>
  BY <1>1 DEF OnlyFlow, modelVars, routeVars, toolVars
<1>3. DOMAIN rows' = Positions
  BY <1>1 DEF IInv, Shapes
<1>4. RowsInv'
  BY <1>1, <1>2, RowsLeft DEF IInv
<1>5. LifecycleInv'
  BY <1>1, <1>2 DEF IInv, LifecycleInv, ClosingPoints
<1> QED
  BY <1>1, <1>3, <1>4, <1>5, NoStep, FlowGoesOn DEF StepPoints

(* The positions before one are positions of the plan. *)
LEMMA Earlier == \A k \in Positions : \A j \in 1 .. k - 1 : j \in Positions /\ j < k
BY PlanAssumption

(* A row is attempted when nothing before it is open: what is before it neither
   blocked it nor was given up, so that it was completed as the plan wants. *)
LEMMA RunNextKeeps == ASSUME IInv, RunNext PROVE IInv'
<1>1. PICK k \in Positions :
        /\ rows[k].state = "pending"
        /\ \A j \in 1 .. k - 1 : rows[j].state \notin {"pending", "attempted"}
        /\ Begins("creator", k, "attempted")
        /\ rows' = [rows EXCEPT ![k] = Row("attempted")]
  BY DEF RunNext
<1>2. /\ lifecycle = "open" /\ UNCHANGED lifecycle /\ OnlyFlow
      /\ at = "idle" /\ at' = "attempted" /\ current' = k
  BY <1>1 DEF RunNext, Begins
<1>3. UNCHANGED <<residency, loaded, steps, decisions, receipts>>
  BY <1>2 DEF OnlyFlow, modelVars, routeVars, toolVars
<1>4. /\ DOMAIN rows' = Positions /\ rows'[k].state = "attempted"
      /\ \A l \in Positions : l # k => rows'[l] = rows[l]
  BY <1>1 DEF IInv, Shapes, Row
<1>5. steps[Id(k)] = None
  BY <1>1 DEF IInv, RowsInv
<1>6. \A j \in Positions : j < k =>
        rows[j].state = "complete" /\ rows[j].result.state \in Plan[j].continue_on
  <2>1. ASSUME NEW j \in Positions, j < k
        PROVE  rows[j].state = "complete" /\ rows[j].result.state \in Plan[j].continue_on
    <3>1. j \in 1 .. k - 1
      BY <2>1, PlanAssumption
    <3>2. rows[j].state \in {"complete", "blocked", "unresolved"}
      BY <1>1, <3>1 DEF IInv, RowsInv
    <3>3. ~ (\/ rows[j].state \in {"blocked", "unresolved"}
             \/ rows[j].state = "complete" /\ rows[j].result.state \notin Plan[j].continue_on)
      BY <1>1, <2>1 DEF IInv, RowsInv
    <3> QED
      BY <3>2, <3>3
  <2> QED
    BY <2>1
<1>7. \A l \in Positions : l > k => rows[l].state \in {"pending", "blocked"}
  <2>1. ASSUME NEW l \in Positions, l > k PROVE rows[l].state \in {"pending", "blocked"}
    <3>1. k \in 1 .. l - 1
      BY <2>1, PlanAssumption
    <3>2. rows[l].state \notin {"attempted", "complete", "unresolved"}
      BY <1>1, <3>1 DEF IInv, RowsInv, PredecessorsContinue
    <3> QED
      BY <3>2 DEF IInv, RowsInv
  <2> QED
    BY <2>1
<1>8. PredecessorsContinue'
  <2>1. ASSUME NEW l \in Positions, rows'[l].state \in {"attempted", "complete", "unresolved"},
               NEW j \in 1 .. l - 1
        PROVE  rows'[j].state = "complete" /\ rows'[j].result.state \in Plan[j].continue_on
    <3>1. j \in Positions /\ j < l
      BY Earlier
    <3>2. CASE l = k
      BY <1>4, <1>6, <3>1, <3>2
    <3>3. CASE l # k
      <4>1. rows[l].state \in {"attempted", "complete", "unresolved"}
        BY <1>4, <2>1, <3>3
      <4>2. rows[j].state = "complete" /\ rows[j].result.state \in Plan[j].continue_on
        BY <4>1 DEF IInv, RowsInv, PredecessorsContinue
      <4>3. j # k
        BY <1>1, <4>2
      <4> QED
        BY <1>4, <3>1, <4>2, <4>3
    <3> QED
      BY <3>2, <3>3
  <2> QED
    BY <2>1 DEF PredecessorsContinue
<1>9. RowsInv'
  <2>1. \A l \in Positions :
          /\ rows'[l].state \in {"pending", "attempted", "complete", "blocked", "unresolved"}
          /\ rows'[l].state \in {"pending", "blocked"} => steps'[Id(l)] = None
          /\ rows'[l].state = "complete" =>
               /\ decisions'[Id(l)] # None
               /\ rows'[l].result.state = decisions'[Id(l)].state
               /\ rows'[l].result.state \in {"applied", "rejected"} <=>
                    receipts'[Id(l)] # None
    BY <1>3, <1>4 DEF IInv, RowsInv
  <2>2. \A j, l \in Positions :
          /\ j < l
          /\ \/ rows'[j].state \in {"blocked", "unresolved"}
             \/ rows'[j].state = "complete" /\ rows'[j].result.state \notin Plan[j].continue_on
          => rows'[l].state = "blocked"
    BY <1>1, <1>4 DEF IInv, RowsInv
  <2> QED
    BY <1>8, <2>1, <2>2 DEF RowsInv
<1>10. CallInv'
  BY <1>2, <1>3, <1>4, <1>5 DEF CallInv, StepPoints, I
<1>11. LifecycleInv'
  BY <1>2, <1>3 DEF IInv, LifecycleInv, ClosingPoints
<1> QED
  BY <1>2, <1>4, <1>9, <1>10, <1>11, FlowGoesOn

(* A recovery works on the one attempted row, and first records its answer. *)
LEMMA RecoversKeeps ==
  ASSUME IInv, NEW who \in Processes, Recovers(who)
  PROVE  IInv'
<1>1. PICK k \in Attempted :
        /\ Begins(who, k, "restoring") /\ Native(Id(k))
        /\ IF residency.state = "generating"
           THEN Model!RecordGeneration(Id(k), artifacts[Id(k)])
           ELSE Verified(Id(k)) /\ UNCHANGED modelVars
  BY DEF Recovers
<1>2. PICK i : i = Id(k)
  OBVIOUS
<1>3. /\ at = "idle" /\ at' = "restoring" /\ current' = k /\ I' = i
      /\ k \in Positions /\ rows[k].state = "attempted" /\ i \in StepIds
  BY <1>1, <1>2, IdsOfPositions DEF Begins, Attempted, I, Id
<1>4. /\ UNCHANGED <<rows, lifecycle, steps, decisions, runs, receipts, intents>>
      /\ UNCHANGED <<pc, held, receipt, requests, artifacts, sends>>
  BY DEF Recovers, OnlyModel, flowVars, toolVars, bridgeVars, routeVars
<1>5. UNCHANGED loaded
  BY <1>1 DEF Model!RecordGeneration, modelVars
<1>6. /\ StepInv' /\ Verified(i)' /\ DOMAIN terminals' = StepIds
      /\ DOMAIN residency' = {"state", "request"}
      /\ residency' = residency \/ residency'.state = "ready"
  <2>1. CASE residency.state = "generating"
    BY <1>1, <1>2, <1>3, <1>4, <1>5, <2>1, AnswerIsRecorded
  <2>2. CASE residency.state # "generating"
    <3>1. UNCHANGED <<residency, terminals>> /\ Verified(i)
      BY <1>1, <1>2, <2>2 DEF modelVars
    <3>2. StepInv'
      BY <1>4, <3>1, StepsLeft
    <3>3. Verified(i)'
      BY <1>4, <3>1 DEF Verified, Native, Requested
    <3> QED
      BY <3>1, <3>2, <3>3 DEF IInv, Shapes
  <2> QED
    BY <2>1, <2>2
<1>7. Shapes'
  BY <1>4, <1>6 DEF IInv, Shapes
<1>8. CallInv'
  BY <1>3, <1>4, <1>6 DEF CallInv, StepPoints
<1>9. ExecutorInv'
  BY <1>3, <1>4, ExecutorKept DEF IInv
<1>10. RowsInv'
  BY <1>4, RowsLeft DEF IInv
<1>11. LifecycleInv'
  BY <1>3, <1>4, <1>5, <1>6 DEF IInv, LifecycleInv, ClosingPoints
<1> QED
  BY <1>6, <1>7, <1>8, <1>9, <1>10, <1>11 DEF IInv

(* The row takes the outcome of its decision; if the plan does not continue on
   it, all that is after it, none of which has begun, is blocked. *)
LEMMA CompletesKeeps == ASSUME IInv, Completes PROVE IInv'
<1>1. PICK i : i = I
  OBVIOUS
<1>2. /\ at = "settled" /\ at' = "idle" /\ UNCHANGED lifecycle /\ OnlyFlow
      /\ decisions[i].state \in Settled /\ Reportable(i)
      /\ rows' = [k \in Positions |->
                    IF k = current THEN [state |-> "complete", result |-> Result(i)]
                    ELSE IF k > current /\ decisions[i].state \notin Plan[current].continue_on
                    THEN Row("blocked")
                    ELSE rows[k]]
  BY <1>1 DEF Completes, Ends
<1>3. UNCHANGED <<residency, loaded, steps, decisions, receipts>>
  BY <1>2 DEF OnlyFlow, modelVars, routeVars, toolVars
<1>4. PICK c \in Positions : c = current /\ i = Id(c)
  BY <1>1, <1>2 DEF IInv, CallInv, StepPoints, I
<1>5. rows[c].state = "attempted" /\ decisions[i] # None
  BY <1>1, <1>2, <1>4 DEF IInv, CallInv, StepPoints
<1>6. i \in StepIds /\ Told(i)
  BY <1>4, IdsOfPositions DEF IInv, StepInv
<1>7. decisions[i].state \in {"applied", "rejected"} <=> receipts[i] # None
  <2>1. CASE decisions[i].state \in {"applied", "rejected"}
    <3>1. /\ intents[i] # None /\ intents[i].state = "complete"
          /\ intents[i].receipt = receipts[i]
      BY <1>2, <2>1 DEF Reportable, Receipted
    <3> QED
      BY <1>6, <2>1, <3>1 DEF Told, Executing
  <2>2. CASE decisions[i].state \notin {"applied", "rejected"}
    BY <1>2, <2>2 DEF Reportable, NoEffect
  <2> QED
    BY <2>1, <2>2
<1> DEFINE stops == decisions[i].state \notin Plan[c].continue_on
<1>8. /\ DOMAIN rows' = Positions
      /\ rows'[c].state = "complete" /\ rows'[c].result.state = decisions[i].state
      /\ \A k \in Positions : k < c \/ (k # c /\ ~ stops) => rows'[k] = rows[k]
      /\ \A k \in Positions : k > c /\ stops => rows'[k].state = "blocked"
  <2>1. rows'[c] = [state |-> "complete", result |-> Result(i)]
    BY <1>2, <1>4
  <2>2. \A k \in Positions : k < c \/ (k # c /\ ~ stops) => rows'[k] = rows[k]
    BY <1>2, <1>4, PlanAssumption
  <2>3. \A k \in Positions : k > c /\ stops => rows'[k] = Row("blocked")
    BY <1>2, <1>4, PlanAssumption
  <2>4. Result(i).state = decisions[i].state
    BY DEF Result
  <2> QED
    BY <1>2, <2>1, <2>2, <2>3, <2>4 DEF Row
<1> HIDE DEF stops
<1>9. \A k \in Positions : k > c => rows[k].state \in {"pending", "blocked"}
  <2>1. ASSUME NEW k \in Positions, k > c PROVE rows[k].state \in {"pending", "blocked"}
    <3>1. c \in 1 .. k - 1
      BY <2>1, PlanAssumption
    <3>2. rows[k].state \notin {"attempted", "complete", "unresolved"}
      BY <1>5, <3>1 DEF IInv, RowsInv, PredecessorsContinue
    <3> QED
      BY <3>2 DEF IInv, RowsInv
  <2> QED
    BY <2>1
<1>10. \A k \in Positions : k < c \/ k = c \/ k > c
  BY PlanAssumption
<1>11. \A k \in Positions : k > c => ~ k < c /\ k # c
  BY PlanAssumption
<1>12. \A k \in Positions : k > c =>
         \/ rows'[k] = rows[k]
         \/ stops /\ rows'[k].state = "blocked"
  BY <1>8, <1>11
<1>13. \A l \in Positions :
         /\ rows'[l].state \in {"pending", "attempted", "complete", "blocked", "unresolved"}
         /\ rows'[l].state \in {"pending", "blocked"} => steps'[Id(l)] = None
         /\ rows'[l].state = "complete" =>
              /\ decisions'[Id(l)] # None
              /\ rows'[l].result.state = decisions'[Id(l)].state
              /\ rows'[l].result.state \in {"applied", "rejected"} <=>
                   receipts'[Id(l)] # None
  <2> SUFFICES ASSUME NEW l \in Positions
      PROVE
         /\ rows'[l].state \in {"pending", "attempted", "complete", "blocked", "unresolved"}
         /\ rows'[l].state \in {"pending", "blocked"} => steps'[Id(l)] = None
         /\ rows'[l].state = "complete" =>
              /\ decisions'[Id(l)] # None
              /\ rows'[l].result.state = decisions'[Id(l)].state
              /\ rows'[l].result.state \in {"applied", "rejected"} <=>
                   receipts'[Id(l)] # None
    OBVIOUS
  <2>1. CASE l = c
    BY <1>3, <1>4, <1>5, <1>7, <1>8, <2>1
  <2>2. CASE rows'[l] = rows[l]
    BY <1>3, <2>2 DEF IInv, RowsInv
  <2>3. CASE l > c /\ rows'[l].state = "blocked"
    BY <1>3, <1>9, <2>3 DEF IInv, RowsInv
  <2> QED
    BY <1>8, <1>10, <1>12, <2>1, <2>2, <2>3
<1>14. PredecessorsContinue'
  <2>1. ASSUME NEW l \in Positions, rows'[l].state \in {"attempted", "complete", "unresolved"},
               NEW j \in 1 .. l - 1
        PROVE  rows'[j].state = "complete" /\ rows'[j].result.state \in Plan[j].continue_on
    <3>1. j \in Positions /\ j < l
      BY Earlier
    <3>2. ~ l > c
      <4>1. ASSUME l > c PROVE FALSE
        BY <1>9, <1>12, <2>1, <4>1
      <4> QED
        BY <4>1
    <3>3. j < c
      BY <1>10, <3>1, <3>2, PlanAssumption
    <3>4. rows[l].state \in {"attempted", "complete", "unresolved"}
      BY <1>5, <1>8, <1>10, <2>1, <3>2
    <3>5. rows[j].state = "complete" /\ rows[j].result.state \in Plan[j].continue_on
      BY <3>4 DEF IInv, RowsInv, PredecessorsContinue
    <3> QED
      BY <1>8, <3>1, <3>3, <3>5
  <2> QED
    BY <2>1 DEF PredecessorsContinue
<1>15. \A j, l \in Positions :
         /\ j < l
         /\ \/ rows'[j].state \in {"blocked", "unresolved"}
            \/ rows'[j].state = "complete" /\ rows'[j].result.state \notin Plan[j].continue_on
         => rows'[l].state = "blocked"
  <2> SUFFICES ASSUME NEW j \in Positions, NEW l \in Positions, j < l,
        \/ rows'[j].state \in {"blocked", "unresolved"}
        \/ rows'[j].state = "complete" /\ rows'[j].result.state \notin Plan[j].continue_on
      PROVE rows'[l].state = "blocked"
    OBVIOUS
  <2>1. rows[l].state = "blocked" => rows'[l].state = "blocked"
    BY <1>5, <1>8, <1>10, <1>12
  <2>2. CASE j = c
    <3>1. stops
      BY <1>8, <2>2 DEF stops
    <3> QED
      BY <1>8, <2>2, <3>1, PlanAssumption
  <2>3. CASE rows'[j] = rows[j]
    <3>1. rows[l].state = "blocked"
      BY <2>3 DEF IInv, RowsInv
    <3> QED
      BY <2>1, <3>1
  <2>4. CASE j > c /\ stops
    <3>1. l > c
      BY <2>4, PlanAssumption
    <3> QED
      BY <1>8, <2>4, <3>1
  <2> QED
    BY <1>8, <1>10, <1>12, <2>2, <2>3, <2>4
<1>16. RowsInv'
  BY <1>13, <1>14, <1>15 DEF RowsInv
<1>17. LifecycleInv'
  BY <1>2, <1>3, <1>4, <1>5 DEF IInv, LifecycleInv, ClosingPoints
<1> QED
  BY <1>2, <1>8, <1>16, <1>17, NoStep, FlowGoesOn DEF StepPoints

(* What was attempted is given up, and what is pending behind it is blocked. *)
LEMMA FinishesRowsKeeps ==
  ASSUME IInv, NEW who \in Processes, FinishesRows(who)
  PROVE  IInv'
<1> DEFINE pending == {k \in Positions : rows[k].state = "pending"}
<1>1. /\ lifecycle # "none" /\ UNCHANGED lifecycle /\ OnlyFlow
      /\ at = "idle" /\ at' = "finishing"
      /\ rows' = [k \in Positions |->
                    IF k \in Attempted THEN Row("unresolved")
                    ELSE IF k \in pending THEN Row("blocked")
                    ELSE rows[k]]
  BY DEF FinishesRows, Begins
<1>2. UNCHANGED <<residency, loaded, steps, decisions, receipts>>
  BY <1>1 DEF OnlyFlow, modelVars, routeVars, toolVars
<1>3. /\ DOMAIN rows' = Positions
      /\ \A k \in Positions : rows[k].state = "attempted" => rows'[k].state = "unresolved"
      /\ \A k \in Positions : rows[k].state = "pending" => rows'[k].state = "blocked"
      /\ \A k \in Positions : rows[k].state \notin {"attempted", "pending"} =>
           rows'[k] = rows[k]
  BY <1>1 DEF Attempted, Row
<1>4. \A k \in Positions :
        /\ rows'[k].state \in {"complete", "blocked", "unresolved"}
        /\ rows'[k].state = "complete" => rows'[k] = rows[k]
        /\ rows'[k].state = "blocked" <=> rows[k].state \in {"pending", "blocked"}
        /\ rows'[k].state = "unresolved" => rows[k].state \in {"attempted", "unresolved"}
  BY <1>3 DEF IInv, RowsInv
<1>5. \A k \in Positions : rows[k].state = "complete" => rows'[k] = rows[k]
  BY <1>3
<1>6. PredecessorsContinue'
  <2>1. ASSUME NEW l \in Positions, rows'[l].state \in {"attempted", "complete", "unresolved"},
               NEW j \in 1 .. l - 1
        PROVE  rows'[j].state = "complete" /\ rows'[j].result.state \in Plan[j].continue_on
    <3>1. j \in Positions /\ j < l
      BY Earlier
    <3>2. rows[l].state \in {"attempted", "complete", "unresolved"}
      BY <1>4, <2>1
    <3>3. rows[j].state = "complete" /\ rows[j].result.state \in Plan[j].continue_on
      BY <3>2 DEF IInv, RowsInv, PredecessorsContinue
    <3> QED
      BY <1>5, <3>1, <3>3
  <2> QED
    BY <2>1 DEF PredecessorsContinue
<1>7. \A j, l \in Positions :
        /\ j < l
        /\ \/ rows'[j].state \in {"blocked", "unresolved"}
           \/ rows'[j].state = "complete" /\ rows'[j].result.state \notin Plan[j].continue_on
        => rows'[l].state = "blocked"
  <2> SUFFICES ASSUME NEW j \in Positions, NEW l \in Positions, j < l,
        \/ rows'[j].state \in {"blocked", "unresolved"}
        \/ rows'[j].state = "complete" /\ rows'[j].result.state \notin Plan[j].continue_on
      PROVE rows'[l].state = "blocked"
    OBVIOUS
  <2>1. CASE rows[j].state \in {"pending", "attempted"}
    <3>1. j \in 1 .. l - 1
      BY PlanAssumption
    <3>2. rows[l].state \notin {"attempted", "complete", "unresolved"}
      BY <2>1, <3>1 DEF IInv, RowsInv, PredecessorsContinue
    <3> QED
      BY <1>4, <3>2 DEF IInv, RowsInv
  <2>2. CASE rows[j].state \notin {"pending", "attempted"}
    <3>1. rows[l].state = "blocked"
      BY <1>3, <2>2 DEF IInv, RowsInv
    <3> QED
      BY <1>4, <3>1
  <2> QED
    BY <2>1, <2>2
<1>8. RowsInv'
  <2>1. \A l \in Positions :
          /\ rows'[l].state \in {"pending", "attempted", "complete", "blocked", "unresolved"}
          /\ rows'[l].state \in {"pending", "blocked"} => steps'[Id(l)] = None
          /\ rows'[l].state = "complete" =>
               /\ decisions'[Id(l)] # None
               /\ rows'[l].result.state = decisions'[Id(l)].state
               /\ rows'[l].result.state \in {"applied", "rejected"} <=>
                    receipts'[Id(l)] # None
    BY <1>2, <1>4 DEF IInv, RowsInv
  <2> QED
    BY <1>6, <1>7, <2>1 DEF RowsInv
<1>9. LifecycleInv'
  BY <1>1, <1>2, <1>4 DEF IInv, LifecycleInv, ClosingPoints
<1> QED
  BY <1>1, <1>3, <1>8, <1>9, NoStep, FlowGoesOn DEF StepPoints

(* A flow is closing only after its rows were finished. *)
LEMMA BeginsClosingKeeps == ASSUME IInv, BeginsClosing PROVE IInv'
<1>1. /\ at = "finishing" /\ at' \in {"unloaded", "unloading"} /\ UNCHANGED rows /\ OnlyFlow
      /\ lifecycle' = IF lifecycle = "open" THEN "closing" ELSE lifecycle
  BY DEF BeginsClosing, Goes
<1>2. UNCHANGED <<residency, loaded, steps, decisions, receipts>>
  BY <1>1 DEF OnlyFlow, modelVars, routeVars, toolVars
<1>3. RowsInv' /\ DOMAIN rows' = Positions
  BY <1>1, <1>2, RowsLeft DEF IInv, Shapes
<1>4. LifecycleInv'
  BY <1>1, <1>2 DEF IInv, LifecycleInv, ClosingPoints
<1> QED
  BY <1>1, <1>3, <1>4, NoStep, FlowGoesOn DEF StepPoints

(* And it is closed only after its model was given back. *)
LEMMA ClosesKeeps == ASSUME IInv, Closes PROVE IInv'
<1>1. /\ at = "unloaded" /\ at' = "idle" /\ UNCHANGED rows /\ OnlyFlow
      /\ residency.state = "closed"
      /\ lifecycle' = IF lifecycle = "none" THEN "none" ELSE "closed"
  BY DEF Closes, Ends
<1>2. UNCHANGED <<residency, loaded, steps, decisions, receipts>>
  BY <1>1 DEF OnlyFlow, modelVars, routeVars, toolVars
<1>3. RowsInv' /\ DOMAIN rows' = Positions
  BY <1>1, <1>2, RowsLeft DEF IInv, Shapes
<1>4. LifecycleInv'
  BY <1>1, <1>2 DEF IInv, LifecycleInv, ClosingPoints
<1> QED
  BY <1>1, <1>3, <1>4, NoStep, FlowGoesOn DEF StepPoints

(* Without a flow, an instance that is of no use is only given back. *)
LEMMA ReleasesKeeps == ASSUME IInv, Releases PROVE IInv'
<1>1. /\ at = "idle" /\ at' = "unloading" /\ lifecycle = "none" /\ OnlyFlow
      /\ UNCHANGED <<rows, lifecycle>>
  BY DEF Releases, Begins, OnlyCall, flowVars
<1>2. UNCHANGED <<residency, loaded, steps, decisions, receipts>>
  BY <1>1 DEF OnlyFlow, modelVars, routeVars, toolVars
<1>3. RowsInv' /\ DOMAIN rows' = Positions
  BY <1>1, <1>2, RowsLeft DEF IInv, Shapes
<1>4. LifecycleInv'
  BY <1>1, <1>2 DEF IInv, LifecycleInv, ClosingPoints
<1> QED
  BY <1>1, <1>3, <1>4, NoStep, FlowGoesOn DEF StepPoints

-----------------------------------------------------------------------------
(* How a call ends *)

(* A call may end at any boundary: what is durable does not say otherwise. *)
LEMMA EndsAnywhere ==
  ASSUME IInv, at' = "idle",
         UNCHANGED <<flowVars, modelVars, bridgeVars, steps, routeVars, receipts, intents>>,
         DOMAIN pc' = {Executor}, DOMAIN held' = {Executor}, DOMAIN receipt' = {Executor},
         pc'[Executor] = "idle"
  PROVE  IInv'
<1>1. /\ UNCHANGED <<rows, lifecycle, residency, terminals, loaded, steps, decisions, runs>>
      /\ UNCHANGED <<requests, artifacts, sends>>
  BY DEF flowVars, modelVars, bridgeVars, routeVars
<1>2. Shapes'
  BY <1>1 DEF IInv, Shapes
<1>3. StepInv'
  BY <1>1, StepsLeft
<1>4. RowsInv'
  BY <1>1, RowsLeft DEF IInv
<1>5. ExecutorInv'
  BY DEF ExecutorInv
<1>6. LifecycleInv'
  BY <1>1 DEF IInv, LifecycleInv, ClosingPoints
<1> QED
  BY <1>2, <1>3, <1>4, <1>5, <1>6, NoStep DEF IInv, StepPoints

(* A call that refuses to go on leaves everything as it is. *)
LEMMA RefusesKeeps == ASSUME IInv, Refuses PROVE IInv'
<1>1. /\ at # "applying" /\ at' = "idle" /\ UNCHANGED <<pc, held, receipt>>
      /\ UNCHANGED <<flowVars, modelVars, bridgeVars, steps, routeVars, receipts, intents>>
  BY DEF Refuses, Refused, Ends, OnlyCall, OnlyFlow, toolVars
<1> QED
  BY <1>1, EndsAnywhere DEF IInv, Shapes, ExecutorInv

(* An executor that leaves is idle. *)
LEMMA LeavesIdle ==
  ASSUME IInv, Tool!Leaves(Executor)
  PROVE  /\ DOMAIN pc' = {Executor} /\ DOMAIN held' = {Executor} /\ DOMAIN receipt' = {Executor}
         /\ pc'[Executor] = "idle"
BY DEF IInv, Shapes, Tool!Leaves

(* A call that fails, at any boundary. *)
LEMMA FailsKeeps == ASSUME IInv, Fails PROVE IInv'
BY LeavesIdle, EndsAnywhere DEF Fails, Ends, ExecutorLeaves

(* A step that changes none of the files and none of the calls. *)
LEMMA UnchangedKeeps == ASSUME IInv, UNCHANGED <<callVars, toolVars, flowVars, modelVars,
                                                 bridgeVars, steps, routeVars>>
                        PROVE IInv'
<1>1. /\ UNCHANGED <<at, current, rows, lifecycle, residency, terminals, loaded, steps>>
      /\ UNCHANGED <<decisions, runs, receipts, intents, pc, held, receipt>>
      /\ UNCHANGED <<requests, artifacts, sends>>
  BY DEF callVars, toolVars, flowVars, modelVars, bridgeVars, routeVars
<1>2. Shapes'
  BY <1>1 DEF IInv, Shapes
<1>3. StepInv'
  BY <1>1, StepsLeft
<1>4. RowsInv'
  BY <1>1, RowsLeft DEF IInv
<1>5. I' = I
  BY <1>1 DEF I, Id
<1>6. ExecutorInv'
  BY <1>1, <1>5 DEF IInv, ExecutorInv, BoundOperation
<1>7. CallInv'
  BY <1>1, <1>5 DEF IInv, CallInv, Requested, Verified, Native
<1>8. LifecycleInv'
  BY <1>1 DEF IInv, LifecycleInv
<1> QED
  BY <1>2, <1>3, <1>4, <1>6, <1>7, <1>8 DEF IInv

(* The process of a call stops, or one that makes no call. *)
LEMMA CreatorStopsKeeps == ASSUME IInv, CreatorStops PROVE IInv'
<1>1. CASE Ends /\ ExecutorLeaves
  BY <1>1, LeavesIdle, EndsAnywhere DEF CreatorStops, Ends, ExecutorLeaves
<1>2. CASE UNCHANGED <<callVars, toolVars>>
  BY <1>2, UnchangedKeeps DEF CreatorStops
<1> QED
  BY <1>1, <1>2 DEF CreatorStops

-----------------------------------------------------------------------------

(* The invariant holds before the flow is created. *)
LEMMA InitHolds == ASSUME Init PROVE IInv
<1>1. Shapes
  BY DEF Init, Shapes, Model!ResidencyInit, NativeInit, HostStepsInit, ToolRoutesInit
<1>2. StepInv
  <2>1. ASSUME NEW i \in StepIds PROVE Told(i)
    <3>1. /\ steps[i] = None /\ requests[i] = "absent" /\ artifacts[i] = None /\ sends[i] = 0
          /\ terminals[i] = Model!NoReceipt /\ decisions[i] = None /\ runs[i] = <<>>
          /\ intents[i] = None /\ receipts[i] = None
      BY DEF Init, Model!ResidencyInit, NativeInit, HostStepsInit, ToolRoutesInit
    <3> QED
      BY <3>1 DEF Told, Asking, Stepping, Deciding, Executing
  <2> QED
    BY <2>1 DEF StepInv
<1>3. ExecutorInv
  BY DEF Init, ExecutorInv
<1>4. CallInv
  BY DEF Init, CallInv, StepPoints
<1>5. RowsInv
  <2>1. \A k \in Positions : rows[k].state = "pending" /\ steps[Id(k)] = None
    BY IdsOfPositions DEF Init, Row, HostStepsInit
  <2>2. PredecessorsContinue
    BY <2>1 DEF PredecessorsContinue
  <2> QED
    BY <2>1, <2>2 DEF RowsInv
<1>6. LifecycleInv
  <2>1. residency.state = "new" /\ lifecycle = "none" /\ at = "idle"
    BY DEF Init, Model!ResidencyInit
  <2> QED
    BY <2>1 DEF Init, Row, LifecycleInv, ClosingPoints
<1> QED
  BY <1>1, <1>2, <1>3, <1>4, <1>5, <1>6 DEF IInv

(* And every step keeps it. *)
LEMMA NextKeeps == ASSUME IInv, [Next]_vars PROVE IInv'
<1>1. CASE UNCHANGED vars
  BY <1>1, UnchangedKeeps DEF vars
<1>2. CASE Proceeds
  BY <1>2, LoadsKeeps, RecordsLoadKeeps, AllocatesKeeps, BindsRequestKeeps,
     StoresRequestKeeps, RecordsIntentKeeps, SendsKeeps, PublishesKeeps, RecordsAnswerKeeps,
     RecordsTerminalKeeps, BeginsDecisionKeeps, FindsUnavailableKeeps, RunsKeeps,
     FinishesRunKeeps, DecidesKeeps, BeginsExecutionKeeps, ExecutesKeeps, ReconcilesKeeps,
     ObservesEffectKeeps, CommitsEffectKeeps, CompletesKeeps, RestoresUnavailableKeeps,
     RestoresDecisionKeeps, RestoresExecutionKeeps, RestoresOutcomeKeeps, BeginsClosingKeeps,
     BeginsUnloadingKeeps, UnloadsKeeps, RecordsUnloadKeeps, ClosesKeeps
     DEF Proceeds, Restores
<1>3. CASE \E who \in Processes : Recovers(who) \/ FinishesRows(who)
  BY <1>3, RecoversKeeps, FinishesRowsKeeps
<1>4. CASE Start \/ Create \/ Releases \/ RunNext
  BY <1>4, StartKeeps, CreateKeeps, ReleasesKeeps, RunNextKeeps
<1>5. CASE Refuses \/ Fails \/ CreatorStops \/ Interferes
  BY <1>5, RefusesKeeps, FailsKeeps, CreatorStopsKeeps, InterferesKeeps
<1> QED
  BY <1>1, <1>2, <1>3, <1>4, <1>5 DEF Next

(* The inductive invariant: at every moment the files of a step explain each
   other (native_multistep_tools.py: run_next, recover_current, finish). *)
THEOREM Invariance == Spec => []IInv
BY InitHolds, NextKeeps, PTL DEF Spec

(* A request is sent at most once, and while its answer is not on record the
   model is held for it, whichever process stops where (generate, recover). *)
THEOREM SendsAccounted == Spec => []EverySendIsAccountedFor
<1>1. IInv => EverySendIsAccountedFor
  <2> SUFFICES ASSUME IInv, NEW i \in StepIds
               PROVE  /\ sends[i] <= 1
                      /\ sends[i] = 1 => Requested(i) /\ requests[i] = "stored"
                      /\ sends[i] = 1 /\ terminals[i] = Model!NoReceipt =>
                           residency = [state |-> "generating", request |-> i]
    BY DEF EverySendIsAccountedFor
  <2>1. Asking(i)
    BY DEF IInv, StepInv, Told
  <2>2. sends[i] \in {0, 1}
    BY <2>1 DEF Asking
  <2>3. sends[i] <= 1
    BY <2>2
  <2> QED
    BY <2>1, <2>3 DEF Asking
<1> QED
  BY <1>1, Invariance, PTL

(* What reaches the tool was accepted in one complete run, over the terminal the
   server gave, and was announced before (decide, execute). *)
THEOREM EffectsAdmitted == Spec => []EffectsWereAdmitted
<1>1. IInv => EffectsWereAdmitted
  <2> SUFFICES ASSUME IInv, NEW i \in StepIds
               PROVE  /\ decisions[i] # None /\ decisions[i].state \in Admitted =>
                           /\ runs[i] = <<"accepted">>
                           /\ Verified(i) /\ steps[i].terminal = artifacts[i]
                      /\ intents[i] # None =>
                           /\ decisions[i] # None
                           /\ decisions[i].state \in {"executing", "applied", "rejected"}
                           /\ intents[i].op = BoundOperation(i)
    BY DEF EffectsWereAdmitted
  <2>1. Told(i)
    BY DEF IInv, StepInv
  <2> QED
    BY <2>1 DEF Told, Stepping, Deciding, Executing
<1> QED
  BY <1>1, Invariance, PTL

(* Step, decision and row name the outcome that the receipt gives, however often
   the step was interrupted (reconcile_effect, _receipt, _complete). *)
THEOREM OutcomesAgreed == Spec => []OutcomesAgree
<1>1. IInv => OutcomesAgree
  <2> SUFFICES ASSUME IInv PROVE OutcomesAgree
    OBVIOUS
  <2>1. ASSUME NEW i \in StepIds
        PROVE  /\ steps[i] # None /\ steps[i].state \in {"applied", "rejected"} =>
                    receipts[i] # None /\ steps[i].state = EffectStatus(receipts[i])
               /\ decisions[i] # None /\ decisions[i].state \in {"applied", "rejected"} =>
                    decisions[i].state = steps[i].state
    <3>1. Told(i)
      BY DEF IInv, StepInv
    <3> QED
      BY <3>1 DEF Told, Stepping, Deciding
  <2>2. ASSUME NEW k \in Completed
        PROVE  /\ rows[k].result.state = decisions[Id(k)].state
               /\ rows[k].result.state \in {"applied", "rejected"} <=> receipts[Id(k)] # None
    BY DEF IInv, RowsInv, Completed
  <2> QED
    BY <2>1, <2>2 DEF OutcomesAgree
<1> QED
  BY <1>1, Invariance, PTL

(* No step begins before every earlier one completed with an outcome its plan
   continues on (run_next, _complete, finish). *)
THEOREM PlanFollowed == Spec => []PredecessorsContinue
<1>1. IInv => PredecessorsContinue
  BY DEF IInv, RowsInv
<1> QED
  BY <1>1, Invariance, PTL

(* A closed flow has given its model back, holds the answer to all it sent and
   leaves no row open (finish, ModelResidency.finish). *)
THEOREM ClosedIsUnloaded == Spec => []ClosedMeansUnloaded
<1>1. IInv => ClosedMeansUnloaded
  <2> SUFFICES ASSUME IInv PROVE ClosedMeansUnloaded
    OBVIOUS
  <2>1. residency.state = "closed" => OwnInstance \notin loaded
    BY DEF IInv, LifecycleInv
  <2>2. ASSUME lifecycle = "closed"
        PROVE  /\ residency.state = "closed"
               /\ \A i \in StepIds : sends[i] = 1 => Verified(i)
               /\ \A k \in Positions : rows[k].state \notin {"pending", "attempted"}
    <3>1. /\ residency.state = "closed"
          /\ \A k \in Positions : rows[k].state \notin {"pending", "attempted"}
      BY <2>2 DEF IInv, LifecycleInv
    <3>2. ASSUME NEW i \in StepIds, sends[i] = 1 PROVE Verified(i)
      <4>1. Asking(i)
        BY DEF IInv, StepInv, Told
      <4>2. terminals[i] = Model!NoReceipt =>
              residency = [state |-> "generating", request |-> i]
        BY <3>2, <4>1 DEF Asking
      <4>3. terminals[i] # Model!NoReceipt
        BY <3>1, <4>2
      <4> QED
        BY <3>2, <4>1, <4>3 DEF Asking, Verified, Native
    <3> QED
      BY <3>1, <3>2
  <2> QED
    BY <2>1, <2>2 DEF ClosedMeansUnloaded
<1> QED
  BY <1>1, Invariance, PTL
=============================================================================
