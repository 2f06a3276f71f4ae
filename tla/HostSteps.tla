------------------------------ MODULE HostSteps ------------------------------
(***************************************************************************)
(* The host's durable steps (tools/host_steps.py, with the proposal        *)
(* boundary of tools/controlled_tool_proposal.py): a step is allocated     *)
(* before the model is asked, gets exactly one request, one terminal and   *)
(* at most one observed effect.  Every handler is one transaction of the   *)
(* host store; the journal of intents and the tool are other files, which  *)
(* it only reads.                                                          *)
(***************************************************************************)
EXTENDS Integers

CONSTANTS Scopes,      \* [id, task, step, kinds, products, max_quantity, reservations]
          Operations   \* what a model may put in a proposal, as bound to a scope

VARIABLES
  steps,      \* id -> [state, request, terminal, effect]
  intents,    \* of the journal: read here
  receipts    \* of the tool: read here

None == [absent |-> "none"]

StepIds  == {s.id : s \in Scopes}
Scope(i) == CHOOSE s \in Scopes : s.id = i
TaskOf(i) == Scope(i).task

(* A proposal gets its identity from the step it is bound to. *)
ASSUME BindingAssumption == \A op \in Operations : op.id \in StepIds

Active   == {"allocated", "requesting", "proposed"}
Terminal == {"abstained", "invalid", "generation_failed", "applied", "rejected"}

(* What the model server may have answered: a failure, text that is not a
   proposal, an abstention, or a proposal of an operation. *)
Failed     == [status |-> "failed"]
Malformed  == [status |-> "completed", content |-> "malformed", op |-> None]
Abstention == [status |-> "completed", content |-> "abstain", op |-> None]
Answer(op) == [status |-> "completed", content |-> "operation", op |-> op]

Answers(i) == {Failed, Malformed, Abstention}
                \cup {Answer(op) : op \in {o \in Operations : o.id = i}}

HostStepsInit == steps = [i \in StepIds |-> None]

-----------------------------------------------------------------------------
(* bind_tool_proposal *)

InScope(op, scope) ==
  /\ op.kind \in scope.kinds
  /\ op.product \in scope.products
  /\ op.quantity \in 1 .. scope.max_quantity
  /\ IF op.kind = "reserve" THEN op.reservation = "none"
     ELSE <<op.reservation, op.product, op.quantity>> \in scope.reservations

Outcome(i, answer) ==
  IF answer.status = "failed" THEN "generation_failed"
  ELSE IF answer.content = "abstain" THEN "abstained"
  ELSE IF answer.content = "malformed" \/ ~ InScope(answer.op, Scope(i)) THEN "invalid"
  ELSE "proposed"

BoundOperation(i) == steps[i].terminal.op
Unavailable(i)    == Outcome(i, steps[i].terminal) \in {"invalid", "generation_failed"}

-----------------------------------------------------------------------------
(* The handlers *)

NoPendingEffect(task) ==
  \A i \in DOMAIN intents :
    intents[i] # None => intents[i].op.task # task \/ intents[i].state # "pending"

NoActiveStep(task) ==
  \A i \in StepIds : TaskOf(i) = task /\ steps[i] # None => steps[i].state \notin Active

Allocate(i) ==
  IF steps[i] # None THEN UNCHANGED steps
  ELSE /\ NoPendingEffect(TaskOf(i)) /\ NoActiveStep(TaskOf(i))
       /\ steps' = [steps EXCEPT ![i] = [state |-> "allocated", request |-> None,
                                         terminal |-> None, effect |-> None]]

BeginRequest(i, r) ==
  /\ steps[i] # None /\ steps[i].state = "allocated"
  /\ NoPendingEffect(TaskOf(i))
  /\ \A j \in StepIds : steps[j] # None => steps[j].request # [digest |-> r]
  /\ steps' = [steps EXCEPT ![i].state = "requesting", ![i].request = [digest |-> r]]

Requested(i) == steps[i] # None /\ steps[i].request # None

(* "verified" is what the trusted callback returned for this request. *)
RecordTerminal(i, verified) ==
  /\ Requested(i)
  /\ IF steps[i].state # "requesting" THEN UNCHANGED steps
     ELSE /\ NoPendingEffect(TaskOf(i))
          /\ steps' = [steps EXCEPT ![i].state = Outcome(i, verified),
                                    ![i].terminal = verified]

EffectStatus(receipt) == IF receipt.code = "applied" THEN "applied" ELSE "rejected"

(* Faulty variant: a completed intent is taken for an applied effect. *)
ReconcileEffectOptimistically(i) ==
  IF steps[i].state \in {"applied", "rejected"} THEN UNCHANGED steps
  ELSE /\ steps[i].state = "proposed"
       /\ NoPendingEffect(TaskOf(i))
       /\ intents[i] # None /\ intents[i].state = "complete"
       /\ steps' = [steps EXCEPT ![i].state = "applied", ![i].effect = receipts[i]]

ReconcileEffect(i) ==
  IF steps[i].state \in {"applied", "rejected"} THEN UNCHANGED steps
  ELSE /\ steps[i].state = "proposed"
       /\ NoPendingEffect(TaskOf(i))
       /\ intents[i] # None /\ intents[i].state = "complete"
       /\ intents[i].op = BoundOperation(i)
       /\ intents[i].receipt = receipts[i]
       /\ steps' = [steps EXCEPT ![i].state = EffectStatus(receipts[i]),
                                 ![i].effect = receipts[i]]
=============================================================================
