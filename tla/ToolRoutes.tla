----------------------------- MODULE ToolRoutes -----------------------------
(***************************************************************************)
(* Admission of a verified proposal and its separate execution             *)
(* (tools/controlled_tool_routes.py).  A decision row is written before    *)
(* the controller runs, the controller's ledger proves what it decided,    *)
(* and an accepted proposal gets an execution intent of its own before     *)
(* anything takes effect.  Each handler here is one write of the route;    *)
(* the route's lock admits one call at a time.                             *)
(***************************************************************************)
EXTENDS HostSteps, Sequences

VARIABLES
  decisions,   \* id -> [state, admission, effect]
  runs         \* id -> the runs of its contract in the controller's ledger

routeVars == <<decisions, runs>>

Admitted == {"accepted", "abstained", "executing", "applied", "rejected"}
Settled  == {"applied", "rejected", "abstained", "denied", "invalid", "generation_failed"}

ToolRoutesInit ==
  /\ decisions = [i \in StepIds |-> None]
  /\ runs = [i \in StepIds |-> <<>>]

NoEffect(i) == intents[i] = None /\ receipts[i] = None

(* The two fixed gates: the exact verified proposal, which the runtime reads
   back unchanged, and the actions the step's scope allows. *)
Admission(i) ==
  IF BoundOperation(i) = None \/ BoundOperation(i).kind \in Scope(i).kinds
  THEN "accepted" ELSE "denied"

(* Faulty variant: one run of the contract is enough, however it ended. *)
ProvenByStarting(i) == Len(runs[i]) = 1

(* _proof: exactly one run of this contract, and that one complete *)
Proven(i) == Len(runs[i]) = 1 /\ runs[i][1] # "started"

-----------------------------------------------------------------------------
(* decide *)

BeginDecision(i) ==
  /\ decisions[i] = None
  /\ decisions' = [decisions EXCEPT ![i] =
                     [state |-> "deciding", admission |-> None, effect |-> None]]
  /\ UNCHANGED runs

DecideUnavailable(i) ==
  /\ decisions[i].state = "deciding" /\ Unavailable(i)
  /\ decisions' = [decisions EXCEPT ![i].state = Outcome(i, steps[i].terminal)]
  /\ UNCHANGED runs

StartRun(i) ==
  /\ decisions[i].state = "deciding" /\ ~ Unavailable(i)
  /\ runs' = [runs EXCEPT ![i] = Append(@, "started")]
  /\ UNCHANGED decisions

FinishRun(i) ==
  /\ runs' = [runs EXCEPT ![i][Len(runs[i])] = Admission(i)]
  /\ UNCHANGED decisions

CommitDecision(i) ==
  LET admission == runs[i][1]
  IN /\ decisions[i].state = "deciding" /\ Proven(i)
     /\ decisions' = [decisions EXCEPT
          ![i].admission = [verdict |-> admission],
          ![i].state = IF admission = "denied" THEN "denied"
                       ELSE IF BoundOperation(i) = None THEN "abstained"
                       ELSE "accepted"]
     /\ UNCHANGED runs

-----------------------------------------------------------------------------
(* execute *)

BeginExecution(i) ==
  /\ decisions[i].state = "accepted"
  /\ NoPendingEffect(TaskOf(i)) /\ NoEffect(i)
  /\ decisions' = [decisions EXCEPT ![i].state = "executing"]
  /\ UNCHANGED runs

(* The receipt that the intent, the tool and the host step agree on. *)
Receipted(i) ==
  /\ intents[i] # None /\ intents[i].state = "complete"
  /\ intents[i].op = BoundOperation(i)
  /\ intents[i].receipt = receipts[i] /\ steps[i].effect = receipts[i]
  /\ steps[i].state = EffectStatus(receipts[i])

CommitEffect(i) ==
  /\ decisions[i].state = "executing"
  /\ Receipted(i)
  /\ decisions' = [decisions EXCEPT ![i].state = EffectStatus(receipts[i]),
                                    ![i].effect = receipts[i]]
  /\ UNCHANGED runs

(* _snapshot of a row that is neither deciding nor executing *)
Reportable(i) ==
  /\ decisions[i] # None /\ decisions[i].state \notin {"deciding", "executing"}
  /\ IF decisions[i].state \in {"applied", "rejected"}
     THEN Receipted(i) /\ decisions[i].effect = receipts[i]
     ELSE NoPendingEffect(TaskOf(i)) /\ NoEffect(i)
=============================================================================
