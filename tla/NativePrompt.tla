---------------------------- MODULE NativePrompt ----------------------------
(* learning/native_prompt.py: the adapter a collection generates with.  It owns
   the instances its own requests loaded, starts one worker per request, and
   answers with a terminal receipt or raises.  One that raised is not called
   again, so its state after that is left as it was. *)
EXTENDS NativeWorker

CONSTANT RequestLimit   \* policy.request_limit
ASSUME LimitAssumption == RequestLimit \in Nat

VARIABLE adapter

adapterVars == <<adapter, workerVars>>

AdapterInit == WorkerInit /\ adapter = [state |-> "new", calls |-> 0, owned |-> FALSE]

(* _catalog lists what is loaded, of whichever model. *)
NothingLoaded == ~server.loaded /\ ~server.foreign
OnlyOwnedLoaded == ~server.foreign /\ server.loaded = adapter.owned

Start ==
  /\ adapter.state = "new"
  /\ NothingLoaded
  /\ adapter' = [adapter EXCEPT !.state = "idle"]
  /\ UNCHANGED workerVars

(* generate, up to the process.  A socket for hints may not be had. *)
Spawn(q, channel) ==
  /\ adapter.state = "idle" /\ adapter.calls < RequestLimit
  /\ OnlyOwnedLoaded
  /\ adapter' = [adapter EXCEPT !.state = "uncertain", !.calls = @ + 1]
  /\ worker' = Spawned(q, channel)
  /\ UNCHANGED server

-----------------------------------------------------------------------------
(* verify_worker_terminal *)

(* Faulty variant: a response that was cut off is a response. *)
StoppedByDenial == worker.denied

BudgetStopped == worker.parsed.finish = "length" \/ worker.denied

TerminalIsVerified ==
  /\ worker.finished /\ worker.posts = 1
  /\ BudgetStopped \/ ~worker.completed \/ worker.matches

Terminal ==
  IF BudgetStopped \/ ~worker.completed
  THEN [status |-> "failed", content |-> "none"]
  ELSE [status |-> "completed", content |-> worker.parsed.content]

(* generate, after the process: the instances there are now are its own. *)
Verify ==
  /\ worker.at = "exited"
  /\ TerminalIsVerified
  /\ ~server.foreign
  /\ adapter' = [adapter EXCEPT !.state = "idle", !.owned = server.loaded]
  /\ worker' = NoWorker
  /\ UNCHANGED server

(* The process is killed at its time limit or an interrupt, or its trace is not
   that of a verified terminal, or the catalog cannot be read. *)
Abandon ==
  /\ worker.at # "none"
  /\ worker' = NoWorker
  /\ UNCHANGED <<adapter, server>>

-----------------------------------------------------------------------------
(* finish *)

Unload ==
  /\ adapter.state = "idle"
  /\ OnlyOwnedLoaded
  /\ adapter' = [adapter EXCEPT !.state = "closing"]
  /\ server' = [server EXCEPT !.loaded = FALSE]
  /\ UNCHANGED worker

Close ==
  /\ adapter.state = "closing"
  /\ NothingLoaded
  /\ adapter' = [adapter EXCEPT !.state = "closed", !.owned = FALSE]
  /\ UNCHANGED workerVars
=============================================================================
