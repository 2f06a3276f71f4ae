------------------------- MODULE NativeToolEvidence -------------------------
(***************************************************************************)
(* The bridge between a host step and the native generation that answers   *)
(* it (tools/native_tool_evidence.py), with what it sees of the adapter    *)
(* (learning/native_prompt.py): the adapter sends a request to the loaded  *)
(* instance and publishes the verified terminal under the request's        *)
(* digest.  A request is named by the step it belongs to.                  *)
(***************************************************************************)
EXTENDS HostSteps

CONSTANTS OwnInstance, ForeignInstance

ASSUME InstancesAssumption == OwnInstance # ForeignInstance

VARIABLES
  residency, terminals, loaded,   \* of the model residency
  requests,    \* id -> whether the bridge has stored the request's binding
  artifacts,   \* id -> the terminal the adapter published, or None
  adapter,     \* of the process that started it: "idle" or "uncertain"
  sends        \* id -> how often a request reached the server: observed

Model == INSTANCE ModelResidency WITH Requests <- StepIds

bridgeVars == <<requests, artifacts, adapter, sends>>

NativeInit ==
  /\ requests = [i \in StepIds |-> "absent"]
  /\ artifacts = [i \in StepIds |-> None]
  /\ adapter = "idle"
  /\ sends = [i \in StepIds |-> 0]

(* what generate checks before it touches anything *)
ReadyToGenerate ==
  residency.state = "ready" /\ Model!SameInstance /\ adapter = "idle"

StoreRequest(i) ==
  /\ requests[i] = "absent"
  /\ requests' = [requests EXCEPT ![i] = "stored"]
  /\ UNCHANGED <<artifacts, adapter, sends>>

Send(i) ==
  /\ adapter = "idle" /\ Model!SameInstance
  /\ adapter' = "uncertain"
  /\ sends' = [sends EXCEPT ![i] = @ + 1]
  /\ UNCHANGED <<requests, artifacts>>

(* After the answer only the models are compared: a foreign instance is one of
   another model. *)
Publish(i, answer) ==
  /\ ForeignInstance \notin loaded
  /\ artifacts' = [artifacts EXCEPT ![i] = answer]
  /\ adapter' = "idle"
  /\ UNCHANGED <<requests, sends>>

(* _native: the stored request has a published terminal.  The digest it adds
   to the request's row is that of the artifact, which never changes. *)
Native(i) == Requested(i) /\ requests[i] = "stored" /\ artifacts[i] # None

(* verify: and the residency recorded that same terminal *)
Verified(i) == Native(i) /\ terminals[i] = artifacts[i]
=============================================================================
