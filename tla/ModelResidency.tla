--------------------------- MODULE ModelResidency ---------------------------
(***************************************************************************)
(* Durable ownership of the one model instance a collector may load        *)
(* (tools/native_model_residency.py), and the part of the model server     *)
(* that its catalog, load and unload callbacks observe.  The journal row   *)
(* changes in transactions; a call on the server is a step of its own      *)
(* between the two transactions that surround it.                          *)
(***************************************************************************)
EXTENDS Naturals

CONSTANTS Requests,           \* request digests
          OwnInstance, ForeignInstance

VARIABLES
  residency,   \* the row: [state, request]
  terminals,   \* request -> the terminal recorded for it
  loaded       \* the instances the server reports in its catalog

residencyVars == <<residency, terminals, loaded>>

NoRequest == "no request"
NoReceipt == [status |-> "none"]

ResidencyInit ==
  /\ residency = [state |-> "new", request |-> NoRequest]
  /\ terminals = [r \in Requests |-> NoReceipt]
  /\ loaded = {}

To(state) == residency' = [residency EXCEPT !.state = state]

-----------------------------------------------------------------------------
(* The server.  The backend is reserved by agreement only: some other client
   may load an instance and drop it again. *)

ServerLoads ==
  /\ loaded' = loaded \cup {OwnInstance}
  /\ UNCHANGED <<residency, terminals>>

(* The server answers an unload whether or not the instance is gone. *)
ServerUnloads ==
  /\ loaded' \in {loaded, loaded \ {OwnInstance}}
  /\ UNCHANGED <<residency, terminals>>

OthersUseBackend ==
  /\ loaded' \in {loaded \cup {ForeignInstance}, loaded \ {ForeignInstance}}
  /\ UNCHANGED <<residency, terminals>>

-----------------------------------------------------------------------------
(* The journal *)

SameInstance == loaded = {OwnInstance}

StartLoading ==
  /\ residency.state = "new" /\ loaded = {}
  /\ To("loading")
  /\ UNCHANGED <<terminals, loaded>>

RecordLoad(contextMatches) ==
  /\ residency.state = "loading"
  /\ To(IF contextMatches THEN "ready" ELSE "loaded_invalid")
  /\ UNCHANGED <<terminals, loaded>>

(* Faulty variant: the generation is not written down before it is sent. *)
BeginGenerationUnrecorded(r) ==
  /\ residency.state = "ready" /\ SameInstance
  /\ terminals[r] = NoReceipt
  /\ UNCHANGED residencyVars

BeginGeneration(r) ==
  /\ residency.state = "ready" /\ SameInstance
  /\ terminals[r] = NoReceipt
  /\ residency' = [state |-> "generating", request |-> r]
  /\ UNCHANGED <<terminals, loaded>>

RecordGeneration(r, receipt) ==
  /\ residency.state = "generating" /\ residency.request = r
  /\ terminals' = [terminals EXCEPT ![r] = receipt]
  /\ residency' = [state |-> "ready", request |-> NoRequest]
  /\ UNCHANGED loaded

BeginUnloading ==
  /\ residency.state \in {"ready", "loaded_invalid"} /\ SameInstance
  /\ To("unloading")
  /\ UNCHANGED <<terminals, loaded>>

(* Faulty variant: the answer to the unload is believed. *)
RecordUnloadUnverified ==
  /\ residency.state = "unloading"
  /\ To("closed")
  /\ UNCHANGED <<terminals, loaded>>

RecordUnload ==
  /\ residency.state = "unloading" /\ loaded = {}
  /\ To("closed")
  /\ UNCHANGED <<terminals, loaded>>
=============================================================================
