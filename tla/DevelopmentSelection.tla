------------------------ MODULE DevelopmentSelection ------------------------
(* learning/development.py: which prompt an isolated development consumer
   reads.  One private directory under an exclusive lock holds both prompts and
   at most three states, initialize, adopt and revert; the bytes of state-i
   are the states up to it.  Adopting and reading the candidate need the
   collection and the review chain of the moment. *)
EXTENDS ReviewChain, SequencesExt

CONSTANT Developers
ASSUME DevelopersAssumption ==
  Developers \cap {"baseline", "candidate", "state-0", "state-1", "state-2", "nobody"} = {}

VARIABLES
  store,       \* the directory: two prompts, the states, temporary files
  created,     \* the directory was made
  holder,      \* who has the lock, or Nobody
  selecting,   \* the call each developer is in
  selected,    \* observed: the heads calls returned
  served       \* observed: the last prompt returned, and whether its call
               \* began after a revocation had been acknowledged

selectionVars == <<store, created, holder, selecting, selected, served>>

Nobody == "nobody"
StateName == <<"state-0", "state-1", "state-2">>
States == Range(StateName)
Operations == {"adopt", "read", "revert"}
StoreNames == {"baseline", "candidate"} \cup States \cup Developers

NoSelection ==
  [at |-> "idle", op |-> "none", states |-> <<>>, reviews |-> <<>>, queue |-> <<>>,
   failed |-> FALSE, late |-> FALSE]
Serves(prompt, late) == served' = [prompt |-> prompt, late |-> late]

SelectionInit ==
  /\ store = EmptyDirectory(StoreNames)
  /\ created = FALSE /\ holder = Nobody
  /\ selecting = [d \in Developers |-> NoSelection]
  /\ selected = {} /\ served = [prompt |-> "none", late |-> FALSE]

-----------------------------------------------------------------------------
(* _load: every state in order, no other name, the pinned head, the baseline. *)

StatesFound ==
  CHOOSE n \in 0 .. 3 :
    /\ \A i \in 1 .. n : StateName[i] \in Present(store)
    /\ n < 3 => StateName[n + 1] \notin Present(store)

Transitions == <<"initialize", "adopt", "revert">>

LoadedStates == store.seen[StateName[StatesFound]].bytes

Loads ==
  /\ StatesFound > 0
  /\ Present(store) = {"baseline", "candidate"} \cup {StateName[i] : i \in 1 .. StatesFound}
  /\ \A i \in 1 .. StatesFound :
       LET file == store.seen[StateName[i]] IN
       /\ Complete(file)
       /\ file.bytes = SubSeq(LoadedStates, 1, i)
       /\ file.bytes[i].transition = Transitions[i]
  /\ Complete(store.seen["baseline"])

Selects(chain) == IF Last(chain).transition = "adopt" THEN "candidate" ELSE "baseline"

State(transition, head) == [transition |-> transition, review |-> head]

Stores(name, bytes) == <<[name |-> name, bytes |-> bytes]>>

-----------------------------------------------------------------------------
(* The calls. *)

NewCall(d, op) ==
  [NoSelection EXCEPT !.op = op,
     !.late = \E head \in reviewed : Len(head) = 2]

InitializeSelection(d) ==
  LET first == <<State("initialize", <<>>)>> IN
  /\ selecting[d].at = "idle"
  /\ ~created
  /\ created' = TRUE /\ holder' = d
  /\ selecting' = [selecting EXCEPT ![d] =
       [NewCall(d, "initialize") EXCEPT
          !.at = "writing", !.states = first,
          !.queue = Stores("baseline", <<>>) \o Stores("candidate", <<>>)
                      \o Stores("state-0", first)]]
  /\ UNCHANGED <<store, selected, served>>

(* Takes the lock without waiting and loads; the head the caller pinned must be
   the one loaded.  The baseline is read, and restored, without any approval. *)
OpenSelection(d, op) ==
  LET call == [NewCall(d, op) EXCEPT !.states = LoadedStates]
      latest == Last(LoadedStates)
      reverted == Append(LoadedStates, State("revert", latest.review))
  IN
  /\ selecting[d].at = "idle"
  /\ created /\ holder = Nobody
  /\ Loads
  /\ \/ /\ op = "read" /\ Selects(LoadedStates) = "baseline"
        /\ Serves("baseline", call.late)
        /\ UNCHANGED <<selecting, holder>>
     \/ /\ \/ op = "read" /\ Selects(LoadedStates) = "candidate"
           \/ op = "adopt" /\ latest.transition = "initialize"
        /\ selecting' = [selecting EXCEPT ![d] = [call EXCEPT !.at = "loaded"]]
        /\ holder' = d
        /\ UNCHANGED served
     \/ /\ op = "revert" /\ latest.transition = "adopt"
        /\ selecting' = [selecting EXCEPT ![d] =
             [call EXCEPT !.at = "writing", !.states = reverted,
                          !.queue = Stores("state-2", reverted)]]
        /\ holder' = d
        /\ UNCHANGED served
  /\ UNCHANGED <<store, created, selected>>

(* Faulty variant: the approval of the adoption is good for every read. *)
ScanApprovalOnce(d) ==
  LET call == selecting[d] IN
  /\ call.at = "loaded"
  /\ call.op = "adopt" => ScannedChain # <<>> /\ Last(ScannedChain).decision = "recommend"
  /\ selecting' = [selecting EXCEPT ![d].at = "scanned", ![d].reviews = ScannedChain]
  /\ UNCHANGED <<store, created, holder, selected, served>>

(* _approval reads the reviews while reviewers may be at work.  The head the
   caller pinned must be the one scanned; a read needs that of the adoption. *)
ScanApproval(d) ==
  LET call == selecting[d] IN
  /\ call.at = "loaded"
  /\ result = "positive"
  /\ ScanIsValid
  /\ ScannedChain # <<>> /\ Last(ScannedChain).decision = "recommend"
  /\ call.op = "read" => Last(call.states).review = ScannedChain
  /\ selecting' = [selecting EXCEPT ![d].at = "scanned", ![d].reviews = ScannedChain]
  /\ UNCHANGED <<store, created, holder, selected, served>>

AdoptCandidate(d) ==
  LET call == selecting[d]
      adopted == Append(call.states, State("adopt", call.reviews))
  IN
  /\ call.at = "scanned" /\ call.op = "adopt"
  /\ NamesMatch(call.reviews)
  /\ Complete(store.seen["candidate"])
  /\ selecting' = [selecting EXCEPT ![d].at = "writing", ![d].states = adopted,
                                     ![d].queue = Stores("state-1", adopted)]
  /\ UNCHANGED <<store, created, holder, selected, served>>

ReadCandidate(d) ==
  LET call == selecting[d] IN
  /\ call.at = "scanned" /\ call.op = "read"
  /\ NamesMatch(call.reviews)
  /\ Complete(store.seen["candidate"])
  /\ Serves("candidate", call.late)
  /\ selecting' = [selecting EXCEPT ![d] = NoSelection]
  /\ holder' = Nobody
  /\ UNCHANGED <<store, created, selected>>

-----------------------------------------------------------------------------
(* _publish, file by file, while the lock is held. *)

WriteTemporary(d) ==
  /\ selecting[d].at = "writing"
  /\ store' = Link(store, d, Written(Head(selecting[d].queue).bytes))
  /\ selecting' = [selecting EXCEPT ![d].at = "written"]
  /\ UNCHANGED <<created, holder, selected, served>>

LinkName(d) ==
  LET name == Head(selecting[d].queue).name IN
  /\ selecting[d].at = "written"
  /\ Linkable(store, name)
  /\ store' = Link(store, name, store.seen[d])
  /\ selecting' = [selecting EXCEPT ![d].at = "linked"]
  /\ UNCHANGED <<created, holder, selected, served>>

SyncName(d) ==
  /\ selecting[d].at = "linked"
  /\ store' = SyncDirectory(store)
  /\ selecting' = [selecting EXCEPT ![d].at = "removing"]
  /\ UNCHANGED <<created, holder, selected, served>>

(* An error before or after the link: the temporary file is removed, and what
   was linked stays. *)
PublishFails(d) ==
  /\ selecting[d].at \in {"written", "linked"}
  /\ selecting' = [selecting EXCEPT ![d].at = "removing", ![d].failed = TRUE]
  /\ UNCHANGED <<store, created, holder, selected, served>>

RemoveTemporary(d) ==
  /\ selecting[d].at = "removing"
  /\ store' = Unlink(store, d)
  /\ selecting' = [selecting EXCEPT ![d].at = "removed"]
  /\ UNCHANGED <<created, holder, selected, served>>

SyncRemoval(d) ==
  LET call == selecting[d]
      more == Tail(call.queue)
  IN
  /\ call.at = "removed"
  /\ store' = SyncDirectory(store)
  /\ \/ /\ ~call.failed /\ more # <<>>
        /\ selecting' = [selecting EXCEPT ![d].at = "writing", ![d].queue = more]
        /\ UNCHANGED <<holder, selected, served>>
     \/ /\ ~call.failed /\ more = <<>>
        /\ Serves(Selects(call.states), call.late)
        /\ selecting' = [selecting EXCEPT ![d] = NoSelection]
        /\ selected' = selected \cup {call.states}
        /\ holder' = Nobody
     \/ /\ call.failed
        /\ selecting' = [selecting EXCEPT ![d] = NoSelection]
        /\ holder' = Nobody
        /\ UNCHANGED <<selected, served>>
  /\ UNCHANGED created

(* A refusal, an exception, or the end of the process, which frees the lock. *)
StopSelection(d) ==
  /\ selecting[d].at # "idle"
  /\ selecting' = [selecting EXCEPT ![d] = NoSelection]
  /\ holder' = Nobody
  /\ UNCHANGED <<store, created, selected, served>>

SelectionStep(d) ==
  \/ InitializeSelection(d)
  \/ \E op \in Operations : OpenSelection(d, op)
  \/ ScanApproval(d)
  \/ AdoptCandidate(d)
  \/ ReadCandidate(d)
  \/ WriteTemporary(d)
  \/ LinkName(d)
  \/ SyncName(d)
  \/ PublishFails(d)
  \/ RemoveTemporary(d)
  \/ SyncRemoval(d)
  \/ StopSelection(d)

(* The lock and the directory made before the first synchronization are not
   part of what a power failure can undo here. *)
SelectionPowerLoss ==
  /\ store' \in PowerLosses(store)
  /\ selecting' = [d \in Developers |-> NoSelection]
  /\ holder' = Nobody
  /\ UNCHANGED <<created, selected, served>>
=============================================================================
