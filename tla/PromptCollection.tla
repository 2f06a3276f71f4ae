-------------------------- MODULE PromptCollection --------------------------
(* learning/collection.py: collect_prompt_shadow asks the adapter for a baseline
   and a candidate response to every case, and writes each dispatch to its
   journal before the call and each receipt after it.  Nothing is retried and
   nothing is resumed. *)
EXTENDS NativePrompt, ShadowScoring

CONSTANTS
  RecordingLimits, Reserve,  \* sizes, in units of a small event
  MaxStorageFailures,
  Sockets                    \* how many workers may get a socket for hints
ASSUME CollectionAssumption ==
  /\ Cases = 1 .. Cardinality(Cases)
  /\ Requests = 1 .. 2 * Cardinality(Cases)
  /\ Answers \subseteq [content : Contents, finish : {"stop", "length"}]
  /\ Reserve \in Nat /\ Reserve >= 2   \* room for the marks of a cleanup and an abort
  /\ \A limit \in RecordingLimits : limit \in Nat /\ limit >= Reserve

VARIABLES
  journal,     \* events: in memory; disk: the names linked; size, limit
  collector

collectorVars == <<journal, collector>>
collectionVars == <<adapterVars, collectorVars>>

(* _schedule: the arms of each case, the candidate first in every second one. *)
CaseOf(q) == (q + 1) \div 2
ArmOf(q) ==
  IF q % 2 = CaseOf(q) % 2 THEN "baseline" ELSE "candidate"

-----------------------------------------------------------------------------
(* _Journal *)

NoReceipt == [status |-> "none", content |-> "none"]
Event(kind, q, receipt) == [kind |-> kind, request |-> q, receipt |-> receipt]
Mark(kind) == Event(kind, 0, NoReceipt)

(* A receipt with a response is larger. *)
SizeOf(event) == IF event.receipt.status = "completed" THEN 2 ELSE 1

(* Faulty variant: what is left must take one more event. *)
FitsReservingOne(event, emergency) ==
  journal.size + SizeOf(event) <= journal.limit - (IF emergency THEN 0 ELSE 1)

Fits(event, emergency) ==
  journal.size + SizeOf(event) <= journal.limit - (IF emergency THEN 0 ELSE Reserve)

(* A name may have been linked by an append that then failed. *)
NameIsFree == Len(journal.disk) = Len(journal.events)

Append1(event, emergency) ==
  /\ Fits(event, emergency) /\ NameIsFree
  /\ journal' = [journal EXCEPT !.events = Append(@, event), !.disk = Append(@, event),
                                !.size = @ + SizeOf(event)]

(* Over the limit; the name is taken; or the storage fails, before the name is
   linked or between that and the return. *)
AppendRaises(event, emergency) ==
  \/ (~Fits(event, emergency) \/ ~NameIsFree) /\ UNCHANGED journal
  \/ /\ Fits(event, emergency) /\ NameIsFree
     /\ journal.failures < MaxStorageFailures
     /\ \E disk \in {journal.disk, Append(journal.disk, event)} :
          journal' = [journal EXCEPT !.disk = disk, !.failures = @ + 1]

CollectionInit ==
  /\ AdapterInit
  /\ journal \in [events : {<<>>}, disk : {<<>>}, size : {0}, limit : RecordingLimits,
                  failures : {0}]
  /\ collector = [at |-> "new", next |-> 1, receipt |-> NoReceipt, verdict |-> "none",
                  uncertain |-> FALSE, started |-> FALSE, finished |-> FALSE]

-----------------------------------------------------------------------------
(* collect_prompt_shadow *)

At(place) == collector.at = place
Goes(place) == collector' = [collector EXCEPT !.at = place]
Claims(place, uncertain, started, finished) ==
  collector' = [collector EXCEPT !.at = place, !.uncertain = uncertain,
                                 !.started = started, !.finished = finished]

(* The handler of every exception. *)
Excepts == Goes("excepting")

WriteManifest ==
  /\ At("new")
  /\ \/ Append1(Mark("manifest"), FALSE) /\ Claims("starting", TRUE, FALSE, FALSE)
     \/ AppendRaises(Mark("manifest"), FALSE) /\ Excepts
  /\ UNCHANGED adapterVars

CallStart ==
  /\ At("starting")
  /\ \/ Start /\ Goes("started")
     \/ Excepts /\ UNCHANGED adapterVars
  /\ UNCHANGED journal

WriteStarted ==
  /\ At("started")
  /\ \/ Append1(Mark("started"), FALSE) /\ Claims("dispatching", FALSE, TRUE, FALSE)
     \/ AppendRaises(Mark("started"), FALSE) /\ Excepts
  /\ UNCHANGED adapterVars

WriteDispatch ==
  LET dispatch == Event("dispatch", collector.next, NoReceipt) IN
  /\ At("dispatching")
  /\ \/ Append1(dispatch, FALSE) /\ Claims("generating", TRUE, TRUE, FALSE)
     \/ AppendRaises(dispatch, FALSE) /\ Excepts
  /\ UNCHANGED adapterVars

CallGenerate ==
  /\ At("generating")
  /\ \/ /\ \E channel \in IF adapter.calls < Sockets THEN {OpenChannel, NoChannel} ELSE {NoChannel} :
             Spawn(collector.next, channel)
        /\ Goes("waiting")
     \/ Excepts /\ UNCHANGED adapterVars
  /\ UNCHANGED journal

GenerateReturns ==
  /\ At("waiting")
  /\ \/ /\ Verify
        /\ collector' = [collector EXCEPT !.at = "returned", !.receipt = Terminal]
     \/ Abandon /\ Excepts
     \/ Excepts /\ UNCHANGED adapterVars   \* an interrupt just before the wait
  /\ UNCHANGED journal

(* _terminal and _lifecycle find nothing to refuse in what this adapter says. *)
WriteTerminal ==
  LET terminal == Event("terminal", collector.next, collector.receipt) IN
  /\ At("returned")
  /\ \/ /\ Append1(terminal, FALSE)
        /\ collector' = [collector EXCEPT
             !.at = IF collector.next = Cardinality(Requests) THEN "closing" ELSE "dispatching",
             !.next = @ + 1, !.receipt = NoReceipt, !.uncertain = FALSE]
     \/ AppendRaises(terminal, FALSE) /\ Excepts
  /\ UNCHANGED adapterVars

CallFinish ==
  /\ At("closing")
  /\ \/ Unload /\ Claims("polling", TRUE, TRUE, FALSE)
     \/ Claims("excepting", TRUE, TRUE, FALSE) /\ UNCHANGED adapterVars
  /\ UNCHANGED journal

FinishReturns ==
  /\ At("polling")
  /\ \/ Close /\ Goes("finished")
     \/ Excepts /\ UNCHANGED adapterVars
  /\ UNCHANGED journal

WriteFinished ==
  /\ At("finished")
  /\ \/ Append1(Mark("finished"), FALSE) /\ Claims("auditing", FALSE, TRUE, TRUE)
     \/ AppendRaises(Mark("finished"), FALSE) /\ Excepts
  /\ UNCHANGED adapterVars

(* audit_prompt_collection: the trials are those of the receipts. *)
Kinds == <<"manifest", "started">>
         \o [i \in 1 .. 2 * Cardinality(Requests) |-> IF i % 2 = 1 THEN "dispatch" ELSE "terminal"]
         \o <<"finished">>

IsComplete(events) ==
  /\ Len(events) = Len(Kinds)
  /\ \A i \in DOMAIN events :
       /\ events[i].kind = Kinds[i]
       /\ events[i].kind \in {"dispatch", "terminal"} => events[i].request = (i - 1) \div 2

OutcomeOf(receipt) ==
  IF receipt.status = "completed" THEN Admit(receipt.content) ELSE FailedOutcome

TrialsOf(events) ==
  [c \in Cases |-> [arm \in Arms |->
    LET q == CHOOSE q \in Requests : CaseOf(q) = c /\ ArmOf(q) = arm
    IN OutcomeOf(events[2 * q + 2].receipt)]]

AuditAndPublish ==
  /\ At("auditing")
  /\ \/ /\ IsComplete(journal.events)
        /\ collector' = [collector EXCEPT !.at = "done",
             !.verdict = Verdict(TrialsOf(journal.events))]
        /\ UNCHANGED journal
     \/ /\ journal.failures < MaxStorageFailures
        /\ journal' = [journal EXCEPT !.failures = @ + 1]
        /\ Excepts
  /\ UNCHANGED adapterVars

-----------------------------------------------------------------------------
(* The exception handler.  Only a server that is known to be idle is asked to
   unload. *)

KnownIdle == collector.started /\ ~collector.uncertain /\ ~collector.finished

CleanUp ==
  /\ At("excepting")
  /\ \/ /\ KnownIdle
        /\ \/ Unload /\ Claims("cleaning", TRUE, TRUE, FALSE)
           \/ Claims("marking", TRUE, TRUE, FALSE) /\ UNCHANGED adapterVars
     \/ ~KnownIdle /\ Goes("marking") /\ UNCHANGED adapterVars
  /\ UNCHANGED journal

CleanUpReturns ==
  /\ At("cleaning")
  /\ \/ Close /\ Claims("cleaned", FALSE, TRUE, TRUE)
     \/ Goes("marking") /\ UNCHANGED adapterVars
  /\ UNCHANGED journal

WriteCleaned ==
  /\ At("cleaned")
  /\ Append1(Mark("finished"), TRUE) \/ AppendRaises(Mark("finished"), TRUE)
  /\ Goes("marking")
  /\ UNCHANGED adapterVars

WriteAborted ==
  /\ At("marking")
  /\ \/ Append1(Mark("aborted"), TRUE) /\ Goes("aborted")
     \/ AppendRaises(Mark("aborted"), TRUE) /\ Goes("raised")
  /\ UNCHANGED adapterVars

(* The collecting process ends; the worker and the server go on. *)
CollectorDies ==
  /\ collector.at \notin {"new", "done", "aborted", "raised", "dead"}
  /\ Goes("dead")
  /\ UNCHANGED <<journal, adapterVars>>

CollectorStep ==
  \/ WriteManifest
  \/ CallStart
  \/ WriteStarted
  \/ WriteDispatch
  \/ CallGenerate
  \/ GenerateReturns
  \/ WriteTerminal
  \/ CallFinish
  \/ FinishReturns
  \/ WriteFinished
  \/ AuditAndPublish
  \/ CleanUp
  \/ CleanUpReturns
  \/ WriteCleaned
  \/ WriteAborted
  \/ CollectorDies
=============================================================================
