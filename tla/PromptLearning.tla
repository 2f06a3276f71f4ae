--------------------------- MODULE PromptLearning ---------------------------
(* The prompt-learning pipeline.  A candidate prompt is frozen and its inputs
   are read (CandidateStore), it is compared with the baseline on a model
   server (PromptCollection), its recording is reviewed, and an isolated
   consumer selects it (DevelopmentSelection).

   Each stage starts from what the one before left on disk, and no process of
   one takes part in another: a behaviour here is one of a stage, and the
   review starts from an audited recording with either verdict. *)
EXTENDS PromptCollection, CandidateStore, DevelopmentSelection

VARIABLE stage

vars == <<stage, storeVars, collectionVars, result, reviewVars, selectionVars>>

Init ==
  /\ stage \in {"store", "collection", "review"}
  /\ StoreInit
  /\ stage = "store" \/ \A a \in Artifacts : IsRight(a)
  /\ CollectionInit
  /\ stage = "collection" \/ journal.limit = Max(RecordingLimits)
  /\ result \in IF stage = "review" THEN {"positive", "negative"} ELSE {"none"}
  /\ ReviewInit
  /\ SelectionInit

StoreStage == StoreStep \/ StorePowerLoss

(* The thread that reads hints lives as long as the call. *)
CollectionStage ==
  \/ CollectorStep
  \/ /\ WorkerStep \/ ServerReceives \/ ServerAnswers \/ ForeignUse
     /\ UNCHANGED <<adapter, collectorVars>>
  \/ At("waiting") /\ HostReads /\ UNCHANGED <<adapter, collectorVars>>

PowerLoss == ReviewPowerLoss /\ SelectionPowerLoss

ReviewStage ==
  \/ \E r \in Reviewers : ReviewStep(r) /\ UNCHANGED selectionVars
  \/ \E d \in Developers : SelectionStep(d) /\ UNCHANGED reviewVars
  \/ PowerLoss

Next ==
  \/ /\ stage = "store" /\ StoreStage
     /\ UNCHANGED <<stage, collectionVars, result, reviewVars, selectionVars>>
  \/ /\ stage = "collection" /\ CollectionStage
     /\ UNCHANGED <<stage, storeVars, result, reviewVars, selectionVars>>
  \/ /\ stage = "review" /\ ReviewStage
     /\ UNCHANGED <<stage, storeVars, collectionVars, result>>

Spec == Init /\ [][Next]_vars

-----------------------------------------------------------------------------
(* A snapshot was a state of the directory: when its last file had been read,
   every name led to the content the candidate's digests name, although the
   files are read one after the other while others write (artifacts.py:185). *)
SnapshotIsConsistent == reader.at = "returned" => reader.together

Recorded(kind, q) == \E e \in Range(journal.disk) : e.kind = kind /\ e.request = q

(* The server receives a request at most once, whatever the agent in the worker
   repeats, and only after its dispatch and every earlier receipt are on disk
   (native_worker.py:172, collection.py:282). *)
SentOnceAndRecorded ==
  \A q \in Requests :
    /\ server.received[q] <= 1
    /\ server.received[q] = 1 =>
         /\ Recorded("dispatch", q)
         /\ \A p \in 1 .. q - 1 : Recorded("terminal", p)

(* A report that the server's state is known is true: no worker of the
   collection runs, the server works on none of its requests and holds none of
   its instances.  The report itself is on disk, for which room was reserved,
   unless the storage failed (collection.py:305). *)
AbortsTellTheTruth ==
  /\ collector.at = "aborted" =>
       /\ Last(journal.disk) = Mark("aborted")
       /\ ~collector.uncertain => worker = NoWorker /\ server.work = 0 /\ ~server.loaded
  /\ collector.at = "raised" => journal.failures > 0

CandidateRequests == {q \in Requests : ArmOf(q) = "candidate"}

(* What is recorded as a response is the whole of what the server said to that
   request, and finished saying; and a verdict is positive only if the server
   itself gave every candidate request a whole and well-formed answer that proposes
   no action, and a right one in as many cases as the plan demands, whichever of
   the four calls was cut off, killed or repeated (native_prompt.py:282,
   collection.py:362). *)
OutcomesAreTheServers ==
  /\ \A event \in Range(journal.disk) :
       event.receipt.status = "completed" =>
         server.answer[event.request] = [content |-> event.receipt.content, finish |-> "stop"]
  /\ collector.verdict = "positive" =>
       /\ \A q \in CandidateRequests :
            server.answer[q] \in [content : {"right", "wrong"}, finish : {"stop"}]
       /\ Cardinality({c \in Cases : \E q \in CandidateRequests :
                         CaseOf(q) = c /\ server.answer[q].content = "right"})
            >= MinCandidateCorrect

(* The channel rejects the hints of a worker only after the agent in it had a
   generation refused: hints that are lost, or that the budget cuts short,
   never make the rest look stale (native_progress.py:115). *)
HonestHintsAreRead == worker.channel.status = "rejected" => worker.refused

(* A call that returns the candidate prompt found the collection positive, and
   did not begin after a revocation had been acknowledged, however the reviewers
   and the other calls interleave with its checks (development.py:197). *)
CandidateIsApproved ==
  served.prompt = "candidate" => result = "positive" /\ ~served.late

Ordered(heads) == \A a, b \in heads : IsPrefix(a, b) \/ IsPrefix(b, a)

(* What a call acknowledged stays: the frozen candidate, the reviews and the
   states of the selection each form one history that every returned head is
   on, whoever raced for a name, and a power failure neither removes nor tears
   one of them (quarantine.py:104, review.py:94, development.py:105). *)
AcknowledgedSurvive ==
  /\ \A d \in frozen : quarantine.seen[Target] = Written(<<d>>)
  /\ Ordered(reviewed)
  /\ \A head \in reviewed : reviews.seen[Len(head) - 1] = Written(head)
  /\ Ordered(selected)
  /\ \A head \in selected : store.seen[StateName[Len(head)]] = Written(head)
=============================================================================
