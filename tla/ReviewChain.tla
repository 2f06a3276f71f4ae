---------------------------- MODULE ReviewChain ----------------------------
(* learning/review.py: independent reviewers append dispositions of one
   audited collection to a directory.  The bytes of review-i are the decisions
   up to it, because each record names the digest of its predecessor; a head
   pin is such a sequence, and the zero digest is the empty one. *)
EXTENDS Publication, Integers, TLC

CONSTANT Reviewers

VARIABLES
  result,      \* the audited result of the collection, "none" before it exists
  reviews,     \* the directory of review-0 and review-1
  reviewing,   \* the call each reviewer is in
  reviewed     \* observed: the heads record_collection_review returned

reviewVars == <<reviews, reviewing, reviewed>>

Indices == 0 .. 1
Decisions == {"recommend", "reject", "revoke"}
NoReview == [at |-> "idle", decision |-> "none", pin |-> <<>>]

ReviewInit ==
  /\ reviews = EmptyDirectory(Indices)
  /\ reviewing = [r \in Reviewers |-> NoReview]
  /\ reviewed = {}

-----------------------------------------------------------------------------
(* The checks of read_collection_reviews. *)

Legal(chain) ==
  /\ Len(chain) >= 1 => chain[1].decision # "revoke"
  /\ Len(chain) = 2 => chain[1].decision = "recommend" /\ chain[2].decision = "revoke"
  /\ Len(chain) >= 1 /\ chain[1].decision = "recommend" => result = "positive"

(* The records that consecutive names hold, read one after the other. *)
Found == IF reviews.seen[0] = NoFile THEN 0
         ELSE IF reviews.seen[1] = NoFile THEN 1 ELSE 2

ScannedChain == IF Found = 0 THEN <<>> ELSE reviews.seen[Found - 1].bytes

ScanIsValid ==
  /\ \A i \in 0 .. Found - 1 :
       /\ Complete(reviews.seen[i])
       /\ reviews.seen[i].bytes = SubSeq(ScannedChain, 1, i + 1)
  /\ Legal(ScannedChain)

(* The names are listed after the records were read. *)
NamesMatch(chain) == Present(reviews) = 0 .. Len(chain) - 1

-----------------------------------------------------------------------------
(* record_collection_review *)

Admissible(chain, decision) ==
  /\ chain = <<>> => decision # "revoke"
  /\ chain # <<>> => chain[Len(chain)].decision = "recommend" /\ decision = "revoke"
  /\ decision = "recommend" => result = "positive"

(* The head the caller pinned must be the one scanned, so it is named by it. *)
BeginReview(r, decision) ==
  /\ reviewing[r].at = "idle"
  /\ result # "none"
  /\ ScanIsValid
  /\ Admissible(ScannedChain, decision)
  /\ reviewing' = [reviewing EXCEPT ![r] =
       [at |-> "scanned", decision |-> decision, pin |-> ScannedChain]]
  /\ UNCHANGED <<reviews, reviewed>>

AdmitReview(r) ==
  /\ reviewing[r].at = "scanned"
  /\ NamesMatch(reviewing[r].pin)
  /\ reviewing' = [reviewing EXCEPT ![r].at = "admitted"]
  /\ UNCHANGED <<reviews, reviewed>>

HeadOf(r) ==
  Append(reviewing[r].pin, [decision |-> reviewing[r].decision, by |-> r])

PublishReview(r) ==
  LET index == Len(reviewing[r].pin) IN
  /\ reviewing[r].at = "admitted"
  /\ Linkable(reviews, index)
  /\ reviews' = Link(reviews, index, Written(HeadOf(r)))
  /\ reviewing' = [reviewing EXCEPT ![r].at = "linked"]
  /\ UNCHANGED reviewed

AcknowledgeReview(r) ==
  /\ reviewing[r].at = "linked"
  /\ reviews' = SyncDirectory(reviews)
  /\ reviewed' = reviewed \cup {HeadOf(r)}
  /\ reviewing' = [reviewing EXCEPT ![r] = NoReview]

(* A refusal, an exception, or the end of the process: whatever was linked
   stays, and nothing is acknowledged. *)
StopReview(r) ==
  /\ reviewing[r].at # "idle"
  /\ reviewing' = [reviewing EXCEPT ![r] = NoReview]
  /\ UNCHANGED <<reviews, reviewed>>

ReviewStep(r) ==
  \/ \E decision \in Decisions : BeginReview(r, decision)
  \/ AdmitReview(r)
  \/ PublishReview(r)
  \/ AcknowledgeReview(r)
  \/ StopReview(r)

ReviewPowerLoss ==
  /\ reviews' \in PowerLosses(reviews)
  /\ reviewing' = [r \in Reviewers |-> NoReview]
  /\ UNCHANGED reviewed
=============================================================================
