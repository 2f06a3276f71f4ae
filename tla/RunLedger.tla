------------------------------ MODULE RunLedger ------------------------------
(***************************************************************************)
(* The evidence ledger (evidence/ledger.py) and the processes that share   *)
(* its file: controllers executing DohaaController.run and operators       *)
(* executing DohaaController.resume.  An append outside a transaction is a *)
(* SELECT of the head followed by an INSERT; the approval checkpoint and a *)
(* resume run inside BEGIN IMMEDIATE.  A process may die, or be refused    *)
(* the write lock until its busy timeout, between any two steps.           *)
(*                                                                         *)
(* The hash of the i-th event is i: distinct events have distinct hashes.  *)
(* Events between the first and the last of a run are one "gates.evaluated"*)
(* event.  Terms stand for a task contract and a control plane: sources,   *)
(* gate names and gate configurations together.                            *)
(***************************************************************************)
EXTENDS Integers, Sequences, FiniteSetsExt

CONSTANTS
  Runs,        \* run ids; each is also the process that executes the run
  Operators,   \* processes that execute resume, again and again
  Terms,       \* a task contract together with a control plane
  Uncapturable \* those whose control-plane identity cannot be captured

ASSUME ProcessesAssumption ==
  /\ Runs \cap Operators = {}
  /\ "nobody" \notin Runs \cup Operators
  /\ Uncapturable \subseteq Terms

Processes == Runs \cup Operators
Nobody    == "nobody"
NoTask    == [run |-> Nobody]
NoEvent   == [type |-> "none"]

VARIABLES
  chain,     \* committed events, in sequence order
  lock,      \* holder of the SQLite write lock, or Nobody
  tx,        \* events of the open transaction
  pc,
  task,      \* what a process was started with
  prepared   \* the event append() has built and not yet inserted

vars == <<chain, lock, tx, pc, task, prepared>>

Tasks == [run: Runs, terms: Terms, approved: BOOLEAN]

Types == {"run.received", "gates.evaluated", "run.checkpointed", "run.finished",
          "run.resumed"}

Reasons == {"none", "run.succeeded", "run.escalated",
            "control_plane.identity_failed", "approval.required"}

Events == [run: Runs, type: Types, reason: Reasons, terms: Terms, prev: Nat]

Places == {"idle", "receiving", "working", "evaluating", "evaluated", "finishing",
           "checkpointing", "escalating", "checking", "succeeding", "committing",
           "done", "failed"}

InTransaction == {"checkpointing", "escalating", "checking", "succeeding", "committing"}

Init ==
  /\ chain = <<>> /\ tx = <<>>
  /\ lock = Nobody
  /\ pc = [p \in Processes |-> "idle"]
  /\ task = [p \in Processes |-> NoTask]
  /\ prepared = [p \in Processes |-> NoEvent]

-----------------------------------------------------------------------------
(* append: the previous hash is the hash of the newest event the connection
   sees, its own uncommitted events included. *)
Event(run, type, reason, terms, sees) ==
  [run |-> run, type |-> type, reason |-> reason, terms |-> terms, prev |-> Len(sees)]

Prepare(r, from, to, type, reason) ==
  /\ pc[r] = from
  /\ prepared' = [prepared EXCEPT ![r] =
                    Event(r, type, reason, task[r].terms, chain)]
  /\ pc' = [pc EXCEPT ![r] = to]

Receive(r, terms) ==
  /\ pc[r] = "idle"
  /\ task' = [task EXCEPT ![r] = [run |-> r, terms |-> terms, approved |-> FALSE]]
  /\ prepared' = [prepared EXCEPT ![r] = Event(r, "run.received", "none", terms, chain)]
  /\ pc' = [pc EXCEPT ![r] = "receiving"]
  /\ UNCHANGED <<chain, lock, tx>>

Evaluate(r) ==
  /\ Prepare(r, "working", "evaluating", "gates.evaluated", "none")
  /\ UNCHANGED <<chain, lock, tx, task>>

FinishDirectly(r, reason) ==
  /\ Prepare(r, "evaluated", "finishing", "run.finished", reason)
  /\ reason = "control_plane.identity_failed" => task[r].terms \in Uncapturable
  /\ UNCHANGED <<chain, lock, tx, task>>

(* Faulty variant: the run goes on after its terminal event. *)
AfterInsertGoesOn ==
  [receiving |-> "working", evaluating |-> "evaluated", finishing |-> "working"]

AfterInsert ==
  [receiving |-> "working", evaluating |-> "evaluated", finishing |-> "done"]

Insert(r) ==
  /\ prepared[r] # NoEvent
  /\ lock = Nobody
  /\ chain' = Append(chain, prepared[r])
  /\ prepared' = [prepared EXCEPT ![r] = NoEvent]
  /\ pc' = [pc EXCEPT ![r] = AfterInsert[pc[r]]]
  /\ UNCHANGED <<lock, tx, task>>

-----------------------------------------------------------------------------
(* Transactions *)

(* Faulty variant: the transaction is begun without the write lock. *)
BeginDeferred(p, to) ==
  /\ lock' = p
  /\ pc' = [pc EXCEPT ![p] = to]

Begin(p, to) ==
  /\ lock = Nobody
  /\ lock' = p
  /\ pc' = [pc EXCEPT ![p] = to]

Write(p, from, to, run, type, reason, terms) ==
  /\ pc[p] = from
  /\ tx' = Append(tx, Event(run, type, reason, terms, chain \o tx))
  /\ pc' = [pc EXCEPT ![p] = to]
  /\ UNCHANGED <<chain, lock, task, prepared>>

BeginApproval(r) ==
  /\ pc[r] = "evaluated"
  /\ task[r].terms \notin Uncapturable
  /\ Begin(r, "checkpointing")
  /\ UNCHANGED <<chain, tx, task, prepared>>

RecordCheckpoint(r) ==
  Write(r, "checkpointing", "escalating", r, "run.checkpointed", "none", task[r].terms)

RecordApprovalRequired(r) ==
  Write(r, "escalating", "committing", r, "run.finished", "approval.required",
        task[r].terms)

Commit(p) ==
  /\ pc[p] = "committing"
  /\ chain' = chain \o tx
  /\ tx' = <<>>
  /\ lock' = Nobody
  /\ pc' = [pc EXCEPT ![p] = IF p \in Runs THEN "done" ELSE "idle"]
  /\ task' = [task EXCEPT ![p] = NoTask]
  /\ UNCHANGED prepared

-----------------------------------------------------------------------------
(* resume *)

Intact(events) == \A i \in DOMAIN events : events[i].prev = i - 1

Positions(events, run) == {i \in DOMAIN events : events[i].run = run}

Terminals(events, run) ==
  {i \in Positions(events, run) : events[i].type = "run.finished"}

LatestTerminal(events, run) == Max(Terminals(events, run))

(* records[-2], once the terminal event is known to be the latest *)
BeforeLatest(events, run) ==
  Max(Positions(events, run) \ {LatestTerminal(events, run)})

(* Faulty variants: any earlier approval request is good enough; the terms are
   not compared; the chain is not verified. *)
EligibleOnce(events, t) ==
  /\ Intact(events)
  /\ \E i, c \in Positions(events, t.run) :
       /\ events[i].reason = "approval.required"
       /\ events[c].type = "run.checkpointed" /\ events[c].terms = t.terms
  /\ t.terms \notin Uncapturable
  /\ t.approved

EligibleOnAnyTerms(events, t) ==
  /\ Intact(events)
  /\ Terminals(events, t.run) # {}
  /\ events[LatestTerminal(events, t.run)].reason = "approval.required"
  /\ \A i \in Positions(events, t.run) : i <= LatestTerminal(events, t.run)
  /\ t.terms \notin Uncapturable
  /\ t.approved

EligibleUnverified(events, t) ==
  LET latest     == LatestTerminal(events, t.run)
      checkpoint == events[BeforeLatest(events, t.run)]
  IN /\ Terminals(events, t.run) # {}
     /\ events[latest].reason = "approval.required"
     /\ checkpoint.type = "run.checkpointed"
     /\ t.terms \notin Uncapturable
     /\ checkpoint.terms = t.terms
     /\ t.approved

(* _resume_locked: each conjunct is one of its refusals. *)
Eligible(events, t) ==
  LET latest     == LatestTerminal(events, t.run)
      checkpoint == events[BeforeLatest(events, t.run)]
  IN /\ Intact(events)
     /\ Terminals(events, t.run) # {}
     /\ events[latest].reason = "approval.required"
     /\ \A i \in Positions(events, t.run) : i <= latest
     /\ Positions(events, t.run) # {latest}
     /\ checkpoint.type = "run.checkpointed"
     /\ t.terms \notin Uncapturable
     /\ checkpoint.terms = t.terms
     /\ t.approved

BeginResume(o, t) ==
  /\ pc[o] = "idle"
  /\ Begin(o, "checking")
  /\ task' = [task EXCEPT ![o] = t]
  /\ UNCHANGED <<chain, tx, prepared>>

(* Faulty variants: leaving the transaction by an exception commits it; or
   leaves it open. *)
CommitOnFailure(p, to) ==
  /\ lock' = IF lock = p THEN Nobody ELSE lock
  /\ tx' = IF lock = p THEN <<>> ELSE tx
  /\ chain' = IF lock = p THEN chain \o tx ELSE chain
  /\ pc' = [pc EXCEPT ![p] = to]
  /\ task' = [task EXCEPT ![p] = NoTask]
  /\ prepared' = [prepared EXCEPT ![p] = NoEvent]

LeaveOpen(p, to) ==
  /\ pc' = [pc EXCEPT ![p] = to]
  /\ task' = [task EXCEPT ![p] = NoTask]
  /\ prepared' = [prepared EXCEPT ![p] = NoEvent]
  /\ UNCHANGED <<chain, lock, tx>>

RollBackAs(p, to) ==
  /\ lock' = IF lock = p THEN Nobody ELSE lock
  /\ tx' = IF lock = p THEN <<>> ELSE tx
  /\ pc' = [pc EXCEPT ![p] = to]
  /\ task' = [task EXCEPT ![p] = NoTask]
  /\ prepared' = [prepared EXCEPT ![p] = NoEvent]
  /\ UNCHANGED chain

RefuseResume(o) ==
  /\ pc[o] = "checking"
  /\ ~ Eligible(chain, task[o])
  /\ RollBackAs(o, "idle")

RecordResumed(o) ==
  /\ Eligible(chain, task[o])
  /\ Write(o, "checking", "succeeding", task[o].run, "run.resumed", "none",
           chain[BeforeLatest(chain, task[o].run)].terms)

RecordSucceeded(o) ==
  Write(o, "succeeding", "committing", task[o].run, "run.finished", "run.succeeded",
        task[o].terms)

-----------------------------------------------------------------------------
(* A process dies, or an exception such as "database is locked" leaves run or
   resume.  A run is not started again; an operator may be. *)
Fails(p) ==
  /\ pc[p] \notin {"idle", "done", "failed"}
  /\ RollBackAs(p, IF p \in Runs THEN "failed" ELSE "idle")

RunStep(r) ==
  \/ Evaluate(r)
  \/ \E reason \in {"run.succeeded", "run.escalated", "control_plane.identity_failed"} :
       FinishDirectly(r, reason)
  \/ Insert(r)
  \/ BeginApproval(r)
  \/ RecordCheckpoint(r)
  \/ RecordApprovalRequired(r)
  \/ Commit(r)

OperatorStep(o) ==
  \/ RefuseResume(o)
  \/ RecordResumed(o)
  \/ RecordSucceeded(o)
  \/ Commit(o)

Start(p) ==
  \/ p \in Runs /\ \E terms \in Terms : Receive(p, terms)
  \/ p \in Operators /\ \E t \in Tasks : BeginResume(p, t)

Step(p) == IF p \in Runs THEN RunStep(p) ELSE OperatorStep(p)

Next == \E p \in Processes : Start(p) \/ Step(p) \/ Fails(p)

Spec == Init /\ [][Next]_vars

(* A process that is running goes on running: nothing in the code waits for
   an event that another process must produce, except for the write lock. *)
FairSpec == Spec /\ \A p \in Processes : WF_vars(Step(p))

-----------------------------------------------------------------------------
(* Properties *)

Resumes == {i \in DOMAIN chain : chain[i].type = "run.resumed"}

(* Types: and only the holder of the write lock is inside a transaction or has
   uncommitted events. *)
TypeOK ==
  /\ chain \in Seq(Events) /\ tx \in Seq(Events)
  /\ pc \in [Processes -> Places]
  /\ task \in [Processes -> Tasks \cup {NoTask}]
  /\ prepared \in [Processes -> Events \cup {NoEvent}]
  /\ lock \in Processes \cup {Nobody}
  /\ lock = Nobody => tx = <<>>
  /\ \A p \in Processes : pc[p] \in InTransaction <=> lock = p

(* An approval is consumed once, whatever the interleaving of operators,
   controllers and crashes: after its run.resumed event a run has exactly one
   more event, its success, and never a second run.resumed (resume,
   docs/learning-loop.md). *)
ApprovalIsConsumedOnce ==
  \A i \in Resumes :
    /\ i + 1 \in DOMAIN chain
    /\ chain[i + 1].run = chain[i].run
    /\ chain[i + 1].type = "run.finished" /\ chain[i + 1].reason = "run.succeeded"
    /\ \A j \in Positions(chain, chain[i].run) : j <= i + 1

(* No run is resumed on terms other than those of its own checkpoint, and the
   operator consented to exactly those: this run, this contract, this control
   plane (_resume_locked). *)
ResumedOnItsOwnTerms ==
  [][\A i \in DOMAIN chain' \ DOMAIN chain :
       chain'[i].type = "run.resumed" =>
         /\ \E p \in Operators :
              task[p] = [run |-> chain'[i].run, terms |-> chain'[i].terms,
                         approved |-> TRUE]
         /\ \E c \in DOMAIN chain :
              /\ chain[c].type = "run.checkpointed"
              /\ chain[c].run = chain'[i].run
              /\ chain[c].terms = chain'[i].terms]_vars

(* The pairs written in one transaction are never torn, by a crash or by
   another process: a checkpoint is followed at once by its approval.required
   (_complete_passing_run). *)
CheckpointIsNeverAlone ==
  \A i \in DOMAIN chain :
    chain[i].type = "run.checkpointed" =>
      /\ i + 1 \in DOMAIN chain
      /\ chain[i + 1].run = chain[i].run
      /\ chain[i + 1].reason = "approval.required"

(* No run was ever resumed on a ledger whose chain was already broken: up to
   every run.resumed event the chain verifies (verify_chain in
   _resume_locked, inside the transaction that appends). *)
ResumesOnIntactChain ==
  \A i \in Resumes : \A j \in 1 .. i : chain[j].prev = j - 1

(* The ledger is hash-chained: every event names its predecessor (verify_chain;
   "Append-only, hash-chained SQLite evidence ledger", evidence/ledger.py:1). *)
ChainIntact == Intact(chain)

(* The file is never left locked: a process that has begun a transaction ends
   it (transaction). *)
LockIsReleased == \A p \in Processes : lock = p ~> lock # p

-----------------------------------------------------------------------------
(* The protocol this implements, run by run. *)

Status(run) ==
  IF Positions(chain, run) = {} THEN "absent"
  ELSE IF Terminals(chain, run) = {} THEN "open"
  ELSE IF chain[LatestTerminal(chain, run)].reason = "approval.required" THEN "awaiting"
  ELSE IF \E i \in Positions(chain, run) : i \in Resumes THEN "approved"
  ELSE "closed"

Abstract == INSTANCE ApprovalProtocol WITH status <- [r \in Runs |-> Status(r)]

ImplementsApprovalProtocol == Abstract!Spec
=============================================================================
