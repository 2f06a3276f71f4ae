--------------------------- MODULE RunLedgerProofs ---------------------------
(***************************************************************************)
(* An approval is consumed once, on an intact chain, on the terms of its   *)
(* own checkpoint: for every number of runs, operators and terms, and with *)
(* every process free to die between any two steps.                        *)
(*                                                                         *)
(* The argument.  Only the lock holder has a transaction, and appends      *)
(* outside a transaction need the lock too; so what resume has verified    *)
(* under the lock still holds when it commits (Transactions).  A run that  *)
(* has stopped appends nothing (StoppedRuns), so a resumed run's success   *)
(* stays its latest event, and its latest terminal event is no longer      *)
(* approval.required: it is not eligible again.                            *)
(*                                                                         *)
(* The ledger implements ApprovalProtocol, run by run.  The status of a    *)
(* run is a function of its committed events, and only Insert and Commit   *)
(* commit some, all of one run (StatusKept).  A controller that can still  *)
(* append has no terminal event on record, and one past run.received has   *)
(* an event there (Started): so what it appends opens, closes or suspends  *)
(* the run.  What an operator commits follows an approval.required that is *)
(* the run's latest word.                                                  *)
(***************************************************************************)
EXTENDS RunLedger, FiniteSetTheorems, SequenceTheorems, TLAPS

(* What a run has started with and has prepared to append. *)
Controllers ==
  \A r \in Runs :
    /\ pc[r] \notin {"idle", "done", "failed"} =>
         task[r] \in Tasks /\ task[r].run = r
    /\ pc[r] \in {"checking", "succeeding"} => FALSE
    /\ prepared[r] # NoEvent =>
         /\ pc[r] \in {"receiving", "evaluating", "finishing"}
         /\ prepared[r].run = r
         /\ prepared[r].type \notin {"run.checkpointed", "run.resumed"}
         /\ prepared[r].type = "run.finished" => pc[r] = "finishing"

(* The uncommitted events, by what the holder of the lock is doing. *)
Transactions ==
  /\ \A r \in Runs :
       /\ pc[r] = "checkpointing" => tx = <<>>
       /\ pc[r] = "escalating" =>
            Len(tx) = 1 /\ tx[1].run = r /\ tx[1].type = "run.checkpointed"
       /\ pc[r] = "committing" =>
            /\ Len(tx) = 2 /\ tx[1].run = r /\ tx[2].run = r
            /\ tx[1].type = "run.checkpointed"
            /\ tx[2].type = "run.finished" /\ tx[2].reason = "approval.required"
  /\ \A o \in Operators :
       /\ pc[o] \in {"idle", "checking", "succeeding", "committing"}
       /\ prepared[o] = NoEvent
       /\ pc[o] # "idle" => task[o] \in Tasks
       /\ pc[o] = "checking" => tx = <<>>
       /\ pc[o] \in {"succeeding", "committing"} =>
            /\ Eligible(chain, task[o])
            /\ tx[1].run = task[o].run /\ tx[1].type = "run.resumed"
            /\ tx[1].prev = Len(chain)
            /\ tx[1].terms = task[o].terms
       /\ pc[o] = "succeeding" => Len(tx) = 1
       /\ pc[o] = "committing" =>
            /\ Len(tx) = 2 /\ tx[2].run = task[o].run
            /\ tx[2].type = "run.finished" /\ tx[2].reason = "run.succeeded"

(* A run that has a terminal event has stopped. *)
StoppedRuns ==
  \A i \in DOMAIN chain :
    chain[i].type \in {"run.finished", "run.checkpointed", "run.resumed"} =>
      pc[chain[i].run] = "done"

IInv ==
  /\ TypeOK
  /\ Controllers
  /\ Transactions
  /\ StoppedRuns
  /\ ApprovalIsConsumedOnce
  /\ CheckpointIsNeverAlone
  /\ ResumesOnIntactChain

-----------------------------------------------------------------------------
(* Facts about sets of positions *)

LEMMA LeastNatural ==
  ASSUME NEW S, S \subseteq Nat, S # {}
  PROVE  \E n \in S : \A m \in S : n <= m
<1>. DEFINE T == {1 .. n : n \in S}
<1>1. T \subseteq FiniteSubsetsOf(Nat)
  <2>1. \A n \in S : IsFiniteSet(1 .. n) /\ 1 .. n \subseteq Nat
    BY FS_Interval
  <2>. QED  BY <2>1 DEF FiniteSubsetsOf
<1>2. PICK x \in T : \A y \in T : ~ (<<y, x>> \in StrictSubsetOrdering(Nat))
  <2>1. T # {}
    OBVIOUS
  <2>. HIDE DEF T
  <2>. QED  BY <1>1, <2>1, FS_StrictSubsetOrderingWellFounded, WFMin
<1>3. PICK n \in S : x = 1 .. n
  BY <1>2
<1>4. ASSUME NEW m \in S, m < n PROVE FALSE
  <2>1. n \in 1 .. n /\ n \notin 1 .. m /\ 1 .. m \subseteq 1 .. n
    BY <1>4
  <2>2. <<1 .. m, 1 .. n>> \in StrictSubsetOrdering(Nat)
    BY <2>1 DEF StrictSubsetOrdering
  <2>. QED  BY <2>2, <1>2, <1>3
<1>. QED  BY <1>4

LEMMA GreatestPosition ==
  ASSUME NEW n \in Nat, NEW S, S \subseteq 1 .. n, S # {}
  PROVE  Max(S) \in S /\ \A y \in S : y <= Max(S)
<1>. DEFINE D == {n - x : x \in S}
<1>1. PICK d \in D : \A e \in D : d <= e
  <2>1. \A x \in S : n - x \in Nat
    OBVIOUS
  <2>2. D \subseteq Nat /\ D # {}
    BY <2>1
  <2>. HIDE DEF D
  <2>. QED  BY <2>2, LeastNatural
<1>2. PICK x \in S : d = n - x
  OBVIOUS
<1>3. \A y \in S : x >= y
  <2>1. \A y \in S : n - x <= n - y
    BY <1>1, <1>2
  <2>. QED  BY <2>1
<1>. QED  BY <1>2, <1>3 DEF Max

(* An eligible run has a terminal event and the checkpoint of its terms. *)
LEMMA EligibleRun ==
  ASSUME NEW events \in Seq(Events), NEW t, Eligible(events, t)
  PROVE  /\ \E i \in DOMAIN events :
              events[i].run = t.run /\ events[i].type = "run.finished"
         /\ \E c \in DOMAIN events :
              /\ events[c].run = t.run /\ events[c].type = "run.checkpointed"
              /\ events[c].terms = t.terms
         /\ Intact(events)
         /\ t.approved
<1>. DEFINE P == Positions(events, t.run)
            latest == LatestTerminal(events, t.run)
<1>1. P \subseteq 1 .. Len(events) /\ Len(events) \in Nat
  BY DEF Positions
<1>2. PICK i \in Terminals(events, t.run) : TRUE
  BY DEF Eligible
<1>3. latest \in Terminals(events, t.run)
  BY <1>1, <1>2, GreatestPosition DEF LatestTerminal, Terminals
<1>4. P \ {latest} # {}
  BY <1>3 DEF Eligible, Terminals
<1>5. BeforeLatest(events, t.run) \in P
  BY <1>1, <1>4, GreatestPosition DEF BeforeLatest
<1>. QED
  BY <1>2, <1>5 DEF Eligible, Positions, Terminals

(* A resumed run is not eligible again: its latest terminal event is the
   success its resume ended with. *)
LEMMA ResumedIsNotEligible ==
  ASSUME chain \in Seq(Events), ApprovalIsConsumedOnce,
         NEW t, Eligible(chain, t),
         NEW i \in Resumes, chain[i].run = t.run
  PROVE  FALSE
<1>. DEFINE T == Terminals(chain, t.run)
<1>1. i \in Nat /\ i + 1 \in T /\ T \subseteq Int
  BY DEF ApprovalIsConsumedOnce, Resumes, Terminals, Positions
<1>2. \A y \in T : i + 1 >= y
  BY <1>1 DEF ApprovalIsConsumedOnce, Terminals
<1>3. Max(T) = i + 1
  <2>. HIDE DEF T
  <2>1. Max(T) \in T /\ \A y \in T : Max(T) >= y
    BY <1>1, <1>2 DEF Max
  <2>2. Max(T) >= i + 1 /\ i + 1 >= Max(T) /\ Max(T) \in Int
    BY <2>1, <1>1, <1>2
  <2>. QED  BY <2>2, <1>1
<1>4. chain[i + 1].reason = "approval.required"
  BY <1>3 DEF Eligible, LatestTerminal
<1>. QED
  BY <1>4 DEF ApprovalIsConsumedOnce

-----------------------------------------------------------------------------
(* How the chain grows *)

LEMMA RunOfEvent ==
  ASSUME TypeOK
  PROVE  /\ Len(chain) \in Nat /\ DOMAIN chain = 1 .. Len(chain)
         /\ \A i \in DOMAIN chain : chain[i].run \in Processes
<1>1. chain \in Seq(Events)
  BY DEF TypeOK
<1>2. \A e \in Events : e.run \in Processes
  BY DEF Events, Processes
<1>. HIDE DEF Events
<1>. QED
  BY <1>1, <1>2

LEMMA InsertGrowsChain ==
  ASSUME TypeOK, Controllers, NEW r \in Runs, Insert(r)
  PROVE  /\ prepared[r].run = r
         /\ prepared[r].type \notin {"run.checkpointed", "run.resumed"}
         /\ prepared[r].type = "run.finished" => pc'[r] = "done"
         /\ pc[r] # "done"
         /\ DOMAIN chain' = 1 .. Len(chain) + 1
         /\ \A i \in DOMAIN chain : chain'[i] = chain[i]
         /\ chain'[Len(chain) + 1] = prepared[r]
<1>1. /\ prepared[r] \in Events
      /\ prepared[r].run = r
      /\ prepared[r].type \notin {"run.checkpointed", "run.resumed"}
      /\ prepared[r].type = "run.finished" => pc[r] = "finishing"
      /\ pc[r] # "done"
  BY DEF TypeOK, Controllers, Insert, Processes
<1>2. prepared[r].type = "run.finished" => pc'[r] = "done"
  BY <1>1 DEF TypeOK, Insert, AfterInsert, Processes
<1>3. chain \in Seq(Events) /\ chain' = Append(chain, prepared[r])
  BY DEF TypeOK, Insert
<1>. HIDE DEF Events
<1>. QED
  BY <1>1, <1>2, <1>3

LEMMA CommitGrowsChain ==
  ASSUME TypeOK, Transactions, NEW p \in Processes, Commit(p)
  PROVE  /\ Len(tx) = 2
         /\ DOMAIN chain' = 1 .. Len(chain) + 2
         /\ \A i \in DOMAIN chain : chain'[i] = chain[i]
         /\ chain'[Len(chain) + 1] = tx[1]
         /\ chain'[Len(chain) + 2] = tx[2]
<1>1. Len(tx) = 2
  BY DEF Transactions, Commit, Processes
<1>2. chain \in Seq(Events) /\ tx \in Seq(Events) /\ chain' = chain \o tx
  BY DEF TypeOK, Commit
<1>. HIDE DEF Events
<1>. DEFINE joined == chain \o tx
<1>3. /\ joined \in Seq(Events) /\ Len(joined) = Len(chain) + 2
      /\ \A i \in 1 .. Len(chain) + 2 :
           joined[i] = IF i <= Len(chain) THEN chain[i] ELSE tx[i - Len(chain)]
  <2>. HIDE DEF joined
  <2>1. /\ joined \in Seq(Events) /\ Len(joined) = Len(chain) + Len(tx)
        /\ \A i \in 1 .. Len(chain) + Len(tx) :
             joined[i] = IF i <= Len(chain) THEN chain[i] ELSE tx[i - Len(chain)]
    BY <1>2, ConcatProperties, Zenon DEF joined
  <2>. QED  BY <2>1, <1>1
<1>. HIDE DEF joined
<1>4. Len(chain) \in Nat /\ DOMAIN chain = 1 .. Len(chain)
  BY <1>2
<1>5. joined[Len(chain) + 1] = tx[1] /\ joined[Len(chain) + 2] = tx[2]
  BY <1>3, <1>4
<1>6. DOMAIN joined = 1 .. Len(chain) + 2
  BY <1>3
<1>. QED
  BY <1>1, <1>2, <1>3, <1>4, <1>5, <1>6 DEF joined

-----------------------------------------------------------------------------
(* One lemma per conjunct; in each, one step per action. *)

LEMMA EventType ==
  ASSUME NEW run \in Runs, NEW type \in Types, NEW reason \in Reasons,
         NEW terms \in Terms, NEW sees, Len(sees) \in Nat
  PROVE  Event(run, type, reason, terms, sees) \in Events
BY DEF Event, Events

LEMMA PrepareType ==
  ASSUME TypeOK, NEW r \in Runs, task[r] \in Tasks, NEW from \in Places \ InTransaction,
         NEW to \in Places \ InTransaction, NEW type \in Types, NEW reason \in Reasons,
         Prepare(r, from, to, type, reason), UNCHANGED <<chain, lock, tx, task>>
  PROVE  TypeOK'
<1>1. task[r].terms \in Terms /\ Len(chain) \in Nat
  BY DEF TypeOK, Tasks
<1>2. prepared' \in [Processes -> Events \cup {NoEvent}]
  <2>. HIDE DEF Events, NoEvent
  <2>. QED  BY <1>1, EventType DEF Prepare, TypeOK, Processes
<1>3. /\ pc' \in [Processes -> Places]
      /\ \A p \in Processes : pc'[p] \in InTransaction <=> pc[p] \in InTransaction
  <2>. HIDE DEF Places, InTransaction
  <2>. QED  BY DEF Prepare, TypeOK, Processes
<1>. QED
  BY <1>2, <1>3 DEF TypeOK

LEMMA WriteType ==
  ASSUME TypeOK, NEW p \in Processes, NEW from \in InTransaction,
         NEW to \in InTransaction, NEW run \in Runs, NEW type \in Types,
         NEW reason \in Reasons, NEW terms \in Terms,
         Write(p, from, to, run, type, reason, terms)
  PROVE  TypeOK'
<1>1. Len(chain \o tx) \in Nat
  BY DEF TypeOK
<1>2. Event(run, type, reason, terms, chain \o tx) \in Events
  BY <1>1 DEF Event, Events
<1>3. tx' \in Seq(Events)
  <2>. HIDE DEF Events
  <2>. QED  BY <1>2 DEF Write, TypeOK
<1>4. lock # Nobody
  BY ProcessesAssumption DEF Write, TypeOK, Processes, Nobody
<1>. QED
  BY <1>3, <1>4 DEF Write, TypeOK, Processes, Places, InTransaction

LEMMA TypeStep == IInv /\ [Next]_vars => TypeOK'
<1>. SUFFICES ASSUME IInv, [Next]_vars PROVE TypeOK'
  OBVIOUS
<1>. USE ProcessesAssumption DEF IInv, TypeOK, Processes, Places, InTransaction, Nobody
<1>1. ASSUME NEW r \in Runs, NEW terms \in Terms, Receive(r, terms) PROVE TypeOK'
  <2>1. Event(r, "run.received", "none", terms, chain) \in Events
    BY EventType DEF Types, Reasons
  <2>2. [run |-> r, terms |-> terms, approved |-> FALSE] \in Tasks
    BY DEF Tasks
  <2>. QED  BY <1>1, <2>1, <2>2 DEF Receive
<1>2. ASSUME NEW o \in Operators, NEW t \in Tasks, BeginResume(o, t) PROVE TypeOK'
  BY <1>2 DEF BeginResume, Begin
<1>3. ASSUME NEW r \in Runs, Evaluate(r) PROVE TypeOK'
  <2>1. task[r] \in Tasks
    BY <1>3 DEF Evaluate, Prepare, Controllers
  <2>. HIDE DEF TypeOK
  <2>. QED  BY <1>3, <2>1, PrepareType DEF Evaluate, Types, Reasons
<1>4. ASSUME NEW r \in Runs,
             NEW reason \in {"run.succeeded", "run.escalated",
                             "control_plane.identity_failed"},
             FinishDirectly(r, reason)
      PROVE  TypeOK'
  <2>1. task[r] \in Tasks
    BY <1>4 DEF FinishDirectly, Prepare, Controllers
  <2>. HIDE DEF TypeOK
  <2>. QED  BY <1>4, <2>1, PrepareType DEF FinishDirectly, Types, Reasons
<1>5. ASSUME NEW r \in Runs, Insert(r) PROVE TypeOK'
  BY <1>5 DEF Insert, AfterInsert, Controllers
<1>6. ASSUME NEW r \in Runs, BeginApproval(r) PROVE TypeOK'
  BY <1>6 DEF BeginApproval, Begin
<1>7. ASSUME NEW r \in Runs, RecordCheckpoint(r) PROVE TypeOK'
  <2>1. task[r].terms \in Terms
    BY <1>7 DEF RecordCheckpoint, Write, Controllers, Tasks
  <2>. HIDE DEF TypeOK
  <2>. QED  BY <1>7, <2>1, WriteType DEF RecordCheckpoint, Types, Reasons
<1>8. ASSUME NEW r \in Runs, RecordApprovalRequired(r) PROVE TypeOK'
  <2>1. task[r].terms \in Terms
    BY <1>8 DEF RecordApprovalRequired, Write, Controllers, Tasks
  <2>. HIDE DEF TypeOK
  <2>. QED  BY <1>8, <2>1, WriteType DEF RecordApprovalRequired, Types, Reasons
<1>9. ASSUME NEW p \in Processes, Commit(p) PROVE TypeOK'
  BY <1>9 DEF Commit
<1>10. ASSUME NEW o \in Operators, RefuseResume(o) PROVE TypeOK'
  BY <1>10 DEF RefuseResume, RollBackAs
<1>11. ASSUME NEW o \in Operators, RecordResumed(o) PROVE TypeOK'
  <2>1. /\ task[o].run \in Runs
        /\ chain[BeforeLatest(chain, task[o].run)].terms \in Terms
    BY <1>11 DEF RecordResumed, Write, Transactions, Tasks, Eligible
  <2>. HIDE DEF TypeOK
  <2>. QED  BY <1>11, <2>1, WriteType DEF RecordResumed, Types, Reasons
<1>12. ASSUME NEW o \in Operators, RecordSucceeded(o) PROVE TypeOK'
  <2>1. task[o].run \in Runs /\ task[o].terms \in Terms
    BY <1>12 DEF RecordSucceeded, Write, Transactions, Tasks
  <2>. HIDE DEF TypeOK
  <2>. QED  BY <1>12, <2>1, WriteType DEF RecordSucceeded, Types, Reasons
<1>13. ASSUME NEW p \in Processes, Fails(p) PROVE TypeOK'
  BY <1>13 DEF Fails, RollBackAs
<1>14. CASE UNCHANGED vars
  BY <1>14 DEF vars
<1>. QED
  BY <1>1, <1>2, <1>3, <1>4, <1>5, <1>6, <1>7, <1>8, <1>9, <1>10, <1>11, <1>12,
     <1>13, <1>14
  DEF Next, Start, Step, RunStep, OperatorStep

LEMMA ControllersStep == IInv /\ [Next]_vars => Controllers'
<1>. SUFFICES ASSUME IInv, [Next]_vars PROVE Controllers'
  OBVIOUS
<1>. USE ProcessesAssumption DEF IInv, TypeOK, Processes, Controllers
<1>1. ASSUME NEW r \in Runs, NEW terms \in Terms, Receive(r, terms) PROVE Controllers'
  BY <1>1 DEF Receive, Event, Tasks
<1>2. ASSUME NEW o \in Operators, NEW t \in Tasks, BeginResume(o, t) PROVE Controllers'
  BY <1>2 DEF BeginResume, Begin, InTransaction
<1>3. ASSUME NEW r \in Runs, Evaluate(r) PROVE Controllers'
  BY <1>3 DEF Evaluate, Prepare, Event
<1>4. ASSUME NEW r \in Runs, NEW reason, FinishDirectly(r, reason) PROVE Controllers'
  BY <1>4 DEF FinishDirectly, Prepare, Event
<1>5. ASSUME NEW r \in Runs, Insert(r) PROVE Controllers'
  BY <1>5 DEF Insert, AfterInsert
<1>6. ASSUME NEW r \in Runs, BeginApproval(r) PROVE Controllers'
  BY <1>6 DEF BeginApproval, Begin
<1>7. ASSUME NEW r \in Runs, RecordCheckpoint(r) PROVE Controllers'
  BY <1>7 DEF RecordCheckpoint, Write, Event
<1>8. ASSUME NEW r \in Runs, RecordApprovalRequired(r) PROVE Controllers'
  BY <1>8 DEF RecordApprovalRequired, Write, Event
<1>9. ASSUME NEW p \in Processes, Commit(p) PROVE Controllers'
  BY <1>9 DEF Commit, Transactions
<1>10. ASSUME NEW o \in Operators, RefuseResume(o) PROVE Controllers'
  BY <1>10 DEF RefuseResume, RollBackAs
<1>11. ASSUME NEW o \in Operators, RecordResumed(o) PROVE Controllers'
  BY <1>11 DEF RecordResumed, Write, Event
<1>12. ASSUME NEW o \in Operators, RecordSucceeded(o) PROVE Controllers'
  BY <1>12 DEF RecordSucceeded, Write, Event
<1>13. ASSUME NEW p \in Processes, Fails(p) PROVE Controllers'
  BY <1>13 DEF Fails, RollBackAs
<1>14. CASE UNCHANGED vars
  BY <1>14 DEF vars
<1>. QED
  BY <1>1, <1>2, <1>3, <1>4, <1>5, <1>6, <1>7, <1>8, <1>9, <1>10, <1>11, <1>12,
     <1>13, <1>14
  DEF Next, Start, Step, RunStep, OperatorStep

LEMMA TransactionsStep == IInv /\ [Next]_vars => Transactions'
<1>. SUFFICES ASSUME IInv, [Next]_vars PROVE Transactions'
  OBVIOUS
<1>. USE ProcessesAssumption DEF IInv, TypeOK, Processes, InTransaction, Nobody, Transactions
<1>1. ASSUME NEW r \in Runs, NEW terms \in Terms, Receive(r, terms) PROVE Transactions'
  BY <1>1 DEF Receive, Event
<1>2. ASSUME NEW o \in Operators, NEW t \in Tasks, BeginResume(o, t) PROVE Transactions'
  BY <1>2 DEF BeginResume, Begin
<1>3. ASSUME NEW r \in Runs, Evaluate(r) PROVE Transactions'
  BY <1>3 DEF Evaluate, Prepare, Event
<1>4. ASSUME NEW r \in Runs, NEW reason, FinishDirectly(r, reason) PROVE Transactions'
  BY <1>4 DEF FinishDirectly, Prepare, Event
<1>5. ASSUME NEW r \in Runs, Insert(r) PROVE Transactions'
  BY <1>5 DEF Insert, AfterInsert, Controllers
<1>6. ASSUME NEW r \in Runs, BeginApproval(r) PROVE Transactions'
  BY <1>6 DEF BeginApproval, Begin
<1>7. ASSUME NEW r \in Runs, RecordCheckpoint(r) PROVE Transactions'
  BY <1>7 DEF RecordCheckpoint, Write, Event
<1>8. ASSUME NEW r \in Runs, RecordApprovalRequired(r) PROVE Transactions'
  BY <1>8 DEF RecordApprovalRequired, Write, Event
<1>9. ASSUME NEW p \in Processes, Commit(p) PROVE Transactions'
  BY <1>9 DEF Commit
<1>10. ASSUME NEW o \in Operators, RefuseResume(o) PROVE Transactions'
  BY <1>10 DEF RefuseResume, RollBackAs
<1>11. ASSUME NEW o \in Operators, RecordResumed(o) PROVE Transactions'
  <2>. DEFINE terms == chain[BeforeLatest(chain, task[o].run)].terms
              e     == Event(task[o].run, "run.resumed", "none", terms, chain)
  <2>1. pc[o] = "checking" /\ tx = <<>> /\ lock = o /\ Eligible(chain, task[o])
    BY <1>11 DEF RecordResumed, Write
  <2>2. chain \o tx = chain
    BY <2>1
  <2>3. tx' = <<e>>
    BY <1>11, <2>1, <2>2 DEF RecordResumed, Write
  <2>4. e.terms = task[o].terms /\ e.prev = Len(chain)
        /\ e.run = task[o].run /\ e.type = "run.resumed"
    BY <2>1 DEF Eligible, Event
  <2>. HIDE DEF e
  <2>. QED  BY <1>11, <2>1, <2>3, <2>4 DEF RecordResumed, Write
<1>12. ASSUME NEW o \in Operators, RecordSucceeded(o) PROVE Transactions'
  BY <1>12 DEF RecordSucceeded, Write, Event
<1>13. ASSUME NEW p \in Processes, Fails(p) PROVE Transactions'
  BY <1>13 DEF Fails, RollBackAs
<1>14. CASE UNCHANGED vars
  BY <1>14 DEF vars
<1>. QED
  BY <1>1, <1>2, <1>3, <1>4, <1>5, <1>6, <1>7, <1>8, <1>9, <1>10, <1>11, <1>12,
     <1>13, <1>14
  DEF Next, Start, Step, RunStep, OperatorStep

LEMMA StoppedRunsStep == IInv /\ [Next]_vars => StoppedRuns'
<1>. SUFFICES ASSUME IInv, [Next]_vars PROVE StoppedRuns'
  OBVIOUS
<1>. USE ProcessesAssumption DEF IInv, TypeOK, Processes, StoppedRuns
<1>1. ASSUME NEW r \in Runs, NEW terms \in Terms, Receive(r, terms) PROVE StoppedRuns'
  BY <1>1 DEF Receive, Event
<1>2. ASSUME NEW o \in Operators, NEW t \in Tasks, BeginResume(o, t) PROVE StoppedRuns'
  BY <1>2 DEF BeginResume, Begin
<1>3. ASSUME NEW r \in Runs, Evaluate(r) PROVE StoppedRuns'
  BY <1>3 DEF Evaluate, Prepare, Event
<1>4. ASSUME NEW r \in Runs, NEW reason, FinishDirectly(r, reason) PROVE StoppedRuns'
  BY <1>4 DEF FinishDirectly, Prepare, Event
<1>5. ASSUME NEW r \in Runs, Insert(r) PROVE StoppedRuns'
  <2>1. \A q \in Processes : pc[q] = "done" => pc'[q] = "done"
    BY <1>5, InsertGrowsChain DEF Insert
  <2>2. /\ Len(chain) \in Nat /\ DOMAIN chain = 1 .. Len(chain)
        /\ \A i \in DOMAIN chain : chain[i].run \in Processes
    BY RunOfEvent
  <2>. HIDE DEF TypeOK
  <2>. QED  BY <1>5, <2>1, <2>2, InsertGrowsChain
<1>6. ASSUME NEW r \in Runs, BeginApproval(r) PROVE StoppedRuns'
  BY <1>6 DEF BeginApproval, Begin
<1>7. ASSUME NEW r \in Runs, RecordCheckpoint(r) PROVE StoppedRuns'
  BY <1>7 DEF RecordCheckpoint, Write, Event
<1>8. ASSUME NEW r \in Runs, RecordApprovalRequired(r) PROVE StoppedRuns'
  BY <1>8 DEF RecordApprovalRequired, Write, Event
<1>9. ASSUME NEW p \in Processes, Commit(p) PROVE StoppedRuns'
  <2>1. \A q \in Processes : pc[q] = "done" => pc'[q] = "done"
    BY <1>9 DEF Commit
  <2>2. pc'[tx[1].run] = "done" /\ tx[2].run = tx[1].run
    <3>1. CASE p \in Runs
      BY <1>9, <3>1 DEF Commit, Transactions
    <3>2. CASE p \in Operators
      <4>1. Eligible(chain, task[p]) /\ tx[1].run = task[p].run
            /\ tx[2].run = task[p].run
        BY <1>9, <3>2 DEF Commit, Transactions
      <4>2. pc[task[p].run] = "done"
        BY <4>1, EligibleRun
      <4>3. task[p].run \in Processes
        BY <1>9, <3>2 DEF Commit, Transactions, Tasks
      <4>. QED  BY <4>1, <4>2, <4>3, <2>1
    <3>. QED  BY <3>1, <3>2
  <2>3. /\ Len(chain) \in Nat /\ DOMAIN chain = 1 .. Len(chain)
        /\ \A i \in DOMAIN chain : chain[i].run \in Processes
    BY RunOfEvent
  <2>. HIDE DEF TypeOK
  <2>. QED  BY <1>9, <2>1, <2>2, <2>3, CommitGrowsChain
<1>10. ASSUME NEW o \in Operators, RefuseResume(o) PROVE StoppedRuns'
  BY <1>10 DEF RefuseResume, RollBackAs
<1>11. ASSUME NEW o \in Operators, RecordResumed(o) PROVE StoppedRuns'
  BY <1>11 DEF RecordResumed, Write, Event
<1>12. ASSUME NEW o \in Operators, RecordSucceeded(o) PROVE StoppedRuns'
  BY <1>12 DEF RecordSucceeded, Write, Event
<1>13. ASSUME NEW p \in Processes, Fails(p) PROVE StoppedRuns'
  BY <1>13 DEF Fails, RollBackAs
<1>14. CASE UNCHANGED vars
  BY <1>14 DEF vars
<1>. QED
  BY <1>1, <1>2, <1>3, <1>4, <1>5, <1>6, <1>7, <1>8, <1>9, <1>10, <1>11, <1>12,
     <1>13, <1>14
  DEF Next, Start, Step, RunStep, OperatorStep

-----------------------------------------------------------------------------
(* The chain: only Insert and Commit change it. *)

LEMMA ChainChanges ==
  ASSUME [Next]_vars
  PROVE  \/ UNCHANGED chain
         \/ \E r \in Runs : Insert(r)
         \/ \E p \in Processes : Commit(p)
BY DEF Next, vars, Start, Step, RunStep, OperatorStep, Receive, BeginResume, Evaluate,
       FinishDirectly, BeginApproval, RecordCheckpoint, RecordApprovalRequired,
       RefuseResume, RecordResumed, RecordSucceeded, Fails, RollBackAs, Write, Processes

(* What a transaction commits: a controller its approval checkpoint, an operator
   the success of a run that is eligible and was never resumed. *)
LEMMA CommittedPair ==
  ASSUME IInv, NEW p \in Processes, Commit(p)
  PROVE  /\ tx[2].run = tx[1].run /\ tx[2].type = "run.finished"
         /\ \A i \in Resumes : chain[i].run # tx[1].run
         /\ \/ /\ tx[1].type = "run.checkpointed"
               /\ tx[2].reason = "approval.required"
            \/ /\ tx[1].type = "run.resumed" /\ tx[1].prev = Len(chain)
               /\ tx[2].reason = "run.succeeded"
               /\ Intact(chain)
<1>. USE DEF IInv
<1>1. CASE p \in Runs
  <2>1. tx[1].run = p /\ pc[p] # "done"
    BY <1>1 DEF Transactions, Commit
  <2>2. \A i \in Resumes : pc[chain[i].run] = "done"
    BY DEF StoppedRuns, Resumes
  <2>. QED  BY <1>1, <2>1, <2>2 DEF Transactions, Commit
<1>2. CASE p \in Operators
  <2>1. Eligible(chain, task[p]) /\ tx[1].run = task[p].run
    BY <1>2 DEF Transactions, Commit
  <2>2. \A i \in Resumes : chain[i].run # tx[1].run
    BY <2>1, ResumedIsNotEligible DEF TypeOK
  <2>3. Intact(chain)
    BY <2>1, EligibleRun DEF TypeOK
  <2>. QED  BY <1>2, <2>2, <2>3 DEF Transactions, Commit
<1>. QED
  BY <1>1, <1>2 DEF Processes

LEMMA ApprovalStep == IInv /\ [Next]_vars => ApprovalIsConsumedOnce'
<1>. SUFFICES ASSUME IInv, [Next]_vars,
                     NEW i \in Resumes'
              PROVE  /\ i + 1 \in DOMAIN chain'
                     /\ chain'[i + 1].run = chain'[i].run
                     /\ chain'[i + 1].type = "run.finished"
                     /\ chain'[i + 1].reason = "run.succeeded"
                     /\ \A j \in DOMAIN chain' :
                          chain'[j].run = chain'[i].run => j <= i + 1
  BY DEF ApprovalIsConsumedOnce, Positions
<1>1. /\ Len(chain) \in Nat /\ DOMAIN chain = 1 .. Len(chain)
      /\ TypeOK /\ Controllers /\ Transactions
  BY RunOfEvent DEF IInv
<1>2. \A k \in Resumes :
        /\ k \in DOMAIN chain /\ k + 1 \in DOMAIN chain
        /\ chain[k + 1].run = chain[k].run
        /\ chain[k + 1].type = "run.finished" /\ chain[k + 1].reason = "run.succeeded"
        /\ \A j \in DOMAIN chain : chain[j].run = chain[k].run => j <= k + 1
        /\ pc[chain[k].run] = "done"
  BY DEF IInv, ApprovalIsConsumedOnce, Positions, StoppedRuns, Resumes
<1>3. CASE UNCHANGED chain
  BY <1>2, <1>3 DEF Resumes
<1>4. ASSUME NEW r \in Runs, Insert(r) PROVE i \in Resumes /\ chain[i].run # r
  BY <1>1, <1>2, <1>4, InsertGrowsChain DEF Resumes
<1>5. CASE \E r \in Runs : Insert(r)
  BY <1>1, <1>2, <1>4, <1>5, InsertGrowsChain
<1>6. CASE \E p \in Processes : Commit(p)
  <2>1. PICK p \in Processes : Commit(p)
    BY <1>6
  <2>2. CASE i \in DOMAIN chain
    <3>1. i \in Resumes /\ chain[i].run # tx[1].run
      BY <1>1, <2>1, <2>2, CommitGrowsChain, CommittedPair DEF Resumes
    <3>2. /\ i + 1 \in DOMAIN chain /\ DOMAIN chain' = 1 .. Len(chain) + 2
          /\ chain'[i] = chain[i] /\ chain'[i + 1] = chain[i + 1]
      BY <1>1, <1>2, <2>1, <3>1, CommitGrowsChain
    <3>3. ASSUME NEW j \in DOMAIN chain', chain'[j].run = chain[i].run
          PROVE  j <= i + 1
      <4>1. chain'[Len(chain) + 1].run # chain[i].run
            /\ chain'[Len(chain) + 2].run # chain[i].run
        BY <1>1, <2>1, <3>1, CommitGrowsChain, CommittedPair
      <4>2. j \in DOMAIN chain /\ chain'[j] = chain[j]
        BY <1>1, <2>1, <3>2, <3>3, <4>1, CommitGrowsChain
      <4>. QED  BY <1>2, <3>1, <3>3, <4>2
    <3>4. i + 1 \in DOMAIN chain'
      BY <1>1, <3>1, <3>2
    <3>5. \A j \in DOMAIN chain' : chain'[j].run = chain'[i].run => j <= i + 1
      BY <3>2, <3>3
    <3>. QED  BY <1>2, <3>1, <3>2, <3>4, <3>5
  <2>3. CASE i \notin DOMAIN chain
    <3>1. i = Len(chain) + 1 /\ tx[1].type = "run.resumed"
      BY <1>1, <2>1, <2>3, CommitGrowsChain, CommittedPair DEF Resumes
    <3>. QED  BY <1>1, <2>1, <3>1, CommitGrowsChain, CommittedPair
  <2>. QED  BY <2>2, <2>3
<1>. QED
  BY <1>3, <1>5, <1>6, ChainChanges

LEMMA CheckpointStep == IInv /\ [Next]_vars => CheckpointIsNeverAlone'
<1>. SUFFICES ASSUME IInv, [Next]_vars,
                     NEW i \in DOMAIN chain', chain'[i].type = "run.checkpointed"
              PROVE  /\ i + 1 \in DOMAIN chain'
                     /\ chain'[i + 1].run = chain'[i].run
                     /\ chain'[i + 1].reason = "approval.required"
  BY DEF CheckpointIsNeverAlone
<1>1. /\ Len(chain) \in Nat /\ DOMAIN chain = 1 .. Len(chain)
      /\ TypeOK /\ Controllers /\ Transactions /\ CheckpointIsNeverAlone
  BY RunOfEvent DEF IInv
<1>2. CASE UNCHANGED chain
  BY <1>1, <1>2 DEF CheckpointIsNeverAlone
<1>3. CASE \E r \in Runs : Insert(r)
  BY <1>1, <1>3, InsertGrowsChain DEF CheckpointIsNeverAlone
<1>4. CASE \E p \in Processes : Commit(p)
  BY <1>1, <1>4, CommitGrowsChain, CommittedPair DEF CheckpointIsNeverAlone
<1>. QED
  BY <1>2, <1>3, <1>4, ChainChanges

LEMMA IntactStep == IInv /\ [Next]_vars => ResumesOnIntactChain'
<1>. SUFFICES ASSUME IInv, [Next]_vars,
                     NEW i \in Resumes', NEW j \in 1 .. i
              PROVE  chain'[j].prev = j - 1
  BY DEF ResumesOnIntactChain
<1>1. /\ Len(chain) \in Nat /\ DOMAIN chain = 1 .. Len(chain)
      /\ TypeOK /\ Controllers /\ Transactions /\ ResumesOnIntactChain
  BY RunOfEvent DEF IInv
<1>2. CASE UNCHANGED chain
  BY <1>1, <1>2 DEF ResumesOnIntactChain, Resumes
<1>3. CASE \E r \in Runs : Insert(r)
  BY <1>1, <1>3, InsertGrowsChain DEF ResumesOnIntactChain, Resumes
<1>4. CASE \E p \in Processes : Commit(p)
  <2>1. PICK p \in Processes : Commit(p)
    BY <1>4
  <2>2. /\ DOMAIN chain' = 1 .. Len(chain) + 2
        /\ \A k \in DOMAIN chain : chain'[k] = chain[k]
        /\ chain'[Len(chain) + 1] = tx[1] /\ chain'[Len(chain) + 2] = tx[2]
    BY <1>1, <2>1, CommitGrowsChain
  <2>3. CASE i \in DOMAIN chain
    BY <1>1, <2>2, <2>3 DEF ResumesOnIntactChain, Resumes
  <2>4. CASE i \notin DOMAIN chain
    <3>1. tx[2].type = "run.finished"
      BY <2>1, CommittedPair
    <3>2. i = Len(chain) + 1 /\ tx[1].type = "run.resumed"
      BY <1>1, <2>2, <2>4, <3>1 DEF Resumes
    <3>3. tx[1].prev = Len(chain) /\ Intact(chain)
      BY <2>1, <3>2, CommittedPair
    <3>. QED  BY <1>1, <2>2, <3>2, <3>3 DEF Intact
  <2>. QED  BY <2>3, <2>4
<1>. QED
  BY <1>2, <1>3, <1>4, ChainChanges

-----------------------------------------------------------------------------
LEMMA InitInvariant == Init => IInv
<1>. SUFFICES ASSUME Init PROVE IInv
  OBVIOUS
<1>1. chain = <<>> /\ DOMAIN chain = {} /\ tx = <<>>
  BY DEF Init
<1>2. TypeOK
  BY ProcessesAssumption DEF Init, TypeOK, Processes, Places, InTransaction, Nobody
<1>3. Controllers /\ Transactions
  BY DEF Init, Controllers, Transactions, Processes
<1>. QED
  BY <1>1, <1>2, <1>3
  DEF IInv, StoppedRuns, ApprovalIsConsumedOnce, CheckpointIsNeverAlone,
      ResumesOnIntactChain, Resumes

(* The strengthened invariant holds in every reachable state. *)
THEOREM Invariance == Spec => []IInv
<1>1. IInv /\ [Next]_vars => IInv'
  BY TypeStep, ControllersStep, TransactionsStep, StoppedRunsStep, ApprovalStep,
     CheckpointStep, IntactStep
  DEF IInv
<1>. QED
  BY <1>1, InitInvariant, PTL DEF Spec

(* The ledger, the lock and every process hold values of their types, and
   uncommitted events exist only under the write lock. *)
THEOREM TypeCorrect == Spec => []TypeOK
<1>1. IInv => TypeOK
  BY DEF IInv
<1>. QED
  BY <1>1, Invariance, PTL

(* One human approval lets a run succeed once, whatever operators, controllers
   and crashes interleave (resume, _resume_locked). *)
THEOREM ApprovalConsumedOnce == Spec => []ApprovalIsConsumedOnce
<1>1. IInv => ApprovalIsConsumedOnce
  BY DEF IInv
<1>. QED
  BY <1>1, Invariance, PTL

(* A crash never leaves a checkpoint without its approval.required event
   (_complete_passing_run). *)
THEOREM CheckpointAtomic == Spec => []CheckpointIsNeverAlone
<1>1. IInv => CheckpointIsNeverAlone
  BY DEF IInv
<1>. QED
  BY <1>1, Invariance, PTL

(* Although writers that overlap can break the chain, nothing is ever resumed
   behind a break (verify_chain under the lock). *)
THEOREM ResumesOnlyOnIntactChain == Spec => []ResumesOnIntactChain
<1>1. IInv => ResumesOnIntactChain
  BY DEF IInv
<1>. QED
  BY <1>1, Invariance, PTL

(* A run is resumed only on the terms of its own checkpoint, with the consent
   of an operator to exactly those terms (_resume_locked). *)
THEOREM ResumedOnOwnTerms == Spec => ResumedOnItsOwnTerms
<1>. DEFINE Consented ==
       \A i \in DOMAIN chain' \ DOMAIN chain :
         chain'[i].type = "run.resumed" =>
           /\ \E p \in Operators :
                task[p] = [run |-> chain'[i].run, terms |-> chain'[i].terms,
                           approved |-> TRUE]
           /\ \E c \in DOMAIN chain :
                /\ chain[c].type = "run.checkpointed"
                /\ chain[c].run = chain'[i].run
                /\ chain[c].terms = chain'[i].terms
<1>1. ASSUME IInv, [Next]_vars PROVE [Consented]_vars
  <2>. SUFFICES ASSUME NEW i \in DOMAIN chain' \ DOMAIN chain,
                       chain'[i].type = "run.resumed"
                PROVE  /\ \E p \in Operators :
                            task[p] = [run |-> chain'[i].run,
                                       terms |-> chain'[i].terms,
                                       approved |-> TRUE]
                       /\ \E c \in DOMAIN chain :
                            /\ chain[c].type = "run.checkpointed"
                            /\ chain[c].run = chain'[i].run
                            /\ chain[c].terms = chain'[i].terms
    OBVIOUS
  <2>1. /\ Len(chain) \in Nat /\ DOMAIN chain = 1 .. Len(chain)
        /\ TypeOK /\ Controllers /\ Transactions
    BY <1>1, RunOfEvent DEF IInv
  <2>2. ~ UNCHANGED chain /\ ~ \E r \in Runs : Insert(r)
    BY <2>1, InsertGrowsChain
  <2>3. PICK p \in Processes : Commit(p)
    BY <1>1, <2>2, ChainChanges
  <2>4. i = Len(chain) + 1 /\ chain'[i] = tx[1] /\ tx[1].type = "run.resumed"
    BY <1>1, <2>1, <2>3, CommitGrowsChain, CommittedPair
  <2>5. p \in Operators
    BY <2>1, <2>3, <2>4 DEF Transactions, Commit, Processes
  <2>6. /\ Eligible(chain, task[p]) /\ task[p] \in Tasks
        /\ tx[1].run = task[p].run /\ tx[1].terms = task[p].terms
    BY <2>1, <2>3, <2>5 DEF Transactions, Commit
  <2>7. /\ task[p].approved
        /\ \E c \in DOMAIN chain :
             /\ chain[c].run = task[p].run /\ chain[c].type = "run.checkpointed"
             /\ chain[c].terms = task[p].terms
    BY <2>1, <2>6, EligibleRun DEF TypeOK
  <2>8. task[p] = [run |-> task[p].run, terms |-> task[p].terms, approved |-> TRUE]
    BY <2>6, <2>7 DEF Tasks
  <2>. QED  BY <2>4, <2>5, <2>6, <2>7, <2>8
<1>. QED
  BY <1>1, Invariance, PTL DEF Spec, ResumedOnItsOwnTerms

-----------------------------------------------------------------------------
(* The refinement of ApprovalProtocol *)

Started ==
  \A r \in Runs :
    pc[r] \notin {"idle", "receiving", "failed"} => Positions(chain, r) # {}

LEMMA StartsByInsert ==
  ASSUME IInv, [Next]_vars, NEW r \in Runs, pc[r] \in {"idle", "receiving", "failed"}
  PROVE  pc'[r] \in {"idle", "receiving", "failed"} \/ Insert(r)
<1>. USE ProcessesAssumption DEF IInv, TypeOK, Processes
<1>1. ASSUME NEW q \in Runs, NEW terms \in Terms, Receive(q, terms)
      PROVE  pc'[r] \in {"idle", "receiving", "failed"}
  BY <1>1 DEF Receive
<1>2. ASSUME NEW o \in Operators, NEW t \in Tasks, BeginResume(o, t)
      PROVE  pc'[r] \in {"idle", "receiving", "failed"}
  BY <1>2 DEF BeginResume, Begin
<1>3. ASSUME NEW q \in Runs,
             Evaluate(q) \/ (\E reason : FinishDirectly(q, reason)) \/ BeginApproval(q)
               \/ RecordCheckpoint(q) \/ RecordApprovalRequired(q)
      PROVE  pc'[r] \in {"idle", "receiving", "failed"}
  BY <1>3 DEF Evaluate, FinishDirectly, Prepare, BeginApproval, Begin, RecordCheckpoint,
              RecordApprovalRequired, Write
<1>4. ASSUME NEW q \in Runs, Insert(q), q # r
      PROVE  pc'[r] \in {"idle", "receiving", "failed"}
  BY <1>4 DEF Insert
<1>5. ASSUME NEW p \in Processes, Commit(p) \/ Fails(p)
      PROVE  pc'[r] \in {"idle", "receiving", "failed"}
  BY <1>5 DEF Commit, Fails, RollBackAs
<1>6. ASSUME NEW o \in Operators, RefuseResume(o) \/ RecordResumed(o) \/ RecordSucceeded(o)
      PROVE  pc'[r] \in {"idle", "receiving", "failed"}
  BY <1>6 DEF RefuseResume, RollBackAs, RecordResumed, RecordSucceeded, Write
<1>7. CASE UNCHANGED vars
  BY <1>7 DEF vars
<1>. QED
  BY <1>1, <1>2, <1>3, <1>4, <1>5, <1>6, <1>7
  DEF Next, Start, Step, RunStep, OperatorStep

(* How the chain may have grown. *)
Grown ==
  /\ Len(chain) \in Nat /\ DOMAIN chain = 1 .. Len(chain)
  /\ DOMAIN chain \subseteq DOMAIN chain' /\ DOMAIN chain' \subseteq Nat
  /\ \A i \in DOMAIN chain : chain'[i] = chain[i]

LEMMA ChainGrows == IInv /\ [Next]_vars => Grown
<1>. SUFFICES ASSUME IInv, [Next]_vars PROVE Grown
  OBVIOUS
<1>1. /\ Len(chain) \in Nat /\ DOMAIN chain = 1 .. Len(chain)
      /\ TypeOK /\ Controllers /\ Transactions
  BY RunOfEvent DEF IInv
<1>2. CASE UNCHANGED chain
  BY <1>1, <1>2 DEF Grown
<1>3. CASE \E r \in Runs : Insert(r)
  BY <1>1, <1>3, InsertGrowsChain DEF Grown
<1>4. CASE \E p \in Processes : Commit(p)
  BY <1>1, <1>4, CommitGrowsChain DEF Grown
<1>. QED
  BY <1>2, <1>3, <1>4, ChainChanges

LEMMA StartedStep == IInv /\ Started /\ [Next]_vars => Started'
<1>. SUFFICES ASSUME IInv, Started, [Next]_vars, NEW r \in Runs,
                     pc'[r] \notin {"idle", "receiving", "failed"}
              PROVE  Positions(chain, r)' # {}
  BY DEF Started
<1>1. CASE pc[r] \notin {"idle", "receiving", "failed"}
  <2>1. PICK i \in DOMAIN chain : chain[i].run = r
    BY <1>1 DEF Started, Positions
  <2>. QED  BY <2>1, ChainGrows DEF Grown, Positions
<1>2. CASE pc[r] \in {"idle", "receiving", "failed"}
  <2>1. Insert(r)
    BY <1>2, StartsByInsert
  <2>2. Len(chain) + 1 \in DOMAIN chain' /\ chain'[Len(chain) + 1].run = r
    BY <2>1, InsertGrowsChain, RunOfEvent DEF IInv
  <2>. QED  BY <2>2 DEF Positions
<1>. QED  BY <1>1, <1>2

LEMMA StatusKept ==
  ASSUME Grown, NEW q, \A i \in DOMAIN chain' \ DOMAIN chain : chain'[i].run # q
  PROVE  Status(q)' = Status(q)
<1>1. Positions(chain, q)' = Positions(chain, q)
  BY DEF Grown, Positions
<1>2. Terminals(chain, q)' = Terminals(chain, q)
  BY <1>1 DEF Grown, Terminals, Positions
<1>3. LatestTerminal(chain, q)' = LatestTerminal(chain, q)
  BY <1>2 DEF LatestTerminal
<1>4. Terminals(chain, q) # {} => LatestTerminal(chain, q) \in DOMAIN chain
  <2>1. Terminals(chain, q) \subseteq 1 .. Len(chain) /\ Len(chain) \in Nat
    BY DEF Grown, Terminals, Positions
  <2>. QED  BY <2>1, GreatestPosition DEF LatestTerminal, Grown
<1>5. (\E i \in Positions(chain, q) : i \in Resumes)' <=> \E i \in Positions(chain, q) : i \in Resumes
  BY <1>1 DEF Grown, Positions, Resumes
<1>. QED
  BY <1>1, <1>2, <1>3, <1>4, <1>5 DEF Status, Grown

-----------------------------------------------------------------------------
(* The moves of the run whose events are committed. *)

LEMMA InsertMoves ==
  ASSUME IInv, Started, [Next]_vars, NEW r \in Runs, Insert(r)
  PROVE  \/ Status(r)' = Status(r)
         \/ Status(r) = "absent" /\ Status(r)' = "open"
         \/ Status(r) = "open" /\ Status(r)' \in {"closed", "awaiting"}
<1>. DEFINE n == Len(chain) + 1
<1>1. /\ Grown /\ Len(chain) \in Nat /\ DOMAIN chain = 1 .. Len(chain)
      /\ DOMAIN chain' = 1 .. n /\ chain'[n] = prepared[r] /\ prepared[r].run = r
  BY ChainGrows, InsertGrowsChain DEF IInv, Grown
<1>2. \A i \in Positions(chain, r) :
        chain[i].type \notin {"run.finished", "run.checkpointed", "run.resumed"}
  BY InsertGrowsChain DEF IInv, StoppedRuns, Positions
<1>3. Terminals(chain, r) = {}
  BY <1>2 DEF Terminals
<1>4. Positions(chain, r)' = Positions(chain, r) \cup {n}
  BY <1>1 DEF Positions, Grown
<1>5. ~ \E i \in Positions(chain, r)' : i \in Resumes'
  BY <1>1, <1>2, <1>4, InsertGrowsChain DEF Resumes, Positions, Grown, IInv
<1>6. CASE prepared[r].type = "run.finished"
  <2>1. Positions(chain, r) # {}
    BY <1>6 DEF IInv, Controllers, Insert, Started
  <2>2. Status(r) = "open"
    BY <1>3, <2>1 DEF Status
  <2>3. Terminals(chain, r)' # {} /\ Positions(chain, r)' # {}
    BY <1>1, <1>4, <1>6 DEF Terminals
  <2>. QED  BY <1>5, <2>2, <2>3 DEF Status
<1>7. CASE prepared[r].type # "run.finished"
  <2>1. Terminals(chain, r)' = {}
    BY <1>1, <1>2, <1>4, <1>7 DEF Terminals, Positions, Grown
  <2>2. Status(r)' = "open"
    BY <1>4, <2>1 DEF Status
  <2>. QED  BY <1>3, <2>2 DEF Status
<1>. QED  BY <1>6, <1>7

(* After a commit, its last event is the run's latest terminal one. *)
LEMMA LatestCommitted ==
  ASSUME IInv, NEW p \in Processes, Commit(p), NEW q, q = tx[1].run
  PROVE  /\ Terminals(chain, q)' # {} /\ Positions(chain, q)' # {}
         /\ chain'[LatestTerminal(chain, q)'] = tx[2]
<1>. DEFINE n == Len(chain) + 2
<1>2. /\ Len(chain) \in Nat /\ DOMAIN chain' = 1 .. n /\ chain'[n] = tx[2]
      /\ tx[2].run = q /\ tx[2].type = "run.finished"
  BY RunOfEvent, CommitGrowsChain, CommittedPair DEF IInv
<1>3. n \in Terminals(chain, q)' /\ Terminals(chain, q)' \subseteq 1 .. n /\ n \in Nat
  BY <1>2 DEF Terminals, Positions
<1>4. LatestTerminal(chain, q)' = n
  <2>1. Max(Terminals(chain, q)') \in 1 .. n /\ n <= Max(Terminals(chain, q)')
    BY <1>3, GreatestPosition
  <2>. QED  BY <1>3, <2>1 DEF LatestTerminal
<1>. QED
  BY <1>2, <1>3, <1>4 DEF Terminals

LEMMA ApprovalMoves ==
  ASSUME IInv, Started, NEW r \in Runs, Commit(r)
  PROVE  Status(r) = "open" /\ Status(r)' = "awaiting" /\ tx[1].run = r
<1>1. tx[1].run = r /\ tx[2].reason = "approval.required"
  BY DEF IInv, Transactions, Commit
<1>2. Status(r)' = "awaiting"
  BY <1>1, LatestCommitted DEF Status, Processes
<1>3. Positions(chain, r) # {}
  BY DEF Commit, Started
<1>4. Terminals(chain, r) = {}
  BY DEF IInv, StoppedRuns, Terminals, Positions, Commit
<1>. QED
  BY <1>1, <1>2, <1>3, <1>4 DEF Status

LEMMA ResumeMoves ==
  ASSUME IInv, NEW o \in Operators, Commit(o), NEW r, r = tx[1].run
  PROVE  Status(r) = "awaiting" /\ Status(r)' = "approved" /\ r \in Runs
<1>1. /\ Eligible(chain, task[o]) /\ task[o] \in Tasks /\ task[o].run = r
      /\ tx[1].type = "run.resumed" /\ tx[2].reason = "run.succeeded"
  BY DEF IInv, Transactions, Commit
<1>2. Status(r) = "awaiting"
  <2>1. Terminals(chain, r) # {} /\ chain[LatestTerminal(chain, r)].reason = "approval.required"
    BY <1>1 DEF Eligible
  <2>. QED  BY <2>1 DEF Status, Terminals
<1>3. \E i \in Positions(chain, r)' : i \in Resumes'
  <2>1. /\ Len(chain) \in Nat /\ DOMAIN chain' = 1 .. Len(chain) + 2
        /\ chain'[Len(chain) + 1] = tx[1]
    BY RunOfEvent, CommitGrowsChain DEF IInv, Processes
  <2>. QED  BY <1>1, <2>1 DEF Positions, Resumes
<1>4. Status(r)' = "approved"
  BY <1>1, <1>3, LatestCommitted DEF Status, Processes
<1>. QED
  BY <1>1, <1>2, <1>4 DEF Tasks

-----------------------------------------------------------------------------
statuses == [r \in Runs |-> Status(r)]

(* One run moves and the others stay. *)
LEMMA OneMoves ==
  ASSUME Grown, NEW r \in Runs, \A i \in DOMAIN chain' \ DOMAIN chain : chain'[i].run = r
  PROVE  statuses' = [statuses EXCEPT ![r] = Status(r)']
<1>1. ASSUME NEW q \in Runs, q # r PROVE Status(q)' = Status(q)
  BY <1>1, StatusKept
<1>. QED  BY <1>1 DEF statuses

LEMMA StepSimulates == IInv /\ Started /\ [Next]_vars => [Abstract!Next]_statuses
<1>. SUFFICES ASSUME IInv, Started, [Next]_vars PROVE [Abstract!Next]_statuses
  OBVIOUS
<1>. USE DEF Abstract!Next, Abstract!Open, Abstract!Close, Abstract!Await, Abstract!Approve,
             Abstract!Moves
<1>1. Grown
  BY ChainGrows
<1>2. CASE UNCHANGED chain
  <2>1. \A q \in Runs : Status(q)' = Status(q)
    BY <1>1, <1>2, StatusKept
  <2>. QED  BY <2>1 DEF statuses
<1>3. ASSUME NEW r \in Runs, Insert(r) PROVE [Abstract!Next]_statuses
  <2>1. \A i \in DOMAIN chain' \ DOMAIN chain : chain'[i].run = r
    BY <1>1, <1>3, InsertGrowsChain DEF Grown, IInv
  <2>2. statuses' = [statuses EXCEPT ![r] = Status(r)']
    BY <1>1, <2>1, OneMoves
  <2>3. statuses[r] = Status(r) /\ statuses = [statuses EXCEPT ![r] = Status(r)]
    BY DEF statuses
  <2>. QED  BY <1>3, <2>2, <2>3, InsertMoves DEF statuses
<1>4. ASSUME NEW p \in Processes, Commit(p) PROVE [Abstract!Next]_statuses
  <2>1. PICK r : r = tx[1].run
    OBVIOUS
  <2>2. /\ r \in Runs
        /\ \/ Status(r) = "open" /\ Status(r)' = "awaiting"
           \/ Status(r) = "awaiting" /\ Status(r)' = "approved"
    BY <1>4, <2>1, ApprovalMoves, ResumeMoves DEF Processes
  <2>3. \A i \in DOMAIN chain' \ DOMAIN chain : chain'[i].run = r
    BY <1>1, <1>4, <2>1, CommitGrowsChain, CommittedPair DEF Grown, IInv
  <2>4. statuses' = [statuses EXCEPT ![r] = Status(r)'] /\ statuses[r] = Status(r)
    BY <1>1, <2>2, <2>3, OneMoves DEF statuses
  <2>. QED  BY <2>2, <2>4 DEF statuses
<1>. QED
  BY <1>2, <1>3, <1>4, ChainChanges

(* The ledger implements the protocol: whatever processes interleave or die, a
   run is opened, closed, suspended and approved at most once and in that order
   (run, _complete_passing_run, resume). *)
THEOREM ApprovalProtocolImplemented == Spec => ImplementsApprovalProtocol
<1>1. Init => Abstract!Init
  BY DEF Init, Abstract!Init, Status, Positions
<1>2. Init => Started
  BY ProcessesAssumption DEF Init, Started, Processes
<1>3. Spec => [](IInv /\ Started)
  BY <1>2, Invariance, StartedStep, PTL DEF Spec
<1>. QED
  BY <1>1, <1>3, StepSimulates, PTL DEF Spec, ImplementsApprovalProtocol, Abstract!Spec, statuses
=============================================================================
