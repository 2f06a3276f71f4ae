-------------------------- MODULE ControlledTools --------------------------
(***************************************************************************)
(* The host-owned stock tool and its durable intent journal                *)
(* (tools/controlled_tools.py): two SQLite files and the executors that    *)
(* carry an operation from one to the other.  Each database transaction is *)
(* one step.  An executor may stop between any two of them, or inside one, *)
(* which rolls it back; what it was doing is then found again with recover.*)
(* A call that raises leaves both files as they were.                      *)
(***************************************************************************)
EXTENDS Integers, FiniteSetsExt

CONSTANTS
  Operations,  \* [id, task, step, kind, product, quantity, version, reservation]
  Products,
  Seeds,       \* the quantities the host may seed
  Quotas,      \* and those it may grant
  Workers      \* executors, or threads of one

None == [absent |-> "none"]

Ids   == {op.id : op \in Operations}
Tasks == {op.task : op \in Operations}

ASSUME OperationsAssumption ==
  /\ IsFiniteSet(Operations) /\ None \notin Operations
  /\ Seeds \subseteq Nat /\ Quotas \subseteq Nat \ {0}
  /\ \A op \in Operations :
       /\ op.quantity \in Nat \ {0} /\ op.version \in Nat
       /\ op.product \in Products
       /\ op.kind \in {"reserve", "release"}

VARIABLES
  stock,         \* inventory: product -> [available, version]
  seeded,        \* what each product was seeded with: observed, never read
  grants,        \* <<task, product>> -> quantity, 0 when there is no grant
  reservations,  \* id -> [task, product, quantity, active]
  receipts,      \* id -> [op, code, available, version]
  intents,       \* id -> [op, state, receipt]
  pc, held, receipt    \* of each worker: where it is, and its local variables

toolVars   == <<stock, seeded, grants, reservations, receipts>>
workerVars == <<pc, held, receipt>>
vars       == <<toolVars, intents, workerVars>>

Init ==
  /\ stock = [p \in Products |-> None]
  /\ seeded = [p \in Products |-> 0]
  /\ grants = [g \in Tasks \X Products |-> 0]
  /\ reservations = [i \in Ids |-> None]
  /\ receipts = [i \in Ids |-> None]
  /\ intents = [i \in Ids |-> None]
  /\ pc = [w \in Workers |-> "idle"]
  /\ held = [w \in Workers |-> None]
  /\ receipt = [w \in Workers |-> None]

-----------------------------------------------------------------------------
(* Host administration *)

Seed(p, quantity) ==
  /\ stock[p] = None
  /\ stock' = [stock EXCEPT ![p] = [available |-> quantity, version |-> 0]]
  /\ seeded' = [seeded EXCEPT ![p] = quantity]
  /\ UNCHANGED <<grants, reservations, receipts, intents, workerVars>>

Authorize(task, p, quantity) ==
  /\ grants[<<task, p>>] = 0
  /\ grants' = [grants EXCEPT ![<<task, p>>] = quantity]
  /\ UNCHANGED <<stock, seeded, reservations, receipts, intents, workerVars>>

-----------------------------------------------------------------------------
(* The tool *)

Active(task, p) ==
  {i \in Ids : /\ reservations[i] # None
               /\ reservations[i].active
               /\ reservations[i].task = task /\ reservations[i].product = p}

Reserved(ids) == MapThenSumSet(LAMBDA i : reservations[i].quantity, ids)

(* Faulty variants: the quota, or the stock, is not looked at. *)
ReserveCodeWithoutQuota(op) ==
  IF stock[op.product].available < op.quantity THEN "insufficient_stock"
  ELSE "applied"

ReserveCodeWithoutStock(op) ==
  IF Reserved(Active(op.task, op.product)) + op.quantity > grants[<<op.task, op.product>>]
  THEN "quota_exceeded"
  ELSE "applied"

ReserveCode(op) ==
  IF Reserved(Active(op.task, op.product)) + op.quantity > grants[<<op.task, op.product>>]
  THEN "quota_exceeded"
  ELSE IF stock[op.product].available < op.quantity THEN "insufficient_stock"
  ELSE "applied"

ReleaseCode(op) ==
  LET r == IF op.reservation \in Ids THEN reservations[op.reservation] ELSE None
  IN IF \/ r = None
        \/ <<r.task, r.product, r.quantity>> # <<op.task, op.product, op.quantity>>
     THEN "reservation_mismatch"
     ELSE IF ~ r.active THEN "reservation_inactive"
     ELSE "applied"

Code(op) ==
  IF grants[<<op.task, op.product>>] = 0 THEN "not_authorized"
  ELSE IF stock[op.product] = None THEN "unknown_product"
  ELSE IF stock[op.product].version # op.version THEN "version_mismatch"
  ELSE IF op.kind = "reserve" THEN ReserveCode(op)
  ELSE ReleaseCode(op)

StockAfter(op) ==
  [available |-> IF op.kind = "reserve"
                 THEN stock[op.product].available - op.quantity
                 ELSE stock[op.product].available + op.quantity,
   version   |-> stock[op.product].version + 1]

(* Faulty variant: a released reservation stays active. *)
ReservationsKeptActive(op) ==
  IF op.kind = "reserve"
  THEN [reservations EXCEPT ![op.id] =
          [task |-> op.task, product |-> op.product, quantity |-> op.quantity,
           active |-> TRUE]]
  ELSE reservations

ReservationsAfter(op) ==
  IF op.kind = "reserve"
  THEN [reservations EXCEPT ![op.id] =
          [task |-> op.task, product |-> op.product, quantity |-> op.quantity,
           active |-> TRUE]]
  ELSE [reservations EXCEPT ![op.reservation].active = FALSE]

(* The rows a UNIQUE(task, step) and a primary key make one finds for op. *)
Previous(table, op) ==
  {i \in Ids : /\ table[i] # None
               /\ \/ i = op.id
                  \/ table[i].op.task = op.task /\ table[i].op.step = op.step}

Replays(table, op) == \A i \in Previous(table, op) : table[i].op = op

(* ToolStore.apply: the effect and its receipt in one transaction *)
Receipt(op, code, after) ==
  [op |-> op, code |-> code, stock |-> after]

Effect(op) ==
  LET code == Code(op)
      after == IF code = "applied" THEN StockAfter(op) ELSE stock[op.product]
  IN /\ stock' = [stock EXCEPT ![op.product] = after]
     /\ reservations' = IF code = "applied" THEN ReservationsAfter(op)
                        ELSE reservations
     /\ receipts' = [receipts EXCEPT ![op.id] = Receipt(op, code, after)]
     /\ UNCHANGED <<seeded, grants>>

-----------------------------------------------------------------------------
(* The executor *)

Leaves(w) ==
  /\ pc' = [pc EXCEPT ![w] = "idle"]
  /\ held' = [held EXCEPT ![w] = None]
  /\ receipt' = [receipt EXCEPT ![w] = None]

Takes(w, op, known) ==
  /\ held' = [held EXCEPT ![w] = op]
  /\ receipt' = [receipt EXCEPT ![w] = known]
  /\ pc' = [pc EXCEPT ![w] = IF known = None THEN "looking up" ELSE "recording"]

PendingOf(task) ==
  {i \in Ids : /\ intents[i] # None
               /\ intents[i].state = "pending" /\ intents[i].op.task = task}

(* prepare finds the intent of this very operation *)
ExecuteAgain(w, op) ==
  /\ pc[w] = "idle"
  /\ Previous(intents, op) # {} /\ Replays(intents, op)
  /\ Takes(w, op, intents[op.id].receipt)
  /\ UNCHANGED <<toolVars, intents>>

(* Faulty variant: a task may have two unreconciled operations. *)
ExecuteUnserialized(w, op) ==
  /\ pc[w] = "idle"
  /\ Previous(intents, op) = {}
  /\ intents' = [intents EXCEPT ![op.id] =
                   [op |-> op, state |-> "pending", receipt |-> None]]
  /\ Takes(w, op, None)
  /\ UNCHANGED toolVars

Execute(w, op) ==
  /\ pc[w] = "idle"
  /\ Previous(intents, op) = {}
  /\ PendingOf(op.task) = {}
  /\ intents' = [intents EXCEPT ![op.id] =
                   [op |-> op, state |-> "pending", receipt |-> None]]
  /\ Takes(w, op, None)
  /\ UNCHANGED toolVars

(* Faulty variant: an operation with a receipt counts as reconciled. *)
RecoverUnanswered(w, task) ==
  /\ pc[w] = "idle"
  /\ \E i \in PendingOf(task) :
       intents[i].receipt = None /\ Takes(w, intents[i].op, None)
  /\ UNCHANGED <<toolVars, intents>>

Recover(w, task) ==
  /\ pc[w] = "idle"
  /\ \E i \in PendingOf(task) : Takes(w, intents[i].op, intents[i].receipt)
  /\ UNCHANGED <<toolVars, intents>>

Lookup(w) ==
  LET found == receipts[held[w].id]
  IN /\ pc[w] = "looking up"
     /\ receipt' = [receipt EXCEPT ![w] = found]
     /\ pc' = [pc EXCEPT ![w] = IF found = None THEN "applying" ELSE "recording"]
     /\ UNCHANGED <<toolVars, intents, held>>

(* Faulty variants: the operation is applied again; or its answer is computed
   again from the stock of the day. *)
ApplyAgain(w) ==
  LET op == held[w]
  IN /\ pc[w] = "applying"
     /\ Effect(op)
     /\ receipt' = [receipt EXCEPT ![w] = receipts'[op.id]]
     /\ pc' = [pc EXCEPT ![w] = "recording"]
     /\ UNCHANGED <<intents, held>>

ApplyAnsweringAnew(w) ==
  LET op == held[w]
  IN /\ pc[w] = "applying"
     /\ Replays(receipts, op)
     /\ IF Previous(receipts, op) # {} THEN UNCHANGED toolVars ELSE Effect(op)
     /\ receipt' = [receipt EXCEPT ![w] = Receipt(op, Code(op), stock[op.product])]
     /\ pc' = [pc EXCEPT ![w] = "recording"]
     /\ UNCHANGED <<intents, held>>

Apply(w) ==
  LET op == held[w]
  IN /\ pc[w] = "applying"
     /\ Replays(receipts, op)
     /\ IF Previous(receipts, op) # {} THEN UNCHANGED toolVars ELSE Effect(op)
     /\ receipt' = [receipt EXCEPT ![w] = receipts'[op.id]]
     /\ pc' = [pc EXCEPT ![w] = "recording"]
     /\ UNCHANGED <<intents, held>>

RecordReceipt(w) ==
  /\ pc[w] = "recording"
  /\ intents[held[w].id].receipt \in {None, receipt[w]}
  /\ receipt[w].op = intents[held[w].id].op
  /\ intents' = [intents EXCEPT ![held[w].id].receipt = receipt[w]]
  /\ pc' = [pc EXCEPT ![w] = "completing"]
  /\ UNCHANGED <<toolVars, held, receipt>>

Complete(w) ==
  /\ pc[w] = "completing"
  /\ intents[held[w].id].receipt # None
  /\ intents' = [intents EXCEPT ![held[w].id].state = "complete"]
  /\ Leaves(w)
  /\ UNCHANGED toolVars

Stops(w) ==
  /\ pc[w] # "idle"
  /\ Leaves(w)
  /\ UNCHANGED <<toolVars, intents>>

Reconciles(w) == Lookup(w) \/ Apply(w) \/ RecordReceipt(w) \/ Complete(w)

Next ==
  \/ \E p \in Products, q \in Seeds : Seed(p, q)
  \/ \E t \in Tasks, p \in Products, q \in Quotas : Authorize(t, p, q)
  \/ \E w \in Workers, op \in Operations : Execute(w, op) \/ ExecuteAgain(w, op)
  \/ \E w \in Workers, t \in Tasks : Recover(w, t)
  \/ \E w \in Workers : Reconciles(w) \/ Stops(w)

Spec == Init /\ [][Next]_vars

(* A worker under way proceeds, and the host, however busy its workers are
   with other calls, asks now and then to recover a task. *)
FairSpec ==
  /\ Spec
  /\ \A w \in Workers : WF_vars(Reconciles(w))
  /\ \A t \in Tasks : SF_vars(\E w \in Workers : Recover(w, t))

-----------------------------------------------------------------------------
(* Properties *)

(* Units are neither lost nor created nor lent twice, whatever is retried,
   repeated by two workers or interrupted: what is available is never less than
   nothing, and with what is reserved it adds up to what the host seeded
   (ToolStore.apply). *)
StockIsConserved ==
  \A p \in Products : stock[p] # None =>
    /\ stock[p].available >= 0
    /\ stock[p].available + Reserved(UNION {Active(t, p) : t \in Tasks}) = seeded[p]

(* A task never holds more than its grant (authorize: "limits the task's total
   active reservation"). *)
GrantsAreRespected ==
  \A t \in Tasks, p \in Products : Reserved(Active(t, p)) <= grants[<<t, p>>]

(* Every operation takes effect at most once and leaves exactly one receipt:
   the version of a product counts the operations applied to it, and what each
   of them saw is what its successor expected (apply, execute, recover). *)
OneEffectPerOperation ==
  \A p \in Products : stock[p] # None =>
    LET applied == {i \in Ids : /\ receipts[i] # None
                                /\ receipts[i].code = "applied"
                                /\ receipts[i].op.product = p}
    IN /\ stock[p].version = Cardinality(applied)
       /\ {receipts[i].op.version : i \in applied} = 0 .. stock[p].version - 1

(* What the journal recorded is what the tool did: an intent's receipt is the
   tool's receipt of that operation, and a completed intent has one
   (record_receipt, complete). *)
JournalAgreesWithTool ==
  \A i \in Ids : intents[i] # None =>
    /\ intents[i].receipt # None => intents[i].receipt = receipts[i]
    /\ intents[i].state = "complete" => intents[i].receipt # None

(* A task's operations are serialized: nothing takes effect for a task while
   another operation of it is unreconciled, and nothing without an intent
   ("reconcile_before_new_proposal"). *)
EffectsFollowIntents ==
  [][\A i \in Ids : receipts[i] = None /\ receipts'[i] # None =>
       PendingOf(receipts'[i].op.task) = {i}]_vars

(* An intent whose acknowledgment was lost does not stay pending for ever, once
   the workers are no longer interrupted (recover). *)
Uninterrupted == <>[][\A w \in Workers : ~ Stops(w)]_vars

PendingIsReconciled ==
  Uninterrupted =>
    \A i \in Ids : (intents[i] # None /\ intents[i].state = "pending") ~>
                     (intents[i] # None /\ intents[i].state = "complete")
=============================================================================
