------------------------ MODULE ControlledToolsProofs ------------------------
(***************************************************************************)
(* An operation has one effect and one answer, and the journal says what   *)
(* the tool did: for every set of operations and of workers, with every    *)
(* worker free to stop between any two steps.                              *)
(*                                                                         *)
(* The argument.  An intent never changes its operation, and no two        *)
(* intents share an identity or a step (Journal); a receipt belongs to an  *)
(* intent (Receipts); so the receipt that a worker finds or makes is the   *)
(* receipt of what it holds (Executors), it is made once, and it is made   *)
(* while the intent is the one that its task has pending.                  *)
(*                                                                         *)
(* A reservation belongs to an operation that has its receipt and to a     *)
(* product that has stock (Reservations), so a product is seeded with      *)
(* nothing lent, an applied reservation is a new row and an applied        *)
(* release takes one away; the sums over them (Total) move by its          *)
(* quantity, with what is available (Supplies) and within the grant        *)
(* (Shares).  The sums are those of MapThenSumSet: a least set to which a  *)
(* claim about them does not apply (SmallestSet) stands for an induction.  *)
(***************************************************************************)
EXTENDS ControlledTools, FiniteSetTheorems, FunctionTheorems, TLAPS

SameStep(a, b) == a.op.task = b.op.task /\ a.op.step = b.op.step

(* One intent for an operation and for a step; one of a task is pending. *)
Journal ==
  /\ DOMAIN intents = Ids
  /\ \A i \in Ids : intents[i] # None =>
       /\ DOMAIN intents[i] = {"op", "state", "receipt"}
       /\ intents[i].op \in Operations /\ intents[i].op.id = i
       /\ intents[i].state \in {"pending", "complete"}
       /\ intents[i].state = "complete" => intents[i].receipt # None
       /\ intents[i].receipt # None => intents[i].receipt = receipts[i]
  /\ \A i, j \in Ids :
       intents[i] # None /\ intents[j] # None /\ SameStep(intents[i], intents[j]) => i = j
  /\ \A t \in Tasks : \A i, j \in PendingOf(t) : i = j

(* A receipt answers the operation of an intent. *)
Receipts ==
  /\ DOMAIN receipts = Ids
  /\ \A i \in Ids : receipts[i] # None =>
       intents[i] # None /\ receipts[i].op = intents[i].op

(* What a worker holds and has read is what the files hold. *)
Executors ==
  /\ DOMAIN pc = Workers /\ DOMAIN held = Workers /\ DOMAIN receipt = Workers
  /\ \A w \in Workers :
       /\ pc[w] \in {"idle", "looking up", "applying", "recording", "completing"}
       /\ pc[w] # "idle" =>
            /\ held[w] \in Operations
            /\ intents[held[w].id] # None /\ intents[held[w].id].op = held[w]
       /\ pc[w] = "recording" =>
            receipt[w] # None /\ receipt[w] = receipts[held[w].id]
       /\ pc[w] = "completing" => intents[held[w].id].receipt # None

IInv == Journal /\ Receipts /\ Executors

LEMMA RowsExist ==
  ASSUME NEW o, NEW s, NEW x
  PROVE  /\ [op |-> o, state |-> s, receipt |-> x] # None
         /\ [op |-> o, code |-> s, stock |-> x] # None
         /\ \A r : DOMAIN r = {"op", "state", "receipt"} => r # None
BY DEF None

LEMMA RowUpdates ==
  ASSUME NEW r, DOMAIN r = {"op", "state", "receipt"}, NEW x, NEW s
  PROVE  /\ s = [r EXCEPT !.receipt = x] =>
              s # None /\ s.op = r.op /\ s.receipt = x
         /\ s = [r EXCEPT !.state = x] =>
              s # None /\ s.op = r.op /\ s.receipt = r.receipt
BY RowsExist

LEMMA InitInvariant == Init => IInv
BY DEF Init, IInv, Journal, Receipts, Executors, PendingOf, workerVars

(* A row that an operation finds, and that is of this very operation, is its
   own. *)
LEMMA Found ==
  ASSUME NEW op \in Operations, IInv, intents[op.id] # None
  PROVE  /\ Replays(intents, op) => intents[op.id].op = op
         /\ intents[op.id].op = op =>
              /\ Replays(receipts, op)
              /\ Previous(receipts, op) = {} <=> receipts[op.id] = None
BY DEF IInv, Journal, Receipts, Previous, Replays, SameStep, Ids

LEMMA Holding ==
  ASSUME IInv, NEW w \in Workers, pc[w] # "idle"
  PROVE  /\ held[w] \in Operations /\ held[w].id \in Ids
         /\ intents[held[w].id] # None /\ intents[held[w].id].op = held[w]
         /\ DOMAIN intents[held[w].id] = {"op", "state", "receipt"}
<1>1. held[w] \in Operations /\ intents[held[w].id] # None /\ intents[held[w].id].op = held[w]
  BY DEF IInv, Executors
<1>2. held[w].id \in Ids
  BY <1>1 DEF Ids
<1> QED
  BY <1>1, <1>2 DEF IInv, Journal

(* Nothing but Apply makes a receipt, and it makes one at most, of an operation
   that its task has pending and no other. *)
LEMMA ReceiptsGrow ==
  ASSUME IInv, [Next]_vars
  PROVE  \/ UNCHANGED <<stock, receipts, reservations>>
         \/ \E p \in Products, q \in Seeds : Seed(p, q)
         \/ \E w \in Workers :
              /\ pc[w] = "applying" /\ receipts[held[w].id] = None
              /\ Effect(held[w]) /\ UNCHANGED intents
<1>1. CASE UNCHANGED vars
  BY <1>1 DEF vars, toolVars
<1>2. CASE \E t \in Tasks, p \in Products, q \in Quotas : Authorize(t, p, q)
  BY <1>2 DEF Authorize
<1>3. CASE \E w \in Workers : Apply(w)
  <2>1. PICK w \in Workers : Apply(w)
    BY <1>3
  <2>2. held[w] \in Operations /\ intents[held[w].id] # None /\ intents[held[w].id].op = held[w]
    BY <2>1 DEF IInv, Executors, Apply
  <2>3. Previous(receipts, held[w]) = {} <=> receipts[held[w].id] = None
    BY <2>2, Found
  <2> QED
    BY <2>1, <2>3 DEF Apply, toolVars
<1>4. CASE \E w \in Workers, op \in Operations : Execute(w, op) \/ ExecuteAgain(w, op)
  BY <1>4 DEF Execute, ExecuteAgain, toolVars
<1>5. CASE \E w \in Workers, t \in Tasks : Recover(w, t)
  BY <1>5 DEF Recover, toolVars
<1>6. CASE \E w \in Workers : Lookup(w) \/ RecordReceipt(w) \/ Complete(w) \/ Stops(w)
  BY <1>6 DEF Lookup, RecordReceipt, Complete, Stops, toolVars
<1> QED
  BY <1>1, <1>2, <1>3, <1>4, <1>5, <1>6 DEF Next, Reconciles

LEMMA JournalStep == IInv /\ [Next]_vars => Journal'
<1> SUFFICES ASSUME IInv, [Next]_vars PROVE Journal'
  OBVIOUS
<1> USE DEF IInv
<1>1. CASE UNCHANGED <<intents, receipts>>
  BY <1>1 DEF Journal, PendingOf
<1>2. ASSUME NEW w \in Workers, NEW op \in Operations, Execute(w, op)
      PROVE  Journal'
  <2> DEFINE row == [op |-> op, state |-> "pending", receipt |-> None]
  <2>1. /\ op.id \in Ids /\ row # None /\ UNCHANGED receipts
        /\ intents' = [intents EXCEPT ![op.id] = row]
    BY <1>2, RowsExist DEF Execute, toolVars, Ids
  <2>2. \A i \in Ids : intents[i] # None => ~ SameStep(intents[i], row)
    BY <1>2 DEF Execute, Previous, SameStep
  <2>3. \A t \in Tasks : PendingOf(t)' = IF t = op.task THEN {op.id} ELSE PendingOf(t)
    BY <1>2, <2>1 DEF Execute, PendingOf, Journal, Previous
  <2> QED
    BY <2>1, <2>2, <2>3 DEF Journal, SameStep
<1>3. ASSUME NEW w \in Workers, RecordReceipt(w)
      PROVE  Journal'
  <2>1. /\ held[w] \in Operations /\ held[w].id \in Ids /\ UNCHANGED receipts
        /\ intents[held[w].id] # None
        /\ receipt[w] # None /\ receipt[w] = receipts[held[w].id]
        /\ intents' = [intents EXCEPT ![held[w].id].receipt = receipt[w]]
    BY <1>3 DEF RecordReceipt, Executors, toolVars, Ids
  <2> QED
    BY <2>1, RowsExist DEF Journal, PendingOf, SameStep
<1>4. ASSUME NEW w \in Workers, Complete(w)
      PROVE  Journal'
  <2>1. /\ held[w] \in Operations /\ held[w].id \in Ids /\ UNCHANGED receipts
        /\ intents[held[w].id] # None /\ intents[held[w].id].receipt # None
        /\ intents' = [intents EXCEPT ![held[w].id].state = "complete"]
    BY <1>4 DEF Complete, Executors, toolVars, Ids
  <2> QED
    BY <2>1, RowsExist DEF Journal, PendingOf, SameStep
<1>5. ASSUME NEW w \in Workers, pc[w] = "applying", receipts[held[w].id] = None,
             Effect(held[w]), UNCHANGED intents
      PROVE  Journal'
  <2>1. /\ held[w].id \in Ids /\ intents[held[w].id] # None
        /\ \A i \in Ids : i # held[w].id => receipts'[i] = receipts[i]
    BY <1>5 DEF Effect, Executors, Receipts, Ids
  <2>2. intents[held[w].id].receipt = None
    BY <2>1, <1>5 DEF Journal
  <2>3. \A t \in Tasks : PendingOf(t)' = PendingOf(t)
    BY <1>5 DEF PendingOf
  <2> QED
    BY <1>5, <2>1, <2>2, <2>3 DEF Journal, SameStep
<1> QED
  BY <1>1, <1>2, <1>3, <1>4, <1>5, ReceiptsGrow
     DEF Next, Reconciles, vars, toolVars, Seed, Authorize, ExecuteAgain, Recover, Lookup, Apply, Stops

LEMMA ReceiptsStep == IInv /\ [Next]_vars => Receipts'
<1> SUFFICES ASSUME IInv, [Next]_vars PROVE Receipts'
  OBVIOUS
<1> USE DEF IInv
<1>1. CASE UNCHANGED <<intents, receipts>>
  BY <1>1 DEF Receipts
<1>2. ASSUME NEW w \in Workers, NEW op \in Operations, Execute(w, op)
      PROVE  Receipts'
  <2>1. /\ intents[op.id] = None /\ UNCHANGED receipts
        /\ \A i \in Ids : i # op.id => intents'[i] = intents[i]
    BY <1>2 DEF Execute, Previous, Ids, toolVars
  <2> QED
    BY <2>1 DEF Receipts
<1>3. ASSUME NEW w \in Workers, RecordReceipt(w) \/ Complete(w)
      PROVE  Receipts'
  <2> DEFINE row == intents[held[w].id]
  <2>1. /\ UNCHANGED receipts
        /\ \/ intents' = [intents EXCEPT ![held[w].id] = [row EXCEPT !.receipt = receipt[w]]]
           \/ intents' = [intents EXCEPT ![held[w].id] = [row EXCEPT !.state = "complete"]]
    BY <1>3 DEF RecordReceipt, Complete, toolVars
  <2>2. held[w].id \in Ids /\ DOMAIN row = {"op", "state", "receipt"}
    BY <1>3, Holding DEF RecordReceipt, Complete
  <2>3. \A i \in Ids : intents[i] # None =>
          intents'[i] # None /\ intents'[i].op = intents[i].op
    <3> TAKE i \in Ids
    <3>1. CASE i = held[w].id
      <4>1. \/ intents'[i] = [row EXCEPT !.receipt = receipt[w]]
            \/ intents'[i] = [row EXCEPT !.state = "complete"]
        BY <3>1, <2>1, <2>2 DEF Journal
      <4> QED
        BY <4>1, <3>1, <2>2, RowUpdates
    <3>2. CASE i # held[w].id
      BY <3>2, <2>1, <2>2 DEF Journal
    <3> QED
      BY <3>1, <3>2
  <2> QED
    BY <2>1, <2>3 DEF Receipts
<1>4. ASSUME NEW w \in Workers, pc[w] = "applying", receipts[held[w].id] = None,
             Effect(held[w]), UNCHANGED intents
      PROVE  Receipts'
  <2> DEFINE op == held[w]
  <2>1. op \in Operations /\ intents[op.id] # None /\ intents[op.id].op = op
    BY <1>4 DEF Executors
  <2>2. PICK code, after : receipts' = [receipts EXCEPT ![op.id] = Receipt(op, code, after)]
    BY <1>4 DEF Effect
  <2>3. Receipt(op, code, after).op = op
    BY DEF Receipt
  <2> QED
    BY <1>4, <2>1, <2>2, <2>3 DEF Receipts
<1> QED
  BY <1>1, <1>2, <1>3, <1>4, ReceiptsGrow
     DEF Next, Reconciles, vars, toolVars, Seed, Authorize, ExecuteAgain, Recover, Lookup, Apply, Stops

(* What a worker relies on stays true whatever another worker does. *)
LEMMA FilesGrow ==
  ASSUME IInv, [Next]_vars, NEW i \in Ids, intents[i] # None
  PROVE  /\ intents'[i] # None /\ intents'[i].op = intents[i].op
         /\ receipts[i] # None => receipts'[i] = receipts[i]
         /\ intents[i].receipt # None => intents'[i].receipt # None
<1> USE DEF IInv
<1>1. CASE UNCHANGED <<intents, receipts>>
  BY <1>1
<1>2. ASSUME NEW w \in Workers, NEW op \in Operations, Execute(w, op)
      PROVE  UNCHANGED receipts /\ intents'[i] = intents[i]
  BY <1>2 DEF Execute, Previous, toolVars
<1>3. ASSUME NEW w \in Workers, RecordReceipt(w) \/ Complete(w)
      PROVE  /\ UNCHANGED receipts
             /\ intents'[i] # None /\ intents'[i].op = intents[i].op
             /\ intents[i].receipt # None => intents'[i].receipt # None
  <2> DEFINE row == intents[held[w].id]
  <2>1. /\ UNCHANGED receipts
        /\ \/ /\ pc[w] = "recording"
              /\ intents' = [intents EXCEPT ![held[w].id] = [row EXCEPT !.receipt = receipt[w]]]
           \/ intents' = [intents EXCEPT ![held[w].id] = [row EXCEPT !.state = "complete"]]
    BY <1>3 DEF RecordReceipt, Complete, toolVars
  <2>2. held[w].id \in Ids /\ DOMAIN row = {"op", "state", "receipt"}
    BY <1>3, Holding DEF RecordReceipt, Complete
  <2>3. pc[w] = "recording" => receipt[w] # None
    BY DEF Executors
  <2>4. CASE i = held[w].id
    <3>1. \/ /\ pc[w] = "recording"
             /\ intents'[i] = [row EXCEPT !.receipt = receipt[w]]
          \/ intents'[i] = [row EXCEPT !.state = "complete"]
      BY <2>4, <2>1, <2>2 DEF Journal
    <3> QED
      BY <3>1, <2>1, <2>2, <2>3, <2>4, RowUpdates
  <2>5. CASE i # held[w].id
    BY <2>5, <2>1, <2>2 DEF Journal
  <2> QED
    BY <2>4, <2>5
<1>4. ASSUME NEW w \in Workers, pc[w] = "applying", receipts[held[w].id] = None,
             Effect(held[w])
      PROVE  receipts[i] # None => receipts'[i] = receipts[i]
  BY <1>4 DEF Effect, Receipts
<1> QED
  BY <1>1, <1>2, <1>3, <1>4, ReceiptsGrow
     DEF Next, Reconciles, vars, toolVars, Seed, Authorize, ExecuteAgain, Recover, Lookup, Apply, Stops

LEMMA ExecutorsStep == IInv /\ [Next]_vars => Executors'
<1> SUFFICES ASSUME IInv, [Next]_vars PROVE Executors'
  OBVIOUS
<1>1. \A v \in Workers : pc[v] # "idle" =>
        /\ held[v] \in Operations /\ held[v].id \in Ids
        /\ intents'[held[v].id] # None /\ intents'[held[v].id].op = held[v]
        /\ receipts[held[v].id] # None => receipts'[held[v].id] = receipts[held[v].id]
        /\ intents[held[v].id].receipt # None => intents'[held[v].id].receipt # None
  BY Holding, FilesGrow
<1> DEFINE Stays(v) == pc'[v] = pc[v] /\ held'[v] = held[v] /\ receipt'[v] = receipt[v]
           Right(v) ==
             /\ pc'[v] \in {"idle", "looking up", "applying", "recording", "completing"}
             /\ pc'[v] # "idle" =>
                  /\ held'[v] \in Operations
                  /\ intents'[held'[v].id] # None /\ intents'[held'[v].id].op = held'[v]
             /\ pc'[v] = "recording" =>
                  receipt'[v] # None /\ receipt'[v] = receipts'[held'[v].id]
             /\ pc'[v] = "completing" => intents'[held'[v].id].receipt # None
<1>2. ASSUME NEW v \in Workers, Stays(v) PROVE Right(v)
  BY <1>1, <1>2 DEF IInv, Executors
<1>3. CASE UNCHANGED workerVars
  BY <1>2, <1>3 DEF workerVars, IInv, Executors
<1>4. ASSUME NEW w \in Workers,
             \/ Lookup(w) \/ Apply(w) \/ RecordReceipt(w) \/ Complete(w) \/ Stops(w)
             \/ \E op \in Operations : Execute(w, op) \/ ExecuteAgain(w, op)
             \/ \E t \in Tasks : Recover(w, t)
      PROVE  Executors'
  <2>1. /\ DOMAIN pc' = Workers /\ DOMAIN held' = Workers /\ DOMAIN receipt' = Workers
        /\ \A v \in Workers : v # w => Stays(v)
    BY <1>4 DEF Lookup, Apply, RecordReceipt, Complete, Stops, Execute, ExecuteAgain, Recover,
                Takes, Leaves, IInv, Executors
  <2>2. ASSUME Lookup(w) PROVE Right(w)
    BY <2>2, <1>1 DEF Lookup, IInv, Executors, toolVars
  <2>3. ASSUME Apply(w) PROVE Right(w)
    <3> DEFINE op == held[w]
    <3>1. /\ op \in Operations /\ op.id \in Ids
          /\ intents'[op.id] # None /\ intents'[op.id].op = op
          /\ held' = held /\ pc'[w] = "recording" /\ receipt'[w] = receipts'[op.id]
      BY <2>3, <1>1 DEF Apply, IInv, Executors
    <3>2. receipts'[op.id] # None
      <4>1. CASE receipts[op.id] = None
        <5>1. Effect(op)
          BY <4>1, <2>3, Found, Holding DEF Apply
        <5>2. PICK code, after : receipts' = [receipts EXCEPT ![op.id] = Receipt(op, code, after)]
          BY <5>1 DEF Effect
        <5> QED
          BY <5>2, <3>1, RowsExist DEF Receipt, IInv, Receipts
      <4>2. CASE receipts[op.id] # None
        BY <4>2, <2>3, <1>1 DEF Apply
      <4> QED
        BY <4>1, <4>2
    <3> QED
      BY <3>1, <3>2
  <2>4. ASSUME RecordReceipt(w) PROVE Right(w)
    <3>1. /\ pc[w] = "recording" /\ held' = held /\ pc'[w] = "completing"
          /\ intents' = [intents EXCEPT ![held[w].id] =
                           [intents[held[w].id] EXCEPT !.receipt = receipt[w]]]
      BY <2>4 DEF RecordReceipt, IInv, Executors
    <3>2. /\ receipt[w] # None /\ held[w].id \in DOMAIN intents
          /\ DOMAIN intents[held[w].id] = {"op", "state", "receipt"}
      BY <3>1, Holding DEF IInv, Executors, Journal
    <3>3. intents'[held[w].id] = [intents[held[w].id] EXCEPT !.receipt = receipt[w]]
      BY <3>1, <3>2
    <3>4. intents'[held[w].id].receipt = receipt[w]
      BY <3>2, <3>3, RowUpdates
    <3> QED
      BY <3>1, <3>2, <3>4, <1>1
  <2>5. ASSUME Complete(w) \/ Stops(w) PROVE Right(w)
    BY <2>5 DEF Complete, Stops, Leaves, IInv, Executors
  <2>6. ASSUME NEW op \in Operations, Execute(w, op)
        PROVE  Right(w)
    <3>1. /\ op.id \in Ids
          /\ intents' = [intents EXCEPT ![op.id] =
                           [op |-> op, state |-> "pending", receipt |-> None]]
          /\ held'[w] = op /\ pc'[w] = "looking up"
      BY <2>6 DEF Execute, Takes, IInv, Executors, Ids
    <3> QED
      BY <3>1, RowsExist DEF IInv, Journal
  <2>7. ASSUME NEW i \in Ids, intents[i] # None, Takes(w, intents[i].op, intents[i].receipt),
               UNCHANGED <<intents, receipts>>
        PROVE  Right(w)
    <3>1. /\ held'[w] = intents[i].op /\ receipt'[w] = intents[i].receipt
          /\ pc'[w] = IF intents[i].receipt = None THEN "looking up" ELSE "recording"
      BY <2>7 DEF Takes, IInv, Executors
    <3>2. /\ intents[i].op \in Operations /\ intents[i].op.id = i
          /\ intents[i].receipt # None => intents[i].receipt = receipts[i]
      BY <2>7 DEF IInv, Journal
    <3> QED
      BY <2>7, <3>1, <3>2
  <2>8. ASSUME NEW op \in Operations, ExecuteAgain(w, op)
        PROVE  Right(w)
    <3>1. op.id \in Ids /\ intents[op.id] # None /\ intents[op.id].op = op
      BY <2>8 DEF ExecuteAgain, Previous, Replays, IInv, Journal, SameStep, Ids
    <3> QED
      BY <2>7, <2>8, <3>1 DEF ExecuteAgain, toolVars
  <2>9. ASSUME NEW t \in Tasks, Recover(w, t)
        PROVE  Right(w)
    <3>1. PICK i \in PendingOf(t) : Takes(w, intents[i].op, intents[i].receipt)
      BY <2>9 DEF Recover
    <3> QED
      BY <2>7, <2>9, <3>1 DEF Recover, PendingOf, toolVars
  <2>10. Right(w)
    BY <1>4, <2>2, <2>3, <2>4, <2>5, <2>6, <2>8, <2>9
  <2> QED
    BY <1>2, <2>1, <2>10 DEF Executors
<1>5. CASE \/ \E p \in Products, q \in Seeds : Seed(p, q)
           \/ \E t \in Tasks, p \in Products, q \in Quotas : Authorize(t, p, q)
           \/ UNCHANGED vars
  BY <1>3, <1>5 DEF Seed, Authorize, vars
<1>6. CASE \E w \in Workers : Reconciles(w) \/ Stops(w)
  BY <1>4, <1>6 DEF Reconciles
<1>7. ASSUME NEW w \in Workers, NEW op \in Operations, Execute(w, op) \/ ExecuteAgain(w, op)
      PROVE  Executors'
  BY <1>4, <1>7
<1>8. ASSUME NEW w \in Workers, NEW t \in Tasks, Recover(w, t) PROVE Executors'
  BY <1>4, <1>8
<1> QED
  BY <1>5, <1>6, <1>7, <1>8 DEF Next

-----------------------------------------------------------------------------
(* Every receipt of an applied operation has the version it saw, and the
   versions of a product are those of its applied operations, each once. *)
Applied(p) ==
  {i \in Ids : receipts[i] # None /\ receipts[i].code = "applied" /\ receipts[i].op.product = p}

Seen(p) == {receipts[i].op.version : i \in Applied(p)}

Versions ==
  /\ DOMAIN stock = Products
  /\ \A p \in Products :
       /\ stock[p] = None => Applied(p) = {}
       /\ stock[p] # None =>
            /\ stock[p].version \in Nat
            /\ stock[p].version = Cardinality(Applied(p))
            /\ Seen(p) = 0 .. stock[p].version - 1

LEMMA IdsAreFinite == IsFiniteSet(Ids) /\ \A p \in Products : IsFiniteSet(Applied(p))
<1>1. IsFiniteSet(Ids)
  <2> DEFINE f == [op \in Operations |-> op.id]
  <2>1. f \in Surjection(Operations, Ids)
    BY Fun_IsSurj DEF Ids
  <2> HIDE DEF f
  <2> QED
    BY <2>1, OperationsAssumption, FS_Surjection
<1> QED
  BY <1>1, FS_Subset DEF Applied

LEMMA VersionsInit == Init => Versions
<1> SUFFICES ASSUME Init PROVE Versions
  OBVIOUS
<1>1. \A p \in Products : Applied(p) = {}
  BY DEF Init, Applied
<1> QED
  BY <1>1 DEF Init, Versions

LEMMA VersionsStep == IInv /\ Versions /\ [Next]_vars => Versions'
<1> SUFFICES ASSUME IInv, Versions, [Next]_vars PROVE Versions'
  OBVIOUS
<1>1. CASE UNCHANGED <<stock, receipts, reservations>>
  BY <1>1 DEF Versions, Applied, Seen
<1>2. ASSUME NEW p \in Products, NEW q \in Seeds, Seed(p, q) PROVE Versions'
  <2>1. \A r \in Products : Applied(r)' = Applied(r) /\ Seen(r)' = Seen(r)
    BY <1>2 DEF Seed, Applied, Seen
  <2>2. stock' = [stock EXCEPT ![p] = [available |-> q, version |-> 0]] /\ Applied(p) = {}
    BY <1>2 DEF Seed, Versions
  <2>3. /\ Cardinality(Applied(p)) = 0 /\ Seen(p) = 0 .. 0 - 1
        /\ \A x, y : [available |-> x, version |-> y] # None
    BY <2>2, FS_EmptySet DEF Seen, None
  <2> QED
    BY <2>1, <2>2, <2>3 DEF Versions
<1>3. ASSUME NEW op \in Operations, op.id \in Ids, intents[op.id] # None,
             intents[op.id].op = op, receipts[op.id] = None, Effect(op),
             NEW p \in Products, p = op.product
      PROVE  Versions'
  <2> DEFINE code == Code(op)
             after == IF code = "applied" THEN StockAfter(op) ELSE stock[p]
  <2>1. op \in Operations /\ op.id \in Ids /\ p \in Products /\ op.version \in Nat
    BY <1>3, OperationsAssumption
  <2>2. /\ stock' = [stock EXCEPT ![p] = after]
        /\ receipts' = [receipts EXCEPT ![op.id] = Receipt(op, code, after)]
    BY <1>3 DEF Effect
  <2>3. Receipt(op, code, after).op = op /\ Receipt(op, code, after).code = code
        /\ Receipt(op, code, after) # None
    BY RowsExist DEF Receipt
  <2>4. \A r \in Products :
          Applied(r)' = IF r = p /\ code = "applied" THEN Applied(r) \cup {op.id} ELSE Applied(r)
    <3> HIDE DEF code, after
    <3> QED
      BY <1>3, <2>1, <2>2, <2>3 DEF Applied, IInv, Receipts
  <2>5. \A r \in Products : \A i \in Applied(r) : receipts'[i] = receipts[i]
    BY <1>3, <2>2 DEF Applied
  <2>6. ASSUME NEW r \in Products, r # p \/ code # "applied"
        PROVE  Applied(r)' = Applied(r) /\ Seen(r)' = Seen(r) /\ stock'[r] = stock[r]
    <3>1. Applied(r)' = Applied(r) /\ stock'[r] = stock[r]
      BY <2>1, <2>2, <2>4, <2>6 DEF Versions
    <3> QED
      BY <3>1, <2>5, <2>6 DEF Seen
  <2>7. CASE code # "applied"
    BY <2>2, <2>6, <2>7 DEF Versions
  <2>8. CASE code = "applied"
    <3>1. stock[p] # None /\ stock[p].version = op.version
      BY <1>3, <2>8 DEF Code
    <3>2. stock'[p].version = op.version + 1 /\ stock'[p] # None
      BY <1>3, <2>1, <2>2, <2>8, <3>1 DEF Versions, StockAfter, None
    <3>3. op.id \notin Applied(p) /\ Applied(p)' = Applied(p) \cup {op.id}
      <4>1. op.id \notin Applied(p)
        BY <1>3 DEF Applied
      <4> HIDE DEF code, after
      <4> QED
        BY <2>1, <2>4, <2>8, <4>1
    <3>4. Cardinality(Applied(p)') = op.version + 1
      <4>1. Cardinality(Applied(p)) = op.version /\ IsFiniteSet(Applied(p))
        BY <2>1, <3>1, IdsAreFinite DEF Versions
      <4> QED
        BY <3>3, <4>1, FS_AddElement
    <3>5. Seen(p)' = 0 .. op.version
      <4>1. receipts'[op.id].op.version = op.version
        BY <2>1, <2>2, <2>3 DEF IInv, Receipts
      <4>2. Seen(p) = 0 .. op.version - 1
        BY <2>1, <3>1 DEF Versions
      <4>3. Seen(p)' = Seen(p) \cup {op.version}
        <5>1. \A i \in Applied(p) : receipts'[i].op.version = receipts[i].op.version
          BY <2>1, <2>5
        <5> QED
          BY <3>3, <4>1, <5>1 DEF Seen
      <4> QED
        BY <2>1, <4>2, <4>3
    <3>6. DOMAIN stock' = Products
      BY <2>2 DEF Versions
    <3> HIDE DEF code, after
    <3> SUFFICES ASSUME NEW r \in Products
                 PROVE  /\ stock'[r] = None => Applied(r)' = {}
                        /\ stock'[r] # None =>
                             /\ stock'[r].version \in Nat
                             /\ stock'[r].version = Cardinality(Applied(r)')
                             /\ Seen(r)' = 0 .. stock'[r].version - 1
      BY <3>6 DEF Versions
    <3>8. CASE r = p
      <4>1. Applied(r)' = Applied(p)'
        BY <3>8 DEF Applied
      <4>2. Seen(r)' = Seen(p)'
        BY <4>1 DEF Seen
      <4>3. stock'[r] = stock'[p]
        BY <3>8
      <4>4. stock'[r].version \in Nat /\ stock'[r].version - 1 = op.version
        BY <4>3, <3>2, <2>1
      <4>5. stock'[r].version = Cardinality(Applied(r)')
        BY <4>1, <4>3, <3>2, <3>4
      <4>6. Seen(r)' = 0 .. stock'[r].version - 1
        BY <4>2, <4>4, <3>5
      <4> QED
        BY <4>3, <4>4, <4>5, <4>6, <3>2
    <3>9. CASE r # p
      BY <3>9, <2>6 DEF Versions
    <3> QED
      BY <3>8, <3>9
  <2> QED
    BY <2>7, <2>8
<1> QED
  BY <1>1, <1>2, <1>3, ReceiptsGrow, Holding, OperationsAssumption

-----------------------------------------------------------------------------
(* Sums *)

(* The sum of the quantities of the rows of table at ids, and the function that
   MapThenSumSet computes it with: it takes out one element at a time. *)
Total(table, ids) == MapThenSumSet(LAMBDA i : table[i].quantity, ids)

AnyOf(ids) == CHOOSE i \in ids : TRUE

Added(f, table, ids) == table[AnyOf(ids)].quantity + f[ids \ {AnyOf(ids)}]

Adds(f, table, S) ==
  f = [ids \in SUBSET S |->
         IF ids = {} THEN 0
         ELSE Added(f, table, ids)]

(* Of the subsets of a finite set, any collection has a least one. *)
LEMMA SmallestSet ==
  ASSUME NEW S, IsFiniteSet(S), NEW T, T \subseteq SUBSET S, T # {}
  PROVE  \E ids \in T : \A jds \in T : jds \subseteq ids => jds = ids
<1>1. IsWellFoundedOn(StrictSubsetOrdering(S), FiniteSubsetsOf(S))
  BY FS_StrictSubsetOrderingWellFounded
<1>2. T \subseteq FiniteSubsetsOf(S)
  BY FS_Subset DEF FiniteSubsetsOf
<1>3. \E x \in T : \A y \in T : ~ (<<y, x>> \in StrictSubsetOrdering(S))
  BY <1>1, <1>2, WFMin
<1> QED
  BY <1>3 DEF StrictSubsetOrdering

LEMMA AnyIsOne == ASSUME NEW ids, ids # {} PROVE AnyOf(ids) \in ids
BY DEF AnyOf

LEMMA AddsAt ==
  ASSUME NEW S, NEW f, NEW table, Adds(f, table, S)
  PROVE  /\ f[{}] = 0
         /\ \A ids : ids \subseteq S /\ ids # {} =>
              f[ids] = Added(f, table, ids)
<1>1. f = [x \in SUBSET S |->
         IF x = {} THEN 0
         ELSE Added(f, table, x)]
  BY DEF Adds
<1>2. \A x \in SUBSET S : f[x] = IF x = {} THEN 0
         ELSE Added(f, table, x)
  BY <1>1
<1> QED
  BY <1>2

(* Two tables with the same quantities at ids have the same sum. *)
LEMMA SameSum ==
  ASSUME NEW S, NEW R, IsFiniteSet(S), NEW f, NEW g, NEW table, NEW other,
         Adds(f, table, S), Adds(g, other, R),
         NEW ids \in SUBSET S, ids \in SUBSET R,
         \A i \in ids : table[i].quantity = other[i].quantity
  PROVE  f[ids] = g[ids]
<1> DEFINE Differ == {x \in SUBSET ids : f[x] # g[x]}
<1>1. \A x : x \subseteq ids /\ x # {} =>
        f[x] = Added(f, table, x)
  BY AddsAt
<1>2. \A x : x \subseteq ids /\ x # {} =>
        g[x] = Added(g, other, x)
  BY AddsAt
<1>3. f[{}] = g[{}]
  BY AddsAt
<1>4. ASSUME Differ # {} PROVE FALSE
  <2>1. PICK x \in Differ : \A y \in Differ : y \subseteq x => y = x
    <3>1. Differ \subseteq SUBSET S
      OBVIOUS
    <3> HIDE DEF Differ
    <3> QED
      BY <1>4, <3>1, SmallestSet
  <2>2. x # {} /\ x \subseteq ids /\ f[x] # g[x]
    BY <1>3
  <2> DEFINE a == AnyOf(x)
  <2>3. a \in x
    BY <2>2, AnyIsOne
  <2>4. f[x \ {a}] = g[x \ {a}]
    BY <2>1, <2>3
  <2>5. f[x] = table[a].quantity + f[x \ {a}]
    BY <1>1, <2>2 DEF Added
  <2>6. g[x] = other[a].quantity + g[x \ {a}]
    BY <1>2, <2>2 DEF Added
  <2>7. table[a].quantity = other[a].quantity
    BY <2>2, <2>3
  <2> HIDE DEF Differ, a
  <2> QED
    BY <2>2, <2>4, <2>5, <2>6, <2>7, Zenon
<1> QED
  BY <1>4

LEMMA SumExists ==
  ASSUME NEW S, IsFiniteSet(S), NEW table
  PROVE  \E f : Adds(f, table, S)
<1> DEFINE Without == {x \in SUBSET S : ~ \E f : Adds(f, table, x)}
<1>1. SUFFICES ASSUME Without # {} PROVE FALSE
  OBVIOUS
<1>2. PICK x \in Without : \A y \in Without : y \subseteq x => y = x
  <2>1. Without \subseteq SUBSET S
    OBVIOUS
  <2> HIDE DEF Without
  <2> QED
    BY <1>1, <2>1, SmallestSet
<1> DEFINE F(y) == CHOOSE f : Adds(f, table, y)
           g == [y \in SUBSET x |->
                   IF y = {} THEN 0
                   ELSE table[AnyOf(y)].quantity + F(y \ {AnyOf(y)})[y \ {AnyOf(y)}]]
<1>3. ASSUME NEW y \in SUBSET x, y # x PROVE Adds(F(y), table, y)
  BY <1>2, <1>3
<1>4. ASSUME NEW y \in SUBSET x, y # {} PROVE y \ {AnyOf(y)} \in SUBSET x /\ y \ {AnyOf(y)} # x
  BY <1>4, AnyIsOne
<1> HIDE DEF F
<1>5. ASSUME NEW y \in SUBSET x, y # x PROVE g[y] = F(y)[y]
  <2>1. Adds(F(y), table, y)
    BY <1>3, <1>5
  <2>2. CASE y = {}
    BY <2>1, <2>2, AddsAt
  <2>3. CASE y # {}
    <3> DEFINE z == y \ {AnyOf(y)}
    <3>1. z \in SUBSET x /\ z # x /\ z \in SUBSET y /\ z \in SUBSET z
      BY <1>4, <2>3
    <3>2. Adds(F(z), table, z)
      BY <1>3, <3>1
    <3>3. F(y)[z] = F(z)[z]
      <4>1. IsFiniteSet(y)
        BY FS_Subset
      <4> HIDE DEF z
      <4> QED
        BY <2>1, <3>1, <3>2, <4>1, SameSum
    <3>4. F(y)[y] = table[AnyOf(y)].quantity + F(y)[z]
      BY <2>1, <2>3, AddsAt DEF Added
    <3> QED
      BY <2>3, <3>3, <3>4
  <2> QED
    BY <2>2, <2>3
<1>6. Adds(g, table, x)
  <2>1. ASSUME NEW y \in SUBSET x, y # {}
        PROVE  g[y] = Added(g, table, y)
    BY <1>4, <1>5, <2>1 DEF Added
  <2>2. g[{}] = 0
    OBVIOUS
  <2>3. g = [y \in SUBSET x |-> g[y]]
    OBVIOUS
  <2> HIDE DEF g
  <2> QED
    BY <2>1, <2>2, <2>3 DEF Adds
<1> QED
  BY <1>2, <1>6

LEMMA TotalIs ==
  ASSUME NEW S, IsFiniteSet(S), NEW table
  PROVE  \E f : Adds(f, table, S) /\ Total(table, S) = f[S]
<1> DEFINE f == CHOOSE f : Adds(f, table, S)
<1>1. Adds(f, table, S)
  BY SumExists
<1>2. Total(table, S) = f[S]
  BY DEF Total, MapThenSumSet, MapThenFoldSet, Adds, Added, AnyOf
<1> QED
  BY <1>1, <1>2

LEMMA TotalEmpty == \A table : Total(table, {}) = 0
BY TotalIs, FS_EmptySet, AddsAt

LEMMA TotalSame ==
  ASSUME NEW S, IsFiniteSet(S), NEW table, NEW other,
         \A i \in S : table[i].quantity = other[i].quantity
  PROVE  Total(table, S) = Total(other, S)
<1>1. PICK f : Adds(f, table, S) /\ Total(table, S) = f[S]
  BY TotalIs
<1>2. PICK g : Adds(g, other, S) /\ Total(other, S) = g[S]
  BY TotalIs
<1> QED
  BY <1>1, <1>2, SameSum

LEMMA TotalNat ==
  ASSUME NEW S, IsFiniteSet(S), NEW table, \A i \in S : table[i].quantity \in Nat
  PROVE  Total(table, S) \in Nat
<1>1. PICK f : Adds(f, table, S) /\ Total(table, S) = f[S]
  BY TotalIs
<1>2. f[{}] \in Nat
  BY <1>1, AddsAt
<1>3. \A x : x \subseteq S /\ x # {} =>
        f[x] = Added(f, table, x)
  BY <1>1, AddsAt
<1> DEFINE Bad == {x \in SUBSET S : f[x] \notin Nat}
<1>4. ASSUME Bad # {} PROVE FALSE
  <2>1. PICK x \in Bad : \A y \in Bad : y \subseteq x => y = x
    <3>1. Bad \subseteq SUBSET S
      OBVIOUS
    <3> HIDE DEF Bad
    <3> QED
      BY <1>4, <3>1, SmallestSet
  <2>2. x # {} /\ x \subseteq S /\ f[x] \notin Nat
    BY <1>2
  <2> DEFINE a == AnyOf(x)
  <2>3. a \in x
    BY <2>2, AnyIsOne
  <2>4. f[x \ {a}] \in Nat
    BY <2>1, <2>3
  <2>5. f[x] = table[a].quantity + f[x \ {a}]
    BY <1>3, <2>2 DEF Added
  <2>6. table[a].quantity \in Nat
    BY <2>2, <2>3
  <2> HIDE DEF Bad, a
  <2> QED
    BY <2>2, <2>4, <2>5, <2>6
<1>5. f[S] \in Nat
  BY <1>4
<1> QED
  BY <1>1, <1>5

LEMMA TotalWithout ==
  ASSUME NEW S, IsFiniteSet(S), NEW table, \A i \in S : table[i].quantity \in Nat,
         NEW j \in S
  PROVE  Total(table, S) = table[j].quantity + Total(table, S \ {j})
<1>1. PICK f : Adds(f, table, S) /\ Total(table, S) = f[S]
  BY TotalIs
<1>2. ASSUME NEW x \in SUBSET S PROVE f[x] = Total(table, x) /\ f[x] \in Nat
  <2>1. IsFiniteSet(x)
    BY FS_Subset
  <2>2. PICK g : Adds(g, table, x) /\ Total(table, x) = g[x]
    BY <2>1, TotalIs
  <2>3. f[x] = g[x]
    BY <1>1, <2>2, SameSum
  <2> QED
    BY <2>1, <2>2, <2>3, TotalNat
<1> DEFINE Bad == {x \in SUBSET S : \E i \in x : f[x] # table[i].quantity + f[x \ {i}]}
<1>3. Bad = {}
  <2>1. SUFFICES ASSUME Bad # {} PROVE FALSE
    OBVIOUS
  <2>2. PICK x \in Bad : \A y \in Bad : y \subseteq x => y = x
    <3>1. Bad \subseteq SUBSET S
      OBVIOUS
    <3> HIDE DEF Bad
    <3> QED
      BY <2>1, <3>1, SmallestSet
  <2>3. PICK i \in x : f[x] # table[i].quantity + f[x \ {i}]
    OBVIOUS
  <2> DEFINE a == AnyOf(x)
  <2>4. a \in x /\ f[x] = table[a].quantity + f[x \ {a}]
    <3>1. x # {} /\ x \subseteq S
      BY <2>3
    <3>2. a \in x /\ f[x] = Added(f, table, x)
      BY <1>1, <3>1, AddsAt, AnyIsOne
    <3> QED
      BY <3>2 DEF Added
  <2>5. a # i
    BY <2>3, <2>4
  <2>6. x \ {a} \notin Bad /\ x \ {i} \notin Bad
    BY <2>2, <2>3, <2>4
  <2>7. f[x \ {a}] = table[i].quantity + f[(x \ {a}) \ {i}]
    BY <2>3, <2>5, <2>6
  <2>8. f[x \ {i}] = table[a].quantity + f[(x \ {i}) \ {a}]
    BY <2>4, <2>5, <2>6
  <2>9. (x \ {a}) \ {i} = (x \ {i}) \ {a}
    OBVIOUS
  <2>10. /\ table[i].quantity \in Nat /\ table[a].quantity \in Nat
         /\ f[(x \ {i}) \ {a}] \in Nat
    BY <1>2, <2>3, <2>4
  <2>11. f[x] # table[i].quantity + f[x \ {i}]
    BY <2>3
  <2>12. f[x] = table[a].quantity + (table[i].quantity + f[(x \ {i}) \ {a}])
    BY <2>4, <2>7, <2>9
  <2>13. f[x \ {i}] = table[a].quantity + f[(x \ {i}) \ {a}]
    BY <2>8
  <2> HIDE DEF a, Bad
  <2> QED
    BY <2>10, <2>11, <2>12, <2>13
<1>4. f[S] = table[j].quantity + f[S \ {j}]
  BY <1>3
<1> QED
  BY <1>2, <1>4
(* With a row less, or seen from there, with a row more. *)
LEMMA TotalLess ==
  ASSUME NEW S, IsFiniteSet(S), NEW j \in S, NEW table, NEW other,
         \A i \in S : table[i].quantity \in Nat,
         \A i \in S \ {j} : other[i].quantity = table[i].quantity
  PROVE  Total(table, S) = Total(other, S \ {j}) + table[j].quantity
<1>1. IsFiniteSet(S \ {j})
  BY FS_RemoveElement
<1>2. Total(table, S) = table[j].quantity + Total(table, S \ {j})
  BY TotalWithout
<1>3. Total(other, S \ {j}) = Total(table, S \ {j})
  BY <1>1, TotalSame
<1>4. Total(table, S \ {j}) \in Nat
  BY <1>1, TotalNat
<1> QED
  BY <1>2, <1>3, <1>4

-----------------------------------------------------------------------------
(* What is reserved and what is left *)

Lent(p) ==
  {i \in Ids : /\ reservations[i] # None
               /\ reservations[i].active /\ reservations[i].product = p}

(* A reservation is an operation's that has its receipt. *)
Reservations ==
  /\ DOMAIN reservations = Ids
  /\ \A i \in Ids : reservations[i] # None =>
       /\ DOMAIN reservations[i] = {"task", "product", "quantity", "active"}
       /\ reservations[i].task \in Tasks /\ reservations[i].product \in Products
       /\ reservations[i].quantity \in Nat /\ reservations[i].active \in BOOLEAN
       /\ receipts[i] # None
       /\ stock[reservations[i].product] # None

Supplies ==
  /\ DOMAIN stock = Products /\ DOMAIN seeded = Products
  /\ \A p \in Products : stock[p] # None =>
       /\ stock[p].available \in Nat
       /\ stock[p].available + Total(reservations, Lent(p)) = seeded[p]

Shares ==
  /\ DOMAIN grants = Tasks \X Products
  /\ \A t \in Tasks, p \in Products :
       /\ grants[<<t, p>>] \in Nat
       /\ Total(reservations, Active(t, p)) <= grants[<<t, p>>]

Accounts == Reservations /\ Supplies /\ Shares

LEMMA ReservedIsTotal == \A ids : Reserved(ids) = Total(reservations, ids)
BY DEF Reserved, Total

LEMMA Countable ==
  ASSUME Reservations
  PROVE  /\ \A p : /\ IsFiniteSet(Lent(p)) /\ Lent(p) \subseteq Ids
                   /\ \A i \in Lent(p) : reservations[i].quantity \in Nat
         /\ \A t, p : /\ IsFiniteSet(Active(t, p)) /\ Active(t, p) \subseteq Lent(p)
                      /\ \A i \in Active(t, p) : reservations[i].quantity \in Nat
<1>1. ASSUME NEW p PROVE Lent(p) \in SUBSET Ids /\ \A i \in Lent(p) : reservations[i].quantity \in Nat
  BY DEF Lent, Reservations
<1>2. ASSUME NEW t, NEW p PROVE Active(t, p) \subseteq Lent(p)
  BY DEF Active, Lent
<1>3. ASSUME NEW p PROVE IsFiniteSet(Lent(p))
  BY <1>1, IdsAreFinite, FS_Subset
<1>4. ASSUME NEW t, NEW p PROVE IsFiniteSet(Active(t, p))
  BY <1>2, <1>3, FS_Subset
<1> QED
  BY <1>1, <1>2, <1>3, <1>4

LEMMA AccountsInit == Init => Accounts
<1> SUFFICES ASSUME Init PROVE Accounts
  OBVIOUS
<1>1. \A t, p : Active(t, p) = {} /\ Lent(p) = {}
  BY DEF Init, Active, Lent
<1>2. \A t, p : Total(reservations, Active(t, p)) = 0
  BY <1>1, TotalEmpty
<1> QED
  BY <1>2 DEF Init, Accounts, Reservations, Supplies, Shares

(* The tool's file changes only when the host seeds or grants, and when an
   executor applies what it holds. *)
LEMMA ToolMoves ==
  ASSUME IInv, [Next]_vars
  PROVE  \/ UNCHANGED toolVars
         \/ \E p \in Products, q \in Seeds : Seed(p, q)
         \/ \E t \in Tasks, p \in Products, q \in Quotas : Authorize(t, p, q)
         \/ \E w \in Workers :
              /\ pc[w] = "applying" /\ receipts[held[w].id] = None /\ Effect(held[w])
<1>1. CASE UNCHANGED vars
  BY <1>1 DEF vars
<1>2. CASE \E w \in Workers : Apply(w)
  <2>1. PICK w \in Workers : Apply(w)
    BY <1>2
  <2>2. held[w] \in Operations /\ intents[held[w].id] # None /\ intents[held[w].id].op = held[w]
    BY <2>1 DEF IInv, Executors, Apply
  <2>3. Previous(receipts, held[w]) = {} <=> receipts[held[w].id] = None
    BY <2>2, Found
  <2> QED
    BY <2>1, <2>3 DEF Apply
<1>3. CASE \E w \in Workers, op \in Operations : Execute(w, op) \/ ExecuteAgain(w, op)
  BY <1>3 DEF Execute, ExecuteAgain
<1>4. CASE \E w \in Workers, t \in Tasks : Recover(w, t)
  BY <1>4 DEF Recover
<1>5. CASE \E w \in Workers : Lookup(w) \/ RecordReceipt(w) \/ Complete(w) \/ Stops(w)
  BY <1>5 DEF Lookup, RecordReceipt, Complete, Stops
<1> QED
  BY <1>1, <1>2, <1>3, <1>4, <1>5 DEF Next, Reconciles

(* Seeding: nothing of the product was reserved before. *)
LEMMA AccountsSeed ==
  ASSUME Accounts, NEW p \in Products, NEW q \in Seeds, Seed(p, q)
  PROVE  Accounts'
<1> USE DEF Accounts
<1>1. /\ stock[p] = None /\ stock' = [stock EXCEPT ![p] = [available |-> q, version |-> 0]]
      /\ seeded' = [seeded EXCEPT ![p] = q]
      /\ UNCHANGED <<grants, reservations, receipts>>
  BY DEF Seed
<1>2. q \in Nat /\ \A x, y : [available |-> x, version |-> y] # None
  BY OperationsAssumption DEF None
<1>3. \A t, r : Active(t, r)' = Active(t, r) /\ Lent(r)' = Lent(r)
  BY <1>1 DEF Active, Lent
<1>4. Lent(p) = {}
  BY <1>1 DEF Lent, Reservations
<1>5. Total(reservations, Lent(p)) = 0
  BY <1>4, TotalEmpty
<1>6. Reservations'
  BY <1>1, <1>2 DEF Reservations, Supplies
<1>7. Supplies'
  <2>1. DOMAIN stock' = Products /\ DOMAIN seeded' = Products
    BY <1>1 DEF Supplies
  <2>2. ASSUME NEW r \in Products, stock'[r] # None
        PROVE  /\ stock'[r].available \in Nat
               /\ stock'[r].available + Total(reservations', Lent(r)') = seeded'[r]
    <3>1. CASE r = p
      <4>1. stock'[r].available = q /\ seeded'[r] = q
        BY <1>1, <3>1 DEF Supplies
      <4>2. Total(reservations', Lent(r)') = 0
        BY <1>1, <1>3, <1>5, <3>1
      <4> QED
        BY <4>1, <4>2, <1>2
    <3>2. CASE r # p
      <4>1. stock'[r] = stock[r] /\ seeded'[r] = seeded[r]
        BY <1>1, <3>2 DEF Supplies
      <4>2. Total(reservations', Lent(r)') = Total(reservations, Lent(r))
        BY <1>1, <1>3
      <4> QED
        BY <4>1, <4>2, <2>2 DEF Supplies
    <3> QED
      BY <3>1, <3>2
  <2> QED
    BY <2>1, <2>2 DEF Supplies
<1>8. Shares'
  BY <1>1, <1>3 DEF Shares
<1> QED
  BY <1>6, <1>7, <1>8

LEMMA AccountsAuthorize ==
  ASSUME Accounts, NEW u \in Tasks, NEW p \in Products, NEW q \in Quotas, Authorize(u, p, q)
  PROVE  Accounts'
<1> USE DEF Accounts
<1>1. /\ grants[<<u, p>>] = 0 /\ grants' = [grants EXCEPT ![<<u, p>>] = q]
      /\ UNCHANGED <<stock, seeded, reservations, receipts>>
  BY DEF Authorize
<1>2. q \in Nat
  BY OperationsAssumption
<1>3. \A t, r : Active(t, r)' = Active(t, r) /\ Lent(r)' = Lent(r)
  BY <1>1 DEF Active, Lent
<1>4. Reservations' /\ Supplies'
  BY <1>1, <1>3 DEF Reservations, Supplies
<1>5. DOMAIN grants' = Tasks \X Products
  BY <1>1 DEF Shares
<1>6. ASSUME NEW t \in Tasks, NEW r \in Products
      PROVE  /\ grants'[<<t, r>>] \in Nat
             /\ Total(reservations', Active(t, r)') <= grants'[<<t, r>>]
  <2>1. Total(reservations', Active(t, r)') = Total(reservations, Active(t, r))
    BY <1>1, <1>3
  <2>2. Total(reservations, Active(t, r)) \in Nat
    BY Countable, TotalNat
  <2>3. grants[<<t, r>>] \in Nat /\ Total(reservations, Active(t, r)) <= grants[<<t, r>>]
    BY DEF Shares
  <2>4. CASE <<t, r>> = <<u, p>>
    <3>1. grants'[<<t, r>>] = q /\ grants[<<t, r>>] = 0
      BY <1>1, <2>4 DEF Shares
    <3> QED
      BY <3>1, <2>1, <2>2, <2>3, <1>2
  <2>5. CASE <<t, r>> # <<u, p>>
    <3>1. grants'[<<t, r>>] = grants[<<t, r>>]
      BY <1>1, <2>5 DEF Shares
    <3> QED
      BY <3>1, <2>1, <2>3
  <2> QED
    BY <2>4, <2>5
<1> QED
  BY <1>4, <1>5, <1>6 DEF Shares

(* A reservation that is applied is one more, of a task with room for it. *)
LEMMA AccountsReserve ==
  ASSUME IInv, Versions, Accounts, NEW op \in Operations, op.id \in Ids,
         receipts[op.id] = None, Effect(op), Code(op) = "applied", op.kind = "reserve"
  PROVE  Accounts'
<1> USE DEF Accounts
<1> DEFINE i == op.id
           p == op.product
           t == op.task
           row == [task |-> t, product |-> p, quantity |-> op.quantity, active |-> TRUE]
<1>1. /\ i \in Ids /\ p \in Products /\ t \in Tasks /\ op.quantity \in Nat
  BY OperationsAssumption DEF Tasks
<1>2. /\ stock' = [stock EXCEPT ![p] = StockAfter(op)]
      /\ reservations' = [reservations EXCEPT ![i] = row]
      /\ UNCHANGED <<seeded, grants>>
  BY DEF Effect, ReservationsAfter
<1>3. /\ DOMAIN receipts' = Ids /\ \A j \in Ids : receipts[j] # None => receipts'[j] # None
      /\ receipts'[i] # None
  <2>1. PICK x : receipts' = [receipts EXCEPT ![i] = Receipt(op, Code(op), x)]
    BY DEF Effect
  <2>2. Receipt(op, Code(op), x) # None
    BY RowsExist DEF Receipt
  <2> QED
    BY <2>1, <2>2 DEF IInv, Receipts
<1>4. reservations[i] = None
  BY DEF Reservations
<1>5. /\ stock[p] # None /\ stock[p].version = op.version /\ grants[<<t, p>>] # 0
      /\ ~ (Reserved(Active(t, p)) + op.quantity > grants[<<t, p>>])
      /\ ~ (stock[p].available < op.quantity)
  BY DEF Code, ReserveCode
<1>6. /\ stock'[p] # None /\ stock'[p].available = stock[p].available - op.quantity
      /\ \A r \in Products \ {p} : stock'[r] = stock[r]
      /\ DOMAIN stock' = Products
  BY <1>1, <1>2 DEF StockAfter, None, Supplies
<1>7. row # None /\ row.quantity = op.quantity /\ row.active /\ row.task = t /\ row.product = p
      /\ DOMAIN row = {"task", "product", "quantity", "active"}
  BY DEF None
<1> HIDE DEF row
<1>8. /\ DOMAIN reservations' = Ids /\ reservations'[i] = row
      /\ \A j \in Ids : j # i => reservations'[j] = reservations[j]
  BY <1>1, <1>2 DEF Reservations
<1>9. /\ \A u, r : Active(u, r)' = IF u = t /\ r = p THEN Active(u, r) \cup {i} ELSE Active(u, r)
      /\ \A r : Lent(r)' = IF r = p THEN Lent(r) \cup {i} ELSE Lent(r)
      /\ \A u, r : i \notin Active(u, r) /\ i \notin Lent(r)
  BY <1>1, <1>4, <1>7, <1>8 DEF Active, Lent
<1>10. /\ \A r : \A j \in Lent(r) : j \in Ids /\ j # i /\ reservations'[j] = reservations[j]
       /\ \A u, r : \A j \in Active(u, r) : j \in Ids /\ j # i /\ reservations'[j] = reservations[j]
  BY <1>8, <1>9 DEF Active, Lent
<1>11. Reservations'
  <2>1. DOMAIN reservations' = Ids
    BY <1>8
  <2>2. ASSUME NEW j \in Ids, reservations'[j] # None
        PROVE  /\ DOMAIN reservations'[j] = {"task", "product", "quantity", "active"}
               /\ reservations'[j].task \in Tasks /\ reservations'[j].product \in Products
               /\ reservations'[j].quantity \in Nat /\ reservations'[j].active \in BOOLEAN
               /\ receipts'[j] # None
               /\ stock'[reservations'[j].product] # None
    <3>1. CASE j = i
      BY <1>1, <1>3, <1>6, <1>7, <1>8, <3>1
    <3>2. CASE j # i
      BY <1>3, <1>6, <1>8, <2>2, <3>2 DEF Reservations
    <3> QED
      BY <3>1, <3>2
  <2> QED
    BY <2>1, <2>2 DEF Reservations
<1>12. ASSUME NEW r \in Products, stock'[r] # None
       PROVE  /\ stock'[r].available \in Nat
              /\ stock'[r].available + Total(reservations', Lent(r)') = seeded'[r]
  <2>1. Total(reservations, Lent(r)) \in Nat
    BY Countable, TotalNat
  <2>2. CASE r = p
    <3>1. Total(reservations', Lent(r)') = Total(reservations, Lent(r)' \ {i}) + reservations'[i].quantity
      <4>1. /\ IsFiniteSet(Lent(r)') /\ i \in Lent(r)'
            /\ \A j \in Lent(r)' : reservations'[j].quantity \in Nat
        BY <1>1, <1>7, <1>8, <1>9, <1>10, <2>2, Countable, FS_AddElement
      <4>2. \A j \in Lent(r)' \ {i} : reservations'[j].quantity = reservations[j].quantity
        BY <1>9, <1>10, <2>2
      <4> QED
        BY <4>1, <4>2, TotalLess
    <3>2. Total(reservations', Lent(r)') = Total(reservations, Lent(r)) + op.quantity
      <4>1. Lent(r)' \ {i} = Lent(r)
        BY <1>9, <2>2
      <4> QED
        BY <1>7, <1>8, <3>1, <4>1
    <3>3. /\ stock[r].available \in Nat
          /\ stock[r].available + Total(reservations, Lent(r)) = seeded[r]
      BY <1>5, <2>2 DEF Supplies
    <3>4. stock'[r].available = stock[r].available - op.quantity /\ ~ (stock[r].available < op.quantity)
      BY <1>5, <1>6, <2>2
    <3> QED
      BY <1>1, <1>2, <2>1, <3>2, <3>3, <3>4
  <2>3. CASE r # p
    <3>1. Lent(r)' = Lent(r) /\ stock'[r] = stock[r] /\ seeded'[r] = seeded[r]
      BY <1>2, <1>6, <1>9, <2>3
    <3>2. Total(reservations', Lent(r)) = Total(reservations, Lent(r))
      BY <1>10, Countable, TotalSame
    <3> QED
      BY <1>12, <3>1, <3>2 DEF Supplies
  <2> QED
    BY <2>2, <2>3
<1>13. ASSUME NEW u \in Tasks, NEW r \in Products
       PROVE  /\ grants'[<<u, r>>] \in Nat
              /\ Total(reservations', Active(u, r)') <= grants'[<<u, r>>]
  <2>1. /\ grants[<<u, r>>] \in Nat /\ grants'[<<u, r>>] = grants[<<u, r>>]
        /\ Total(reservations, Active(u, r)) <= grants[<<u, r>>]
    BY <1>2 DEF Shares
  <2>2. CASE u = t /\ r = p
    <3>1. Total(reservations', Active(u, r)') = Total(reservations, Active(u, r)' \ {i}) + reservations'[i].quantity
      <4>1. /\ IsFiniteSet(Active(u, r)') /\ i \in Active(u, r)'
            /\ \A j \in Active(u, r)' : reservations'[j].quantity \in Nat
        BY <1>1, <1>7, <1>8, <1>9, <1>10, <2>2, Countable, FS_AddElement
      <4>2. \A j \in Active(u, r)' \ {i} : reservations'[j].quantity = reservations[j].quantity
        BY <1>9, <1>10, <2>2
      <4> QED
        BY <4>1, <4>2, TotalLess
    <3>2. Total(reservations', Active(u, r)') = Total(reservations, Active(u, r)) + op.quantity
      <4>1. Active(u, r)' \ {i} = Active(u, r)
        BY <1>9, <2>2
      <4> QED
        BY <1>7, <1>8, <3>1, <4>1
    <3>3. ~ (Total(reservations, Active(u, r)) + op.quantity > grants[<<u, r>>])
      BY <1>5, <2>2, ReservedIsTotal
    <3>4. Total(reservations, Active(u, r)) \in Nat
      BY Countable, TotalNat
    <3> QED
      BY <1>1, <2>1, <3>2, <3>3, <3>4
  <2>3. CASE ~ (u = t /\ r = p)
    <3>1. Active(u, r)' = Active(u, r)
      BY <1>9, <2>3
    <3>2. Total(reservations', Active(u, r)) = Total(reservations, Active(u, r))
      BY <1>10, Countable, TotalSame
    <3> QED
      BY <2>1, <3>1, <3>2
  <2> QED
    BY <2>2, <2>3
<1>14. Supplies'
  BY <1>2, <1>6, <1>12 DEF Supplies
<1>15. Shares'
  BY <1>2, <1>13 DEF Shares
<1> QED
  BY <1>11, <1>14, <1>15

(* A release that is applied is one less, of the same task, product and
   quantity. *)
LEMMA AccountsRelease ==
  ASSUME IInv, Versions, Accounts, NEW op \in Operations, op.id \in Ids,
         receipts[op.id] = None, Effect(op), Code(op) = "applied", op.kind = "release"
  PROVE  Accounts'
<1> USE DEF Accounts
<1> DEFINE i == op.reservation
           p == op.product
           t == op.task
           row == [reservations[i] EXCEPT !.active = FALSE]
<1>1. /\ p \in Products /\ t \in Tasks /\ op.quantity \in Nat
  BY OperationsAssumption DEF Tasks
<1>2. /\ stock' = [stock EXCEPT ![p] = StockAfter(op)]
      /\ reservations' = [reservations EXCEPT ![i] = row]
      /\ UNCHANGED <<seeded, grants>>
  BY DEF Effect, ReservationsAfter
<1>3. /\ \A j \in Ids : receipts[j] # None => receipts'[j] # None
  <2>1. PICK x : receipts' = [receipts EXCEPT ![op.id] = Receipt(op, Code(op), x)]
    BY DEF Effect
  <2>2. Receipt(op, Code(op), x) # None
    BY RowsExist DEF Receipt
  <2> QED
    BY <2>1, <2>2 DEF IInv, Receipts
<1>4. stock[p] # None /\ ReleaseCode(op) = "applied"
  BY DEF Code
<1>5. /\ i \in Ids /\ reservations[i] # None /\ reservations[i].active
      /\ reservations[i].task = t /\ reservations[i].product = p
      /\ reservations[i].quantity = op.quantity
  BY <1>4 DEF ReleaseCode
<1>6. /\ stock'[p] # None /\ stock'[p].available = stock[p].available + op.quantity
      /\ \A r \in Products \ {p} : stock'[r] = stock[r]
      /\ DOMAIN stock' = Products
  BY <1>1, <1>2 DEF StockAfter, None, Supplies
<1>7. /\ row.quantity = op.quantity /\ row.active = FALSE /\ row.task = t /\ row.product = p
      /\ DOMAIN row = {"task", "product", "quantity", "active"}
  BY <1>5 DEF Reservations
<1>16. row # None
  BY <1>7 DEF None
<1> HIDE DEF row
<1>8. /\ DOMAIN reservations' = Ids /\ reservations'[i] = row
      /\ \A j \in Ids : j # i => reservations'[j] = reservations[j]
  BY <1>2, <1>5 DEF Reservations
<1>9. /\ \A u, r : Active(u, r)' = IF u = t /\ r = p THEN Active(u, r) \ {i} ELSE Active(u, r)
      /\ \A r : Lent(r)' = IF r = p THEN Lent(r) \ {i} ELSE Lent(r)
      /\ i \in Active(t, p) /\ i \in Lent(p)
  BY <1>5, <1>7, <1>8 DEF Active, Lent
<1>10. /\ \A r : \A j \in Lent(r) : (r # p \/ j # i) => reservations'[j] = reservations[j]
       /\ \A u, r : \A j \in Active(u, r) :
            (~ (u = t /\ r = p) \/ j # i) => reservations'[j] = reservations[j]
  BY <1>5, <1>8 DEF Active, Lent
<1>11. Reservations'
  <2>1. DOMAIN reservations' = Ids
    BY <1>8
  <2>2. ASSUME NEW j \in Ids, reservations'[j] # None
        PROVE  /\ DOMAIN reservations'[j] = {"task", "product", "quantity", "active"}
               /\ reservations'[j].task \in Tasks /\ reservations'[j].product \in Products
               /\ reservations'[j].quantity \in Nat /\ reservations'[j].active \in BOOLEAN
               /\ receipts'[j] # None
               /\ stock'[reservations'[j].product] # None
    <3>1. CASE j = i
      <4>1. receipts[i] # None
        BY <1>5 DEF Reservations
      <4> QED
        BY <1>1, <1>3, <1>5, <1>6, <1>7, <1>8, <3>1, <4>1
    <3>2. CASE j # i
      BY <1>3, <1>6, <1>8, <2>2, <3>2 DEF Reservations
    <3> QED
      BY <3>1, <3>2
  <2> QED
    BY <2>1, <2>2 DEF Reservations
<1>12. ASSUME NEW r \in Products, stock'[r] # None
       PROVE  /\ stock'[r].available \in Nat
              /\ stock'[r].available + Total(reservations', Lent(r)') = seeded'[r]
  <2>2. CASE r = p
    <3>1. Total(reservations, Lent(p)) = Total(reservations', Lent(p) \ {i}) + reservations[i].quantity
      <4>1. /\ IsFiniteSet(Lent(p)) /\ i \in Lent(p)
            /\ \A j \in Lent(p) : reservations[j].quantity \in Nat
            /\ \A j \in Lent(p) \ {i} : reservations'[j].quantity = reservations[j].quantity
        BY <1>9, <1>10, Countable
      <4> QED
        BY <4>1, TotalLess
    <3>2. Total(reservations, Lent(r)) = Total(reservations', Lent(r)') + op.quantity
      BY <1>5, <1>9, <2>2, <3>1
    <3>3. /\ stock[r].available \in Nat
          /\ stock[r].available + Total(reservations, Lent(r)) = seeded[r]
      BY <1>4, <2>2 DEF Supplies
    <3>4. stock'[r].available = stock[r].available + op.quantity
      BY <1>6, <2>2
    <3>5. Total(reservations', Lent(r)') \in Nat
      <4>1. Reservations' => Lent(r)' \subseteq Lent(r)
        BY <1>9
      <4>2. IsFiniteSet(Lent(r)')
        BY <1>9, Countable, FS_Subset
      <4>3. \A j \in Lent(r)' : reservations'[j].quantity \in Nat
        BY <1>11 DEF Lent, Reservations
      <4> QED
        BY <4>2, <4>3, TotalNat
    <3> QED
      BY <1>1, <1>2, <3>2, <3>3, <3>4, <3>5
  <2>3. CASE r # p
    <3>1. Lent(r)' = Lent(r) /\ stock'[r] = stock[r] /\ seeded'[r] = seeded[r]
      BY <1>2, <1>6, <1>9, <2>3
    <3>2. Total(reservations', Lent(r)) = Total(reservations, Lent(r))
      BY <1>10, <2>3, Countable, TotalSame
    <3> QED
      BY <1>12, <3>1, <3>2 DEF Supplies
  <2> QED
    BY <2>2, <2>3
<1>13. ASSUME NEW u \in Tasks, NEW r \in Products
       PROVE  /\ grants'[<<u, r>>] \in Nat
              /\ Total(reservations', Active(u, r)') <= grants'[<<u, r>>]
  <2>1. /\ grants[<<u, r>>] \in Nat /\ grants'[<<u, r>>] = grants[<<u, r>>]
        /\ Total(reservations, Active(u, r)) <= grants[<<u, r>>]
    BY <1>2 DEF Shares
  <2>2. CASE u = t /\ r = p
    <3>1. Total(reservations, Active(t, p))
            = Total(reservations', Active(t, p) \ {i}) + reservations[i].quantity
      <4>1. /\ IsFiniteSet(Active(t, p)) /\ i \in Active(t, p)
            /\ \A j \in Active(t, p) : reservations[j].quantity \in Nat
            /\ \A j \in Active(t, p) \ {i} : reservations'[j].quantity = reservations[j].quantity
        BY <1>9, <1>10, Countable
      <4> QED
        BY <4>1, TotalLess
    <3>2. Total(reservations, Active(u, r)) = Total(reservations', Active(u, r)') + op.quantity
      BY <1>5, <1>9, <2>2, <3>1
    <3>3. Total(reservations', Active(u, r)') \in Nat
      <4>1. IsFiniteSet(Active(u, r)')
        BY <1>9, <2>2, Countable, FS_Subset
      <4>2. \A j \in Active(u, r)' : reservations'[j].quantity \in Nat
        BY <1>11 DEF Active, Reservations
      <4> QED
        BY <4>1, <4>2, TotalNat
    <3> QED
      BY <1>1, <2>1, <3>2, <3>3
  <2>3. CASE ~ (u = t /\ r = p)
    <3>1. Active(u, r)' = Active(u, r)
      BY <1>9, <2>3
    <3>2. Total(reservations', Active(u, r)) = Total(reservations, Active(u, r))
      BY <1>10, <2>3, Countable, TotalSame
    <3> QED
      BY <2>1, <3>1, <3>2
  <2> QED
    BY <2>2, <2>3
<1>14. Supplies'
  BY <1>2, <1>6, <1>12 DEF Supplies
<1>15. Shares'
  BY <1>2, <1>13 DEF Shares
<1> QED
  BY <1>11, <1>14, <1>15

(* An operation that is not applied leaves a receipt and nothing else. *)
LEMMA AccountsRefused ==
  ASSUME IInv, Versions, Accounts, NEW op \in Operations, op.id \in Ids,
         Effect(op), Code(op) # "applied"
  PROVE  Accounts'
<1>1. /\ UNCHANGED <<reservations, seeded, grants>>
      /\ DOMAIN stock' = Products /\ \A p \in Products : stock'[p] = stock[p]
  <2>1. op.product \in Products /\ DOMAIN stock = Products
    BY OperationsAssumption DEF Accounts, Supplies
  <2>2. /\ stock' = [stock EXCEPT ![op.product] = stock[op.product]]
        /\ UNCHANGED <<reservations, seeded, grants>>
    BY DEF Effect
  <2> QED
    BY <2>1, <2>2
<1>2. \A j \in Ids : receipts[j] # None => receipts'[j] # None
  <2>1. PICK x : receipts' = [receipts EXCEPT ![op.id] = Receipt(op, Code(op), x)]
    BY DEF Effect
  <2>2. Receipt(op, Code(op), x) # None
    BY RowsExist DEF Receipt
  <2> QED
    BY <2>1, <2>2 DEF IInv, Receipts
<1>3. \A t, r : Active(t, r)' = Active(t, r) /\ Lent(r)' = Lent(r)
  BY <1>1 DEF Active, Lent
<1>4. Reservations'
  BY <1>1, <1>2 DEF Accounts, Reservations
<1>5. Supplies' /\ Shares'
  BY <1>1, <1>3 DEF Accounts, Supplies, Shares
<1> QED
  BY <1>4, <1>5 DEF Accounts

LEMMA AccountsStep == IInv /\ Versions /\ Accounts /\ [Next]_vars => Accounts'
<1> SUFFICES ASSUME IInv, Versions, Accounts, [Next]_vars PROVE Accounts'
  OBVIOUS
<1>1. CASE UNCHANGED toolVars
  <2>1. UNCHANGED <<stock, seeded, grants, reservations, receipts>>
    BY <1>1 DEF toolVars
  <2>2. \A t, r : Active(t, r)' = Active(t, r) /\ Lent(r)' = Lent(r)
    BY <2>1 DEF Active, Lent
  <2>3. Reservations'
    BY <2>1 DEF Accounts, Reservations
  <2>4. Supplies' /\ Shares'
    BY <2>1, <2>2 DEF Accounts, Supplies, Shares
  <2> QED
    BY <2>3, <2>4 DEF Accounts
<1>2. ASSUME NEW w \in Workers, pc[w] = "applying", receipts[held[w].id] = None, Effect(held[w])
      PROVE  Accounts'
  <2> DEFINE op == held[w]
  <2>1. op \in Operations /\ op.id \in Ids /\ op.kind \in {"reserve", "release"}
    BY <1>2, Holding, OperationsAssumption
  <2> HIDE DEF op
  <2>2. receipts[op.id] = None /\ Effect(op)
    BY <1>2 DEF op
  <2> QED
    BY <2>1, <2>2, AccountsReserve, AccountsRelease, AccountsRefused
<1> QED
  BY <1>1, <1>2, ToolMoves, AccountsSeed, AccountsAuthorize

-----------------------------------------------------------------------------
THEOREM Invariance == Spec => [](IInv /\ Versions /\ Accounts)
<1>1. Init => IInv /\ Versions /\ Accounts
  BY InitInvariant, VersionsInit, AccountsInit
<1>2. IInv /\ Versions /\ Accounts /\ [Next]_vars => IInv' /\ Versions' /\ Accounts'
  BY JournalStep, ReceiptsStep, ExecutorsStep, VersionsStep, AccountsStep DEF IInv
<1> QED
  BY <1>1, <1>2, PTL DEF Spec

(* What the journal recorded is what the tool did
   (record_receipt, complete). *)
THEOREM JournalAgrees == Spec => []JournalAgreesWithTool
<1>1. IInv => JournalAgreesWithTool
  BY DEF IInv, Journal, JournalAgreesWithTool
<1> QED
  BY <1>1, Invariance, PTL

(* Every operation takes effect at most once, and the versions that the applied
   operations saw are those the product went through (ToolStore.apply). *)
THEOREM EffectIsUnique == Spec => []OneEffectPerOperation
<1>1. Versions => OneEffectPerOperation
  BY DEF Versions, Applied, Seen, OneEffectPerOperation
<1> QED
  BY <1>1, Invariance, PTL

(* Units are neither lost nor created nor lent twice: what is available and what
   is reserved add up to what the host seeded (ToolStore.apply). *)
THEOREM StockConserved == Spec => []StockIsConserved
<1>1. Accounts => StockIsConserved
  <2> SUFFICES ASSUME Accounts, NEW p \in Products, stock[p] # None
               PROVE  /\ stock[p].available >= 0
                      /\ stock[p].available + Reserved(UNION {Active(t, p) : t \in Tasks}) = seeded[p]
    BY DEF StockIsConserved
  <2>1. UNION {Active(t, p) : t \in Tasks} = Lent(p)
    BY DEF Accounts, Reservations, Active, Lent
  <2>2. Reserved(UNION {Active(t, p) : t \in Tasks}) = Total(reservations, Lent(p))
    BY <2>1, ReservedIsTotal
  <2>3. stock[p].available \in Nat /\ stock[p].available + Total(reservations, Lent(p)) = seeded[p]
    BY DEF Accounts, Supplies
  <2> QED
    BY <2>2, <2>3
<1> QED
  BY <1>1, Invariance, PTL

(* The active reservations of a task never exceed its grant
   (ToolStore.authorize, apply). *)
THEOREM GrantsRespected == Spec => []GrantsAreRespected
<1>1. Accounts => GrantsAreRespected
  BY ReservedIsTotal DEF Accounts, Shares, GrantsAreRespected
<1> QED
  BY <1>1, Invariance, PTL

(* Nothing takes effect but the one operation that its task has pending
   (reconcile_before_new_proposal). *)
THEOREM EffectFollowsIntent == Spec => EffectsFollowIntents
<1>1. IInv /\ [Next]_vars =>
        \A i \in Ids : receipts[i] = None /\ receipts'[i] # None =>
          PendingOf(receipts'[i].op.task) = {i}
  <2> SUFFICES ASSUME IInv, [Next]_vars, NEW i \in Ids, receipts[i] = None, receipts'[i] # None
               PROVE  PendingOf(receipts'[i].op.task) = {i}
    OBVIOUS
  <2>1. PICK w \in Workers : /\ pc[w] = "applying" /\ receipts[held[w].id] = None
                             /\ Effect(held[w])
    BY ReceiptsGrow DEF Seed
  <2> DEFINE op == held[w]
  <2>2. PICK code, after : receipts' = [receipts EXCEPT ![op.id] = Receipt(op, code, after)]
    BY <2>1 DEF Effect
  <2>3. i = op.id /\ receipts'[i].op = op
    BY <2>2 DEF Receipt, IInv, Receipts
  <2>4. op \in Operations /\ intents[i] # None /\ intents[i].op = op
    BY <2>1, <2>3, Holding
  <2>5. intents[i].state = "pending"
    BY <2>1, <2>3, <2>4 DEF IInv, Journal
  <2>6. op.task \in Tasks
    BY <2>4 DEF Tasks
  <2> QED
    BY <2>3, <2>4, <2>5, <2>6 DEF IInv, Journal, PendingOf
<1> QED
  BY <1>1, Invariance, PTL DEF Spec, EffectsFollowIntents
=============================================================================
