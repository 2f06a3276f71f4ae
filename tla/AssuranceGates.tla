--------------------------- MODULE AssuranceGates ---------------------------
(***************************************************************************)
(* The gate suite of a contract (assurance/gates.py), the semantic         *)
(* assertions gate in detail (assurance/semantic_assertions.py) and the    *)
(* candidate computed from its equalities (controller/semantic_repair.py). *)
(*                                                                         *)
(* An assertion of the contract is the record                              *)
(*   [id, target, reads, group, expected, holds]                           *)
(* target is the one result pointer it references directly, or NoTarget;   *)
(* reads are all the result pointers in it; group is its repair_group or   *)
(* NoGroup; expected is the value of the other side when the operator is   *)
(* equality and that side does not read the result, NotCalculable when it  *)
(* does, Unevaluable when evaluating it raises; holds is the set of        *)
(* proposals that satisfy an assertion that is not calculable.             *)
(***************************************************************************)
EXTENDS RepairPolicy

CONSTANTS
  Proposals,   \* the proposals a runtime may return
  Assertions,  \* sequence: semantic_assertions, in contract order
  Suite,       \* sequence of the names of the configured gates
  PlainGates,  \* the names among them other than SemanticGate
  Accepts,     \* plain gate -> the set of proposals it passes
  Oracles      \* the plain gates with repair_feedback_mode "oracle_only"

NoTarget      == <<>>
NoGroup       == "no group"
NotCalculable == "not calculable"
Unevaluable   == "unevaluable"
Missing       == "missing"      \* what a proposal has at an absent pointer

SemanticGate == "semantic_assertions"

ASSUME SuiteAssumption ==
  /\ Suite \in Seq(PlainGates \cup {SemanticGate})
  /\ Suite # <<>>
  /\ SemanticGate \notin PlainGates
  /\ Oracles \subseteq PlainGates

Holds(a, proposal) ==
  IF a.expected = NotCalculable
  THEN proposal \in a.holds
  ELSE a.expected # Unevaluable /\ proposal[a.target] = a.expected

FailedAssertions(proposal) ==
  SelectSeq(Assertions, LAMBDA a : ~ Holds(a, proposal))

(* _semantic_repair_scope: the first failed rule, its atomic group, and every
   rule that reads a pointer this unit may edit. *)
SemanticScope(proposal) ==
  LET failed    == FailedAssertions(proposal)
      all       == {Assertions[i] : i \in DOMAIN Assertions}
      first     == Head(failed)
      unit      == {a \in all : \/ a.id = first.id
                                \/ first.group # NoGroup /\ a.group = first.group}
      targets   == {a.target : a \in unit}
      selected  == {a \in all : \/ a \in unit
                                \/ \E p \in a.reads : OverlapsAny(p, targets)}
      failedIds == {failed[i].id : i \in DOMAIN failed}
      ids       == {a.id : a \in selected}
  IN IF \/ NoTarget \in targets
        \/ \E p \in targets : proposal[p] = Missing
        \/ HasOverlap(targets)
     THEN NoScope
     ELSE [failed   |-> failedIds \cap ids,
           rules    |-> ids,
           editable |-> targets,
           groups   |-> IF first.group = NoGroup THEN {}
                        ELSE {[id |-> first.group, paths |-> targets]}]

SemanticResult(proposal, policy) ==
  LET failed == FailedAssertions(proposal)
  IN [gate       |-> SemanticGate,
      mode       |-> VisibleScope,
      passed     |-> failed = <<>>,
      code       |-> IF failed = <<>> THEN "none" ELSE "semantic.failed",
      violations |-> {failed[i].id : i \in DOMAIN failed},
      scope      |-> IF failed = <<>> \/ ~ policy THEN NoScope
                     ELSE SemanticScope(proposal)]

PlainResult(gate, proposal) ==
  LET ok == proposal \in Accepts[gate]
  IN [gate       |-> gate,
      mode       |-> IF gate \in Oracles THEN OracleOnly ELSE "none",
      passed     |-> ok,
      code       |-> IF ok THEN "none" ELSE "gate.failed",
      violations |-> {},
      scope      |-> NoScope]

(* tuple(gate.evaluate(contract, proposal) for gate in self.gates) *)
Evaluate(proposal, policy) ==
  [i \in DOMAIN Suite |->
     IF Suite[i] = SemanticGate THEN SemanticResult(proposal, policy)
     ELSE PlainResult(Suite[i], proposal)]

(* The same verdicts as a table: gates are deterministic. *)
VerdictTable == [b \in BOOLEAN |-> [p \in Proposals |-> Evaluate(p, b)]]

AllPass(results) == \A i \in DOMAIN results : results[i].passed

-----------------------------------------------------------------------------
(* The deterministic candidate.  _collect_replacements looks only at the   *)
(* calculable assertions whose target the scope (everything, in legacy     *)
(* mode) lets it edit.                                                     *)

NoCandidate == <<>>

Calculable(editable, scoped) ==
  {a \in {Assertions[i] : i \in DOMAIN Assertions} :
     /\ a.expected # NotCalculable
     /\ scoped => CoveredBy(a.target, editable)}

Replaced(proposal, calculable) ==
  {a \in calculable :
     a.expected # Unevaluable /\ proposal[a.target] # a.expected}

DeterministicCandidate(proposal, calculable) ==
  LET replaced == Replaced(proposal, calculable)
      pointers == {a.target : a \in replaced}
      New(p)   == (CHOOSE a \in replaced : a.target = p).expected
  IN IF \/ \E a \in calculable :
             a.expected = Unevaluable \/ proposal[a.target] = Missing
        \/ \E a, b \in replaced : a.target = b.target /\ a.expected # b.expected
        \/ replaced = {}
        \/ HasOverlap(pointers)
     THEN NoCandidate
     ELSE [p \in DOMAIN proposal |-> IF p \in pointers THEN New(p) ELSE proposal[p]]

(* Proposals have the same nodes, named by sequences of tokens; a deterministic
   candidate is a proposal like any other. *)
ASSUME ProposalsAssumption ==
  /\ NoCandidate \notin Proposals
  /\ \A p, q \in Proposals : DOMAIN p = DOMAIN q
  /\ \A p \in Proposals : DOMAIN p \subseteq Seq(STRING)
  /\ \A p \in Proposals :
       \A calculable \in SUBSET Calculable({}, FALSE) :
         DeterministicCandidate(p, calculable) \in Proposals \cup {NoCandidate}
=============================================================================
