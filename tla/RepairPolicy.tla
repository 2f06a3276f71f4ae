---------------------------- MODULE RepairPolicy ----------------------------
(***************************************************************************)
(* Scopes and monotonic selection for rule-aware repair                    *)
(* (controller/repair_policy.py).  Everything here is a pure operator: the *)
(* controller (DohaaController) calls them between two verdicts.           *)
(*                                                                         *)
(* A JSON Pointer is the sequence of its tokens.  A proposal is a function *)
(* from the pointers of its nodes to what is found there: a value at a     *)
(* leaf, the shape (object, array, missing) at an inner node, so a node    *)
(* whose shape changed hides the changes below it, as in _changed_paths.   *)
(***************************************************************************)
EXTENDS Integers, Sequences, FiniteSets, SequencesExt

NoScope == [absent |-> "no authorized scope"]

-----------------------------------------------------------------------------
(* Pointers *)

Within(path, root) == IsPrefix(root, path)

PathsOverlap(p, q) == Within(p, q) \/ Within(q, p)

CoveredBy(path, allowed) == \E root \in allowed : Within(path, root)

OverlapsAny(path, candidates) == \E c \in candidates : PathsOverlap(path, c)

HasOverlap(paths) == \E p, q \in paths : p # q /\ PathsOverlap(p, q)

(* The pointers reported as changed: the topmost nodes that differ. *)
ChangedPaths(before, after) ==
  {p \in DOMAIN before :
     /\ before[p] # after[p]
     /\ \A q \in DOMAIN before : IsStrictPrefix(q, p) => before[q] = after[q]}

-----------------------------------------------------------------------------
(* Scopes.  A scope is the record                                          *)
(*   [failed, rules: sets of rule ids, editable: set of pointers,          *)
(*    groups: set of [id, paths]]                                          *)
(* the source pointers are advice to the runtime and are left out.         *)

ValidScope(s) ==
  /\ s.failed # {}
  /\ s.failed \subseteq s.rules
  /\ s.editable # {}
  /\ s.editable \subseteq Seq(STRING)
  /\ ~ HasOverlap(s.editable)
  /\ \A g \in s.groups : g.paths # {} /\ g.paths \subseteq s.editable
  /\ \A g, h \in s.groups :
       g # h => g.id # h.id /\ g.paths \cap h.paths = {}

MergedGroups(scopes) ==
  LET all == UNION {s.groups : s \in scopes}
      Paths(i) == UNION {g.paths : g \in {h \in all : h.id = i}}
  IN {[id |-> i, paths |-> Paths(i)] : i \in {g.id : g \in all}}

MergeScopes(scopes) ==
  LET merged == [failed   |-> UNION {s.failed : s \in scopes},
                 rules    |-> UNION {s.rules : s \in scopes},
                 editable |-> UNION {s.editable : s \in scopes},
                 groups   |-> MergedGroups(scopes)]
  IN IF ValidScope(merged) THEN merged ELSE NoScope

GroupIds(s) == {g.id : g \in s.groups}

(* Faulty variant: atomic groups are forgotten. *)
OverlapOnly(s, t) == \E p \in s.editable : OverlapsAny(p, t.editable)

Entangled(s, t) ==
  \/ \E p \in s.editable : OverlapsAny(p, t.editable)
  \/ GroupIds(s) \cap GroupIds(t) # {}

(* Faulty variant: one round only, so scopes linked through a third are split. *)
ScopesLinkedDirectly(scopes) ==
  LET first == Min(DOMAIN scopes) IN
  {scopes[i] : i \in {j \in DOMAIN scopes :
                        j = first \/ Entangled(scopes[first], scopes[j])}}

(* One more round of the while loop of derive_repair_scope adds every scope
   entangled with one already selected. *)
NextRound(scopes, selected) ==
  {i \in DOMAIN scopes :
     i \in selected \/ \E j \in selected : Entangled(scopes[i], scopes[j])}

(* The loop, over the scopes of the failing verdicts in their order. *)
SelectedScopes(scopes) ==
  LET Round[n \in 0 .. Cardinality(DOMAIN scopes)] ==
        IF n = 0 THEN {Min(DOMAIN scopes)} ELSE NextRound(scopes, Round[n - 1])
  IN {scopes[i] : i \in Round[Cardinality(DOMAIN scopes)]}

-----------------------------------------------------------------------------
(* Gate results.  A result is the record                                   *)
(*   [gate, mode, passed, code, violations: set of rule ids, scope]        *)
(* mode is the gate's repair_feedback_mode, "none" when it has none.       *)

OracleOnly == "oracle_only"
VisibleScope == "contract_visible_scope"

(* The failing verdicts, by place.  Oracle-only verdicts are not looked at. *)
RepairableFailures(results) ==
  {i \in DOMAIN results : ~ results[i].passed /\ results[i].mode # OracleOnly}

AdvertisesScope(r) ==
  r.mode = VisibleScope /\ r.scope # NoScope /\ ValidScope(r.scope)

DeriveRepairScope(results) ==
  LET failures == RepairableFailures(results)
      scopes   == [i \in failures |-> results[i].scope]
  IN IF \/ failures = {}
        \/ \E i \in failures : ~ AdvertisesScope(results[i])
        \/ \E i, j \in failures :
             i # j /\ scopes[i].failed \cap scopes[j].failed # {}
     THEN NoScope
     ELSE MergeScopes(SelectedScopes(scopes))

(* What one failing result contributes: its violated rules, else the rules
   of its scope, else its failure code. *)
FailureIds(r) ==
  IF r.violations # {} THEN r.violations
  ELSE IF r.scope # NoScope /\ ValidScope(r.scope) THEN r.scope.failed
  ELSE {r.code}

(* Faulty variant: oracle-only verdicts count. *)
AllFailureAtoms(results) ==
  UNION {{<<results[i].gate, id>> : id \in FailureIds(results[i])} :
           i \in {k \in DOMAIN results : ~ results[k].passed}}

FailureAtoms(results) ==
  UNION {{<<results[i].gate, id>> : id \in FailureIds(results[i])} :
           i \in RepairableFailures(results)}

-----------------------------------------------------------------------------
(* The two decisions about a candidate *)

(* Faulty variants: one of the two restrictions is missing. *)
OutsideEditable(baseline, candidate, editable, immutable) ==
  {p \in ChangedPaths(baseline, candidate) : ~ CoveredBy(p, editable)}

InsideImmutable(baseline, candidate, editable, immutable) ==
  {p \in ChangedPaths(baseline, candidate) : OverlapsAny(p, immutable)}

OutsidePaths(baseline, candidate, editable, immutable) ==
  {p \in ChangedPaths(baseline, candidate) :
     ~ CoveredBy(p, editable) \/ OverlapsAny(p, immutable)}

ChangeAllowed(baseline, candidate, editable, immutable) ==
  OutsidePaths(baseline, candidate, editable, immutable) = {}

(* Faulty variants: a failure may be traded for another one; the requested
   rules may stay violated when others are repaired. *)
CompareIgnoringRegressions(before, after, required) ==
  LET targets == {a \in before : a[2] \in required}
  IN IF required # {} /\ (targets = {} \/ targets \cap after # {})
     THEN "repair.target_not_resolved"
     ELSE IF before \ after = {} THEN "repair.no_strict_improvement"
     ELSE "repair.strict_improvement"

CompareIgnoringTargets(before, after, required) ==
  IF after \ before # {} THEN "repair.failure_regression"
  ELSE IF before \ after = {} THEN "repair.no_strict_improvement"
  ELSE "repair.strict_improvement"

(* compare_failure_sets: the candidate is accepted only for the last code. *)
CompareFailures(before, after, required) ==
  LET targets == {a \in before : a[2] \in required}
  IN IF after \ before # {} THEN "repair.failure_regression"
     ELSE IF required # {} /\ (targets = {} \/ targets \cap after # {})
          THEN "repair.target_not_resolved"
     ELSE IF before \ after = {} THEN "repair.no_strict_improvement"
     ELSE "repair.strict_improvement"

StrictImprovement(before, after, required) ==
  CompareFailures(before, after, required) = "repair.strict_improvement"
=============================================================================
