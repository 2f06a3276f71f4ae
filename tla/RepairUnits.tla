----------------------------- MODULE RepairUnits -----------------------------
(***************************************************************************)
(* derive_repair_scope against a reference definition: gate verdicts        *)
(* arrive one by one, as in DohaaController.run, and after each the derived *)
(* unit is compared with the least set of failing scopes that contains the  *)
(* first one and is closed under overlap and shared atomic groups.          *)
(***************************************************************************)
EXTENDS RepairPolicy

CONSTANTS
  Pool,       \* the gate results that may arrive
  MaxGates    \* how many

ASSUME MaxGatesAssumption == MaxGates \in Nat

VARIABLE verdicts

Init == verdicts = <<>>

Evaluated(r) ==
  /\ Len(verdicts) < MaxGates
  /\ verdicts' = Append(verdicts, r)

Next == \E r \in Pool : Evaluated(r)

Spec == Init /\ [][Next]_verdicts

-----------------------------------------------------------------------------
Unit == DeriveRepairScope(verdicts)

Failing == RepairableFailures(verdicts)

ScopeOf(i) == verdicts[i].scope

Closed(S) ==
  \A i \in S, j \in Failing : Entangled(ScopeOf(i), ScopeOf(j)) => j \in S

LeastClosed ==
  {i \in Failing : \A S \in SUBSET Failing : Min(Failing) \in S /\ Closed(S) => i \in S}

(* A repair unit is never split and never grows by accident: it is the merge
   of the first failing gate's scope with exactly the scopes that are linked
   to it, through any number of intermediate ones, by an overlapping pointer
   or an atomic group (derive_repair_scope). *)
UnitIsLeastClosed ==
  Unit # NoScope =>
    Unit = MergeScopes({ScopeOf(i) : i \in LeastClosed})

(* What the unit leaves for later is untouched by it: no failing scope outside
   the unit has a pointer above, at or below one the unit may edit, or an
   atomic group of the unit (derive_repair_scope). *)
LaterUnitsAreIndependent ==
  Unit # NoScope =>
    \A i \in Failing :
      ScopeOf(i).failed \cap Unit.failed = {} =>
        /\ \A p \in ScopeOf(i).editable : ~ OverlapsAny(p, Unit.editable)
        /\ GroupIds(ScopeOf(i)) \cap GroupIds(Unit) = {}

=============================================================================
