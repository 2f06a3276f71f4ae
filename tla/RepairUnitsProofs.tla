------------------------- MODULE RepairUnitsProofs -------------------------
(***************************************************************************)
(* What a repair unit is, for every sequence of gate verdicts.             *)
(*                                                                         *)
(* The argument.  Every round of the selection loop either adds a place or *)
(* finds nothing left to add, and what has stopped growing stays (so as    *)
(* many rounds as there are scopes suffice, RoundsSelect).  The selection  *)
(* is therefore closed under entanglement, and every closed set that holds *)
(* the first failure contains each of its rounds: it is the least one.  A  *)
(* scope it leaves out is entangled with none of its members, and what the *)
(* merge edits and keeps together is what its members do.                  *)
(***************************************************************************)
EXTENDS RepairUnits, FiniteSetTheorems, WellFoundedInduction, TLAPS

LEMMA LeastNatural ==
  ASSUME NEW S \in SUBSET Nat, S # {}
  PROVE  \E n \in S : \A m \in S : n <= m
<1>. DEFINE T == {1 .. n : n \in S}
<1>1. T \subseteq FiniteSubsetsOf(Nat)
  <2>1. \A n \in S : IsFiniteSet(1 .. n) /\ 1 .. n \subseteq Nat
    BY FS_Interval
  <2>. QED
    BY <2>1 DEF FiniteSubsetsOf
<1>2. PICK x \in T : \A y \in T : ~ (<<y, x>> \in StrictSubsetOrdering(Nat))
  <2>1. T # {}
    OBVIOUS
  <2>. HIDE DEF T
  <2>. QED
    BY <1>1, <2>1, FS_StrictSubsetOrderingWellFounded, WFMin
<1>3. PICK n \in S : x = 1 .. n
  BY <1>2
<1>4. ASSUME NEW m \in S, m < n PROVE FALSE
  <2>1. n \in 1 .. n /\ n \notin 1 .. m /\ 1 .. m \subseteq 1 .. n
    BY <1>4
  <2>2. <<1 .. m, 1 .. n>> \in StrictSubsetOrdering(Nat)
    BY <2>1 DEF StrictSubsetOrdering
  <2>. QED
    BY <1>2, <1>3, <2>2
<1>. QED
  BY <1>4

(* The least of the places. *)
LEMMA LeastIsMin ==
  ASSUME NEW S \in SUBSET Nat, S # {}
  PROVE  Min(S) \in S
BY LeastNatural DEF Min

-----------------------------------------------------------------------------
(* Rounds *)

Rounds(f, scopes, n) ==
  f = [k \in 0 .. n |->
         IF k = 0 THEN {Min(DOMAIN scopes)} ELSE NextRound(scopes, f[k - 1])]

LEMMA RoundsAt ==
  ASSUME NEW f, NEW scopes, NEW n \in Nat, Rounds(f, scopes, n)
  PROVE  /\ f[0] = {Min(DOMAIN scopes)}
         /\ \A k \in 1 .. n : f[k] = NextRound(scopes, f[k - 1])
<1>1. \A k \in 0 .. n :
        f[k] = IF k = 0 THEN {Min(DOMAIN scopes)} ELSE NextRound(scopes, f[k - 1])
  BY DEF Rounds
<1>. QED
  BY <1>1

LEMMA RoundsExist ==
  ASSUME NEW scopes, NEW n \in Nat
  PROVE  \E f : Rounds(f, scopes, n)
<1>. DEFINE Without == {k \in Nat : ~ \E f : Rounds(f, scopes, k)}
<1>1. SUFFICES ASSUME Without # {} PROVE FALSE
  OBVIOUS
<1>2. PICK k \in Without : \A m \in Without : k <= m
  <2>1. Without \in SUBSET Nat
    OBVIOUS
  <2>. HIDE DEF Without
  <2>. QED
    BY <1>1, <2>1, LeastNatural
<1>3. k # 0
  <2>1. Rounds([j \in 0 .. 0 |-> {Min(DOMAIN scopes)}], scopes, 0)
    BY DEF Rounds
  <2>. QED
    BY <2>1
<1>4. k - 1 \in Nat /\ k - 1 \notin Without
  BY <1>2, <1>3
<1>5. PICK f : Rounds(f, scopes, k - 1)
  BY <1>4
<1>. DEFINE g == [j \in 0 .. k |-> IF j = k THEN NextRound(scopes, f[k - 1]) ELSE f[j]]
<1>6. /\ f[0] = {Min(DOMAIN scopes)}
      /\ \A j \in 1 .. k - 1 : f[j] = NextRound(scopes, f[j - 1])
  BY <1>4, <1>5, RoundsAt
<1>7. ASSUME NEW j \in 0 .. k
      PROVE  g[j] = IF j = 0 THEN {Min(DOMAIN scopes)} ELSE NextRound(scopes, g[j - 1])
  <2>1. CASE j = 0
    BY <1>3, <1>6, <2>1
  <2>2. CASE j = k
    BY <1>3, <2>2
  <2>3. CASE j \in 1 .. k - 1
    BY <1>6, <2>3
  <2>. QED
    BY <2>1, <2>2, <2>3
<1>8. Rounds(g, scopes, k)
  <2>1. g = [j \in 0 .. k |-> g[j]]
    OBVIOUS
  <2>. HIDE DEF g
  <2>. QED
    BY <1>7, <2>1 DEF Rounds
<1>. QED
  BY <1>2, <1>8

LEMMA SelectedByRounds ==
  ASSUME NEW scopes, Cardinality(DOMAIN scopes) \in Nat
  PROVE  \E f : /\ Rounds(f, scopes, Cardinality(DOMAIN scopes))
                /\ SelectedScopes(scopes) = {scopes[i] : i \in f[Cardinality(DOMAIN scopes)]}
<1>1. \E f : Rounds(f, scopes, Cardinality(DOMAIN scopes))
  BY RoundsExist
<1>. QED
  BY <1>1 DEF Rounds, SelectedScopes

(* With as many rounds as there are scopes, no round can add any more. *)
LEMMA RoundsSelect ==
  ASSUME NEW scopes, DOMAIN scopes \in SUBSET Nat, DOMAIN scopes # {},
         IsFiniteSet(DOMAIN scopes),
         NEW f, Rounds(f, scopes, Cardinality(DOMAIN scopes))
  PROVE  LET selected == f[Cardinality(DOMAIN scopes)] IN
         /\ selected \subseteq DOMAIN scopes
         /\ Min(DOMAIN scopes) \in selected
         /\ NextRound(scopes, selected) = selected
         /\ \A S \in SUBSET DOMAIN scopes :
              Min(DOMAIN scopes) \in S /\ NextRound(scopes, S) = S => selected \subseteq S
<1>. DEFINE first == Min(DOMAIN scopes)
            all == DOMAIN scopes
<1>1. PICK last : last = Cardinality(DOMAIN scopes)
  OBVIOUS
<1>2. last \in Nat /\ first \in all
  BY <1>1, FS_CardinalityType, LeastIsMin
<1>3. f[0] = {first} /\ \A k \in 1 .. last : f[k] = NextRound(scopes, f[k - 1])
  BY <1>1, <1>2, RoundsAt
<1>. HIDE DEF first
<1>. DEFINE P(k) == /\ f[k] \subseteq all /\ first \in f[k]
                    /\ NextRound(scopes, f[k]) = f[k] \/ Cardinality(f[k]) >= k + 1
                    /\ \A S \in SUBSET all :
                         first \in S /\ NextRound(scopes, S) = S => f[k] \subseteq S
            Failing_ == {k \in 0 .. last : ~ P(k)}
<1>4. P(0)
  <2>1. PICK A : A = {first}
    OBVIOUS
  <2>2. f[0] = A /\ A \subseteq all /\ first \in A
    BY <1>2, <1>3, <2>1
  <2>3. Cardinality(f[0]) = 1
    BY <2>1, <2>2, FS_Singleton
  <2>4. Cardinality(f[0]) >= 0 + 1
    BY <2>3
  <2>5. \A S \in SUBSET all : first \in S => f[0] \subseteq S
    BY <2>1, <2>2
  <2>. QED
    BY <2>2, <2>4, <2>5
<1>5. ASSUME NEW k \in 1 .. last, P(k - 1) PROVE P(k)
  <2>1. f[k] = NextRound(scopes, f[k - 1]) /\ f[k - 1] \subseteq f[k] /\ f[k] \subseteq all
    BY <1>3, <1>5 DEF NextRound
  <2>2. first \in f[k]
    BY <1>5, <2>1
  <2>3. ASSUME NEW S \in SUBSET all, first \in S, NextRound(scopes, S) = S PROVE f[k] \subseteq S
    BY <1>5, <2>1, <2>3 DEF NextRound
  <2>4. CASE NextRound(scopes, f[k - 1]) = f[k - 1]
    BY <2>1, <2>2, <2>3, <2>4
  <2>5. CASE NextRound(scopes, f[k - 1]) # f[k - 1]
    <3>1. PICK i \in f[k] : i \notin f[k - 1]
      BY <2>1, <2>5
    <3>2. IsFiniteSet(f[k]) /\ IsFiniteSet(f[k - 1])
      BY <2>1, FS_Subset
    <3>3. Cardinality(f[k - 1]) < Cardinality(f[k])
      <4>1. PICK A, B : A = f[k - 1] /\ B = f[k]
        OBVIOUS
      <4>2. IsFiniteSet(B) /\ A \in SUBSET B /\ A # B
        BY <2>1, <3>1, <3>2, <4>1
      <4>3. IsFiniteSet(A) /\ Cardinality(A) <= Cardinality(B)
            /\ (Cardinality(A) = Cardinality(B) => A = B)
        BY <4>2, FS_Subset
      <4>4. Cardinality(A) \in Nat /\ Cardinality(B) \in Nat
        BY <4>2, <4>3, FS_CardinalityType
      <4>. QED
        BY <4>1, <4>2, <4>3, <4>4
    <3>4. Cardinality(f[k - 1]) \in Nat /\ Cardinality(f[k]) \in Nat
      BY <3>2, FS_CardinalityType
    <3>5. Cardinality(f[k - 1]) >= k
      BY <1>5, <2>5
    <3>6. Cardinality(f[k]) >= k + 1
      BY <3>3, <3>4, <3>5
    <3>. QED
      BY <2>1, <2>2, <2>3, <3>6
  <2>. QED
    BY <2>4, <2>5
<1>6. P(last)
  <2>1. SUFFICES ASSUME Failing_ # {} PROVE FALSE
    BY <1>2
  <2>2. PICK k \in Failing_ : \A m \in Failing_ : k <= m
    <3>1. Failing_ \in SUBSET Nat
      BY <1>2
    <3>. HIDE DEF Failing_
    <3>. QED
      BY <2>1, <3>1, LeastNatural
  <2>3. k \in 0 .. last /\ ~ P(k) /\ \A m \in 0 .. last : m < k => P(m)
    BY <2>2
  <2>4. k # 0
    BY <1>4, <2>3
  <2>5. k \in 1 .. last /\ k - 1 \in 0 .. last /\ k - 1 < k
    BY <1>2, <2>3, <2>4
  <2>. HIDE DEF P, Failing_
  <2>. QED
    BY <1>5, <2>3, <2>5
<1>7. NextRound(scopes, f[last]) = f[last]
  <2>1. Cardinality(f[last]) <= last
    BY <1>1, <1>6, FS_Subset
  <2>2. Cardinality(f[last]) \in Nat
    BY <1>6, FS_Subset, FS_CardinalityType
  <2>. QED
    BY <1>2, <1>6, <2>1, <2>2
<1>. QED
  BY <1>1, <1>6, <1>7 DEF first

-----------------------------------------------------------------------------
(* The unit *)

LEMMA EntangledIsSymmetric ==
  ASSUME NEW s, NEW t, Entangled(s, t)
  PROVE  Entangled(t, s)
BY DEF Entangled, OverlapsAny, PathsOverlap

(* The places the loop selects among the failing verdicts: closed under
   entanglement, and within every closed set that holds the first. *)
Selects(places) ==
  /\ places \subseteq Failing
  /\ Min(Failing) \in places
  /\ Closed(places)
  /\ \A S \in SUBSET Failing : Min(Failing) \in S /\ Closed(S) => places \subseteq S
  /\ Unit = MergeScopes({ScopeOf(i) : i \in places})

LEMMA UnitIsSelected ==
  ASSUME verdicts \in Seq(Pool), Unit # NoScope
  PROVE  /\ \E places : Selects(places)
         /\ \A i \in Failing : AdvertisesScope(verdicts[i])
<1>. DEFINE scopes == [i \in Failing |-> verdicts[i].scope]
<1>1. /\ Failing # {}
      /\ \A i \in Failing : AdvertisesScope(verdicts[i])
      /\ Unit = MergeScopes(SelectedScopes(scopes))
  BY DEF Unit, Failing, DeriveRepairScope
<1>2. Failing \subseteq 1 .. Len(verdicts) /\ Len(verdicts) \in Nat
  BY DEF Failing, RepairableFailures
<1>3. Failing \in SUBSET Nat /\ IsFiniteSet(Failing)
  <2>1. PICK U : U = 1 .. Len(verdicts)
    OBVIOUS
  <2>2. IsFiniteSet(U) /\ Failing \in SUBSET U
    BY <1>2, <2>1, FS_Interval
  <2>3. IsFiniteSet(Failing)
    BY <2>2, FS_Subset
  <2>. QED
    BY <1>2, <2>3
<1>4. /\ DOMAIN scopes = Failing
      /\ \A i \in Failing : scopes[i] = ScopeOf(i)
  BY DEF ScopeOf
<1>5. Cardinality(Failing) \in Nat
  BY <1>3, FS_CardinalityType
<1>. HIDE DEF scopes
<1>6. PICK f : /\ Rounds(f, scopes, Cardinality(Failing))
               /\ SelectedScopes(scopes) = {scopes[i] : i \in f[Cardinality(Failing)]}
  BY <1>4, <1>5, SelectedByRounds
<1>7. PICK places : places = f[Cardinality(Failing)]
  OBVIOUS
<1>8. /\ places \subseteq Failing
      /\ Min(Failing) \in places
      /\ NextRound(scopes, places) = places
      /\ \A S \in SUBSET Failing :
           Min(Failing) \in S /\ NextRound(scopes, S) = S => places \subseteq S
  BY <1>1, <1>3, <1>4, <1>6, <1>7, RoundsSelect
<1>9. ASSUME NEW S \in SUBSET Failing
      PROVE  NextRound(scopes, S) = S <=> Closed(S)
  BY <1>4, EntangledIsSymmetric DEF NextRound, Closed
<1>10. Closed(places)
  BY <1>8, <1>9
<1>11. {scopes[i] : i \in places} = {ScopeOf(i) : i \in places}
  BY <1>4, <1>8
<1>12. Selects(places)
  BY <1>1, <1>6, <1>7, <1>8, <1>9, <1>10, <1>11 DEF Selects
<1>. QED
  BY <1>1, <1>12

LEMMA SelectedIsLeastClosed ==
  ASSUME NEW places, Selects(places)
  PROVE  places = LeastClosed
BY DEF Selects, LeastClosed

(* What a merge edits, repairs and keeps together is what its parts do. *)
LEMMA MergeGathers ==
  ASSUME NEW scopes, MergeScopes(scopes) # NoScope
  PROVE  /\ MergeScopes(scopes).failed = UNION {s.failed : s \in scopes}
         /\ MergeScopes(scopes).editable = UNION {s.editable : s \in scopes}
         /\ GroupIds(MergeScopes(scopes)) = UNION {GroupIds(s) : s \in scopes}
<1>1. MergeScopes(scopes) = [failed   |-> UNION {s.failed : s \in scopes},
                             rules    |-> UNION {s.rules : s \in scopes},
                             editable |-> UNION {s.editable : s \in scopes},
                             groups   |-> MergedGroups(scopes)]
  BY DEF MergeScopes
<1>2. PICK all : all = UNION {s.groups : s \in scopes}
  OBVIOUS
<1>3. {g.id : g \in MergedGroups(scopes)} = {g.id : g \in all}
  <2>. DEFINE Paths(i) == UNION {g.paths : g \in {h \in all : h.id = i}}
  <2>1. MergedGroups(scopes) = {[id |-> i, paths |-> Paths(i)] : i \in {g.id : g \in all}}
    BY <1>2 DEF MergedGroups
  <2>. HIDE DEF Paths
  <2>2. ASSUME NEW i \in {g.id : g \in all}
        PROVE  i \in {g.id : g \in MergedGroups(scopes)}
    <3>1. [id |-> i, paths |-> Paths(i)] \in MergedGroups(scopes)
      BY <2>1
    <3>2. [id |-> i, paths |-> Paths(i)].id = i
      OBVIOUS
    <3>. QED
      BY <3>1, <3>2
  <2>3. ASSUME NEW g \in MergedGroups(scopes)
        PROVE  g.id \in {h.id : h \in all}
    BY <2>1
  <2>. QED
    BY <2>2, <2>3
<1>4. {g.id : g \in all} = UNION {{g.id : g \in s.groups} : s \in scopes}
  BY <1>2
<1>5. /\ MergeScopes(scopes).failed = UNION {s.failed : s \in scopes}
      /\ MergeScopes(scopes).editable = UNION {s.editable : s \in scopes}
      /\ MergeScopes(scopes).groups = MergedGroups(scopes)
  BY <1>1
<1>6. GroupIds(MergeScopes(scopes)) = {g.id : g \in MergedGroups(scopes)}
  BY <1>5 DEF GroupIds
<1>7. UNION {GroupIds(s) : s \in scopes} = UNION {{g.id : g \in s.groups} : s \in scopes}
  BY DEF GroupIds
<1>. QED
  BY <1>3, <1>4, <1>5, <1>6, <1>7

LEMMA UnselectedAreIndependent ==
  ASSUME NEW places, Selects(places), Unit # NoScope,
         \A i \in Failing : AdvertisesScope(verdicts[i])
  PROVE  LaterUnitsAreIndependent
<1>. SUFFICES ASSUME NEW i \in Failing, ScopeOf(i).failed \cap Unit.failed = {}
              PROVE  /\ \A p \in ScopeOf(i).editable : ~ OverlapsAny(p, Unit.editable)
                     /\ GroupIds(ScopeOf(i)) \cap GroupIds(Unit) = {}
  BY DEF LaterUnitsAreIndependent
<1>1. /\ Unit.failed = UNION {ScopeOf(j).failed : j \in places}
      /\ Unit.editable = UNION {ScopeOf(j).editable : j \in places}
      /\ GroupIds(Unit) = UNION {GroupIds(ScopeOf(j)) : j \in places}
  <2>1. PICK scopes : scopes = {ScopeOf(j) : j \in places}
    OBVIOUS
  <2>2. Unit = MergeScopes(scopes)
    BY <2>1 DEF Selects
  <2>3. /\ Unit.failed = UNION {s.failed : s \in scopes}
        /\ Unit.editable = UNION {s.editable : s \in scopes}
        /\ GroupIds(Unit) = UNION {GroupIds(s) : s \in scopes}
    BY <2>2, MergeGathers
  <2>. QED
    BY <2>1, <2>3
<1>2. ScopeOf(i).failed # {}
  BY DEF AdvertisesScope, ValidScope, ScopeOf
<1>3. i \notin places
  BY <1>1, <1>2
<1>4. \A j \in places : ~ Entangled(ScopeOf(i), ScopeOf(j))
  BY <1>3, EntangledIsSymmetric DEF Selects, Closed
<1>5. ASSUME NEW p \in ScopeOf(i).editable PROVE ~ OverlapsAny(p, Unit.editable)
  BY <1>1, <1>4 DEF OverlapsAny, Entangled
<1>6. GroupIds(ScopeOf(i)) \cap GroupIds(Unit) = {}
  BY <1>1, <1>4 DEF Entangled
<1>. QED
  BY <1>5, <1>6

-----------------------------------------------------------------------------
LEMMA VerdictsAreTyped == Spec => [](verdicts \in Seq(Pool))
<1>1. Init => verdicts \in Seq(Pool)
  BY DEF Init
<1>2. verdicts \in Seq(Pool) /\ [Next]_verdicts => (verdicts \in Seq(Pool))'
  BY DEF Next, Evaluated
<1>. QED
  BY <1>1, <1>2, PTL DEF Spec

(* Whatever verdicts arrive, the derived unit merges exactly the scopes linked
   to the first failing one (derive_repair_scope). *)
THEOREM UnitsAreLeastClosed == Spec => []UnitIsLeastClosed
<1>1. verdicts \in Seq(Pool) => UnitIsLeastClosed
  BY UnitIsSelected, SelectedIsLeastClosed DEF UnitIsLeastClosed, Selects
<1>. QED
  BY <1>1, VerdictsAreTyped, PTL

(* Whatever verdicts arrive, the failing scopes left for a later unit share no
   overlapping pointer and no atomic group with this one (derive_repair_scope). *)
THEOREM LaterUnitsIndependent == Spec => []LaterUnitsAreIndependent
<1>1. verdicts \in Seq(Pool) => LaterUnitsAreIndependent
  BY UnitIsSelected, UnselectedAreIndependent DEF LaterUnitsAreIndependent
<1>. QED
  BY <1>1, VerdictsAreTyped, PTL
=============================================================================
