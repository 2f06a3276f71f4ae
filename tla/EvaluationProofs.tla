------------------------- MODULE EvaluationProofs -------------------------
(***************************************************************************)
(* What the trials of a model, the reports of a campaign and the verdict   *)
(* in them promise, for any suite, proposals, replies, protocol and number *)
(* of runs, and any faults, mixed up checkpoints and edits by hand.        *)
(*                                                                         *)
(* The argument.  A runtime is followed from call to call (Under): while   *)
(* the controller goes on, neither its first proposal nor the best one     *)
(* passes, so a first proposal that passes ended its condition at once.    *)
(* Whatever ends a condition then leaves a sound outcome (FailureIsSound,  *)
(* CompletionIsSound), and a trial of sound outcomes is a possible one.    *)
(*                                                                         *)
(* A run measures once, under its own name (RunsInv), so a checkpoint's    *)
(* digest stays the digest of a measurement, however the checkpoint is     *)
(* edited (FilesInv), and one that agrees with its digest is what its run  *)
(* measured.  Documents are only added: a report stays true of them, and   *)
(* its assessment is one of tables that were observed (Grounded).          *)
(*                                                                         *)
(* What is assessed of such tables is what their trials earn               *)
(* (VerdictIsEarned).  Sums over sets come first, from what the sum of a   *)
(* finite set is; the trials of all models are then counted by slot and by *)
(* case, and each criterion is judged on both sides of its rounding: a     *)
(* mean is within a half of what it is the mean of (Rounded), so where     *)
(* unrounded quantities are a whole apart their order is kept.             *)
(***************************************************************************)
EXTENDS Evaluation, FiniteSetTheorems, SequenceTheorems, TLAPS

LEMMA Included ==
  ASSUME NEW f, NEW x, NEW v
  PROVE  /\ DOMAIN Including(f, x, v) = DOMAIN f \cup {x}
         /\ Including(f, x, v)[x] = v
         /\ \A y \in DOMAIN f \ {x} : Including(f, x, v)[y] = f[y]
BY DEF Including

-----------------------------------------------------------------------------
(* Sums over finite sets *)

SumOver(f, S) == SumFunctionOnSet(f, S)

AnyOf(ids) == CHOOSE i \in ids : TRUE

Added(f, table, ids) == table[AnyOf(ids)] + f[ids \ {AnyOf(ids)}]

Adds(f, table, S) ==
  f = [ids \in SUBSET S |->
         IF ids = {} THEN 0
         ELSE Added(f, table, ids)]

(* Of the subsets of a finite set, any collection has a least one. *)
LEMMA SmallestSet ==
  ASSUME NEW S, IsFiniteSet(S), NEW T, T \subseteq SUBSET S, T # {}
  PROVE  \E ids \in T : \A jds \in T : jds \subseteq ids => jds = ids
<1>1. IsWellFoundedOn(StrictSubsetOrdering(S), FiniteSubsetsOf(S))
  BY FS_StrictSubsetOrderingWellFounded
<1>2. T \subseteq FiniteSubsetsOf(S)
  BY FS_Subset DEF FiniteSubsetsOf
<1>3. \E x \in T : \A y \in T : ~ (<<y, x>> \in StrictSubsetOrdering(S))
  BY <1>1, <1>2, WFMin
<1>. QED
  BY <1>3 DEF StrictSubsetOrdering

(* SumFunctionOnSet takes the elements of a set one by one, whichever comes first. *)
LEMMA AnyIsOne == ASSUME NEW ids, ids # {} PROVE AnyOf(ids) \in ids
BY DEF AnyOf

(* What a function that adds up a table is at a set. *)
LEMMA AddsAt ==
  ASSUME NEW S, NEW f, NEW table, Adds(f, table, S)
  PROVE  /\ f[{}] = 0
         /\ \A ids : ids \subseteq S /\ ids # {} =>
              f[ids] = Added(f, table, ids)
<1>1. f = [x \in SUBSET S |->
         IF x = {} THEN 0
         ELSE Added(f, table, x)]
  BY DEF Adds
<1>2. \A x \in SUBSET S : f[x] = IF x = {} THEN 0
         ELSE Added(f, table, x)
  BY <1>1
<1>. QED
  BY <1>2

Agree(table, other, S) == \A i \in S : table[i] = other[i]

(* Two tables with the same quantities at ids have the same sum. *)
LEMMA SameSum ==
  ASSUME NEW S, NEW R, IsFiniteSet(S), NEW f, NEW g, NEW table, NEW other,
         Adds(f, table, S), Adds(g, other, R),
         NEW ids, ids \subseteq S, ids \subseteq R, Agree(table, other, ids)
  PROVE  f[ids] = g[ids]
<1>. DEFINE Differ == {x \in SUBSET ids : f[x] # g[x]}
<1>1. \A x : x \subseteq ids /\ x # {} =>
        f[x] = Added(f, table, x)
  BY AddsAt
<1>2. \A x : x \subseteq ids /\ x # {} =>
        g[x] = Added(g, other, x)
  BY AddsAt
<1>3. f[{}] = g[{}]
  BY AddsAt
<1>4. ASSUME Differ # {} PROVE FALSE
  <2>1. PICK x \in Differ : \A y \in Differ : y \subseteq x => y = x
    <3>1. Differ \subseteq SUBSET S
      OBVIOUS
    <3>. HIDE DEF Differ
    <3>. QED
      BY <1>4, <3>1, SmallestSet
  <2>2. x # {} /\ x \subseteq ids /\ f[x] # g[x]
    BY <1>3
  <2>. DEFINE a == AnyOf(x)
  <2>3. a \in x
    BY <2>2, AnyIsOne
  <2>4. f[x \ {a}] = g[x \ {a}]
    BY <2>1, <2>3
  <2>5. f[x] = table[a] + f[x \ {a}]
    BY <1>1, <2>2 DEF Added
  <2>6. g[x] = other[a] + g[x \ {a}]
    BY <1>2, <2>2 DEF Added
  <2>7. table[a] = other[a]
    BY <2>2, <2>3 DEF Agree
  <2>. HIDE DEF Differ, a
  <2>. QED
    BY <2>2, <2>4, <2>5, <2>6, <2>7, Zenon
<1>. QED
  BY <1>4

(* Functions that add up the same table agree where both are defined. *)
LEMMA SameAdds ==
  ASSUME NEW S, NEW R, IsFiniteSet(S), NEW f, NEW g, NEW table,
         Adds(f, table, S), Adds(g, table, R), NEW ids, ids \subseteq S, ids \subseteq R
  PROVE  f[ids] = g[ids]
<1>1. Agree(table, table, ids)
  BY DEF Agree
<1>. QED
  BY <1>1, SameSum

(* Some function adds up a table over the subsets of a finite set. *)
LEMMA SumExists ==
  ASSUME NEW S, IsFiniteSet(S), NEW table
  PROVE  \E f : Adds(f, table, S)
<1>. DEFINE Without == {x \in SUBSET S : ~ \E f : Adds(f, table, x)}
<1>1. SUFFICES ASSUME Without # {} PROVE FALSE
  OBVIOUS
<1>2. PICK x \in Without : \A y \in Without : y \subseteq x => y = x
  <2>1. Without \subseteq SUBSET S
    OBVIOUS
  <2>. HIDE DEF Without
  <2>. QED
    BY <1>1, <2>1, SmallestSet
<1>. DEFINE F(y) == CHOOSE f : Adds(f, table, y)
            g == [y \in SUBSET x |->
                    IF y = {} THEN 0
                    ELSE table[AnyOf(y)] + F(y \ {AnyOf(y)})[y \ {AnyOf(y)}]]
<1>3. ASSUME NEW y \in SUBSET x, y # x PROVE Adds(F(y), table, y)
  BY <1>2, <1>3
<1>4. ASSUME NEW y \in SUBSET x, y # {} PROVE y \ {AnyOf(y)} \in SUBSET x /\ y \ {AnyOf(y)} # x
  BY <1>4, AnyIsOne
<1>. HIDE DEF F
<1>5. ASSUME NEW y \in SUBSET x, y # x PROVE g[y] = F(y)[y]
  <2>1. Adds(F(y), table, y)
    BY <1>3, <1>5
  <2>2. CASE y = {}
    BY <2>1, <2>2, AddsAt
  <2>3. CASE y # {}
    <3>. DEFINE z == y \ {AnyOf(y)}
    <3>1. z \in SUBSET x /\ z # x /\ z \in SUBSET y /\ z \in SUBSET z
      BY <1>4, <2>3
    <3>2. Adds(F(z), table, z)
      BY <1>3, <3>1
    <3>3. F(y)[z] = F(z)[z]
      <4>1. IsFiniteSet(y)
        BY FS_Subset
      <4>. HIDE DEF z
      <4>. QED
        BY <2>1, <3>1, <3>2, <4>1, SameAdds
    <3>4. F(y)[y] = table[AnyOf(y)] + F(y)[z]
      BY <2>1, <2>3, AddsAt DEF Added
    <3>. QED
      BY <2>3, <3>3, <3>4
  <2>. QED
    BY <2>2, <2>3
<1>6. Adds(g, table, x)
  <2>1. ASSUME NEW y \in SUBSET x, y # {}
        PROVE  g[y] = Added(g, table, y)
    BY <1>4, <1>5, <2>1 DEF Added
  <2>2. g[{}] = 0
    OBVIOUS
  <2>3. g = [y \in SUBSET x |-> g[y]]
    OBVIOUS
  <2>. HIDE DEF g
  <2>. QED
    BY <2>1, <2>2, <2>3 DEF Adds
<1>. QED
  BY <1>2, <1>6

(* A sum is what any function that adds up the table says of the whole set. *)
LEMMA SumIs ==
  ASSUME NEW S, IsFiniteSet(S), NEW table
  PROVE  \E f : Adds(f, table, S) /\ SumOver(table, S) = f[S]
<1>. DEFINE f == CHOOSE f : Adds(f, table, S)
<1>1. Adds(f, table, S)
  BY SumExists
<1>2. SumOver(table, S) = f[S]
  BY DEF SumOver, SumFunctionOnSet, FoldFunctionOnSet, MapThenFoldSet, Adds, Added, AnyOf
<1>. QED
  BY <1>1, <1>2

LEMMA SumEmpty == \A table : SumOver(table, {}) = 0
BY SumIs, FS_EmptySet, AddsAt

(* A sum depends on the quantities it is of, and on nothing else. *)
LEMMA SumSame ==
  ASSUME NEW S, IsFiniteSet(S), NEW table, NEW other,
         \A i \in S : table[i] = other[i]
  PROVE  SumOver(table, S) = SumOver(other, S)
<1>1. PICK f : Adds(f, table, S) /\ SumOver(table, S) = f[S]
  BY SumIs
<1>2. PICK g : Adds(g, other, S) /\ SumOver(other, S) = g[S]
  BY SumIs
<1>3. Agree(table, other, S)
  BY DEF Agree
<1>. QED
  BY <1>1, <1>2, <1>3, SameSum

(* The sum of integers is an integer. *)
LEMMA SumInt ==
  ASSUME NEW S, IsFiniteSet(S), NEW table, \A i \in S : table[i] \in Int
  PROVE  SumOver(table, S) \in Int
<1>1. PICK f : Adds(f, table, S) /\ SumOver(table, S) = f[S]
  BY SumIs
<1>2. f[{}] \in Int
  BY <1>1, AddsAt
<1>3. \A x : x \subseteq S /\ x # {} =>
        f[x] = Added(f, table, x)
  BY <1>1, AddsAt
<1>. DEFINE Bad == {x \in SUBSET S : f[x] \notin Int}
<1>4. ASSUME Bad # {} PROVE FALSE
  <2>1. PICK x \in Bad : \A y \in Bad : y \subseteq x => y = x
    <3>1. Bad \subseteq SUBSET S
      OBVIOUS
    <3>. HIDE DEF Bad
    <3>. QED
      BY <1>4, <3>1, SmallestSet
  <2>2. x # {} /\ x \subseteq S /\ f[x] \notin Int
    BY <1>2
  <2>. DEFINE a == AnyOf(x)
  <2>3. a \in x
    BY <2>2, AnyIsOne
  <2>4. f[x \ {a}] \in Int
    BY <2>1, <2>3
  <2>5. f[x] = table[a] + f[x \ {a}]
    BY <1>3, <2>2 DEF Added
  <2>6. table[a] \in Int
    BY <2>2, <2>3
  <2>. HIDE DEF Bad, a
  <2>. QED
    BY <2>2, <2>4, <2>5, <2>6
<1>5. f[S] \in Int
  BY <1>4
<1>. QED
  BY <1>1, <1>5

(* A sum is one of its quantities and the sum of the others. *)
LEMMA SumWithout ==
  ASSUME NEW S, IsFiniteSet(S), NEW table, \A i \in S : table[i] \in Int,
         NEW j \in S
  PROVE  SumOver(table, S) = table[j] + SumOver(table, S \ {j})
<1>1. PICK f : Adds(f, table, S) /\ SumOver(table, S) = f[S]
  BY SumIs
<1>2. ASSUME NEW x \in SUBSET S PROVE f[x] = SumOver(table, x) /\ f[x] \in Int
  <2>1. IsFiniteSet(x)
    BY FS_Subset
  <2>2. PICK g : Adds(g, table, x) /\ SumOver(table, x) = g[x]
    BY <2>1, SumIs
  <2>3. f[x] = g[x]
    BY <1>1, <2>2, SameAdds
  <2>. QED
    BY <2>1, <2>2, <2>3, SumInt
<1>. DEFINE Bad == {x \in SUBSET S : \E i \in x : f[x] # table[i] + f[x \ {i}]}
<1>3. Bad = {}
  <2>1. SUFFICES ASSUME Bad # {} PROVE FALSE
    OBVIOUS
  <2>2. PICK x \in Bad : \A y \in Bad : y \subseteq x => y = x
    <3>1. Bad \subseteq SUBSET S
      OBVIOUS
    <3>. HIDE DEF Bad
    <3>. QED
      BY <2>1, <3>1, SmallestSet
  <2>3. PICK i \in x : f[x] # table[i] + f[x \ {i}]
    OBVIOUS
  <2>. DEFINE a == AnyOf(x)
  <2>4. a \in x /\ f[x] = table[a] + f[x \ {a}]
    <3>1. x # {} /\ x \subseteq S
      BY <2>3
    <3>2. a \in x /\ f[x] = Added(f, table, x)
      BY <1>1, <3>1, AddsAt, AnyIsOne
    <3>. QED
      BY <3>2 DEF Added
  <2>5. a # i
    BY <2>3, <2>4
  <2>6. x \ {a} \notin Bad /\ x \ {i} \notin Bad
    BY <2>2, <2>3, <2>4
  <2>7. f[x \ {a}] = table[i] + f[(x \ {a}) \ {i}]
    BY <2>3, <2>5, <2>6
  <2>8. f[x \ {i}] = table[a] + f[(x \ {i}) \ {a}]
    BY <2>4, <2>5, <2>6
  <2>9. (x \ {a}) \ {i} = (x \ {i}) \ {a}
    OBVIOUS
  <2>10. /\ table[i] \in Int /\ table[a] \in Int
         /\ f[(x \ {i}) \ {a}] \in Int
    BY <1>2, <2>3, <2>4
  <2>11. f[x] # table[i] + f[x \ {i}]
    BY <2>3
  <2>12. f[x] = table[a] + (table[i] + f[(x \ {i}) \ {a}])
    BY <2>4, <2>7, <2>9
  <2>13. f[x \ {i}] = table[a] + f[(x \ {i}) \ {a}]
    BY <2>8
  <2>. HIDE DEF a, Bad
  <2>. QED
    BY <2>10, <2>11, <2>12, <2>13
<1>4. f[S] = table[j] + f[S \ {j}]
  BY <1>3
<1>. QED
  BY <1>2, <1>4

LEMMA SumOfFunction == \A f : SumFunction(f) = SumOver(f, DOMAIN f)
BY DEF SumFunction, SumOver

(* What is known of the sums over the subsets of a finite set. *)
Sums(f, S) ==
  /\ \A i \in S : f[i] \in Int
  /\ SumOver(f, {}) = 0
  /\ \A x \in SUBSET S : SumOver(f, x) \in Int
  /\ \A x \in SUBSET S : \A i \in x : SumOver(f, x) = f[i] + SumOver(f, x \ {i})

LEMMA SumSteps ==
  ASSUME NEW S, IsFiniteSet(S), NEW f, \A i \in S : f[i] \in Int
  PROVE  Sums(f, S)
<1>1. ASSUME NEW x \in SUBSET S PROVE SumOver(f, x) \in Int
  <2>1. IsFiniteSet(x)
    BY FS_Subset
  <2>. QED
    BY <2>1, SumInt
<1>2. ASSUME NEW x \in SUBSET S, NEW i \in x PROVE SumOver(f, x) = f[i] + SumOver(f, x \ {i})
  <2>1. IsFiniteSet(x)
    BY FS_Subset
  <2>. QED
    BY <2>1, SumWithout
<1>. QED
  BY <1>1, <1>2, SumEmpty DEF Sums

(* A property of the empty set that a set has when it has it without one of its
   elements holds of every subset: Holds is the set of those that have it. *)
LEMMA EverySubset ==
  ASSUME NEW S, IsFiniteSet(S), NEW Holds, {} \in Holds,
         \A x \in SUBSET S : \A a \in x : x \ {a} \in Holds => x \in Holds
  PROVE  SUBSET S \subseteq Holds
<1>. DEFINE Bad == {x \in SUBSET S : x \notin Holds}
<1>1. SUFFICES ASSUME Bad # {} PROVE FALSE
  OBVIOUS
<1>2. PICK x \in Bad : \A y \in Bad : y \subseteq x => y = x
  <2>1. Bad \subseteq SUBSET S
    OBVIOUS
  <2>. HIDE DEF Bad
  <2>. QED
    BY <1>1, <2>1, SmallestSet
<1>3. x # {} /\ x \subseteq S
  OBVIOUS
<1>4. PICK a \in x : TRUE
  BY <1>3
<1>5. x \ {a} \in Holds
  BY <1>2, <1>4
<1>. QED
  BY <1>3, <1>4, <1>5

(* Greater quantities have a greater sum. *)
LEMMA SumMonotone ==
  ASSUME NEW S, IsFiniteSet(S), NEW f, NEW g,
         \A i \in S : f[i] \in Int /\ g[i] \in Int /\ f[i] <= g[i]
  PROVE  /\ SumOver(f, S) <= SumOver(g, S)
         /\ SumOver(f, S) = SumOver(g, S) => \A i \in S : f[i] = g[i]
<1>. DEFINE Holds == {x \in SUBSET S : /\ SumOver(f, x) <= SumOver(g, x)
                                       /\ SumOver(f, x) = SumOver(g, x) => \A i \in x : f[i] = g[i]}
<1>1. Sums(f, S)
  BY SumSteps
<1>2. Sums(g, S)
  BY SumSteps
<1>3. ASSUME NEW x \in SUBSET S, NEW a \in x, x \ {a} \in Holds PROVE x \in Holds
  <2>1. SumOver(f, x) = f[a] + SumOver(f, x \ {a}) /\ SumOver(g, x) = g[a] + SumOver(g, x \ {a})
    BY <1>1, <1>2 DEF Sums
  <2>2. SumOver(f, x \ {a}) \in Int /\ SumOver(g, x \ {a}) \in Int
    BY <1>1, <1>2 DEF Sums
  <2>3. f[a] \in Int /\ g[a] \in Int /\ f[a] <= g[a]
    OBVIOUS
  <2>4. /\ SumOver(f, x \ {a}) <= SumOver(g, x \ {a})
        /\ SumOver(f, x \ {a}) = SumOver(g, x \ {a}) => \A i \in x \ {a} : f[i] = g[i]
    BY <1>3
  <2>5. /\ SumOver(f, x) <= SumOver(g, x)
        /\ SumOver(f, x) = SumOver(g, x) =>
             f[a] = g[a] /\ SumOver(f, x \ {a}) = SumOver(g, x \ {a})
    BY <2>1, <2>2, <2>3, <2>4
  <2>. QED
    BY <2>4, <2>5
<1>4. {} \in Holds
  BY <1>1, <1>2 DEF Sums
<1>5. S \in Holds
  <2>. HIDE DEF Holds
  <2>. QED
    BY <1>3, <1>4, EverySubset
<1>. QED
  BY <1>5

(* A sum is linear in its quantities. *)
LEMMA SumLinear ==
  ASSUME NEW S, IsFiniteSet(S), NEW f, NEW g, NEW h, NEW c \in Int, NEW d \in Int,
         \A i \in S : f[i] \in Int, \A i \in S : g[i] \in Int,
         \A i \in S : h[i] = c * f[i] + d * g[i]
  PROVE  SumOver(h, S) = c * SumOver(f, S) + d * SumOver(g, S)
<1>. DEFINE Holds == {x \in SUBSET S : SumOver(h, x) = c * SumOver(f, x) + d * SumOver(g, x)}
<1>1. Sums(f, S) /\ Sums(g, S)
  BY SumSteps
<1>2. Sums(h, S)
  <2>1. \A i \in S : h[i] \in Int
    OBVIOUS
  <2>. QED
    BY <2>1, SumSteps
<1>3. ASSUME NEW x \in SUBSET S, NEW a \in x, x \ {a} \in Holds PROVE x \in Holds
  <2>1. PICK p \in Int, q \in Int : p = SumOver(f, x \ {a}) /\ q = SumOver(g, x \ {a})
    BY <1>1 DEF Sums
  <2>2. SumOver(f, x) = f[a] + p /\ SumOver(g, x) = g[a] + q
    BY <1>1, <2>1 DEF Sums
  <2>3. SumOver(h, x) = (c * f[a] + d * g[a]) + (c * p + d * q)
    BY <1>2, <1>3, <2>1 DEF Sums
  <2>4. ASSUME NEW u \in Int, NEW v \in Int
        PROVE  (c * u + d * v) + (c * p + d * q) = c * (u + p) + d * (v + q)
    OBVIOUS
  <2>. QED
    BY <2>2, <2>3, <2>4
<1>4. {} \in Holds
  BY <1>1, <1>2 DEF Sums
<1>5. S \in Holds
  <2>. HIDE DEF Holds
  <2>. QED
    BY <1>3, <1>4, EverySubset
<1>. QED
  BY <1>5

(* The sum of equal quantities is a product. *)
LEMMA SumConstant ==
  ASSUME NEW S, IsFiniteSet(S), NEW f, NEW c \in Int, \A i \in S : f[i] = c
  PROVE  SumOver(f, S) = c * Cardinality(S)
<1>. DEFINE Holds == {x \in SUBSET S : SumOver(f, x) = c * Cardinality(x)}
<1>1. Sums(f, S)
  BY SumSteps
<1>2. ASSUME NEW x \in SUBSET S, NEW a \in x, x \ {a} \in Holds PROVE x \in Holds
  <2>1. Cardinality(x \ {a}) = Cardinality(x) - 1 /\ Cardinality(x) \in Nat
    BY FS_Subset, FS_RemoveElement, FS_CardinalityType
  <2>2. SumOver(f, x) = c + c * (Cardinality(x) - 1)
    BY <1>1, <1>2, <2>1 DEF Sums
  <2>. QED
    BY <2>1, <2>2
<1>3. {} \in Holds
  BY <1>1, FS_EmptySet DEF Sums
<1>4. S \in Holds
  <2>. HIDE DEF Holds
  <2>. QED
    BY <1>2, <1>3, EverySubset
<1>. QED
  BY <1>4

(* A count is a sum of ones. *)
LEMMA CountIsSum ==
  ASSUME NEW S, IsFiniteSet(S), NEW T \in SUBSET S, NEW f,
         \A i \in S : f[i] = IF i \in T THEN 1 ELSE 0
  PROVE  SumOver(f, S) = Cardinality(T)
<1>. DEFINE Holds == {x \in SUBSET S : SumOver(f, x) = Cardinality(x \cap T)}
<1>1. Sums(f, S)
  BY SumSteps
<1>2. ASSUME NEW x \in SUBSET S, NEW a \in x, x \ {a} \in Holds PROVE x \in Holds
  <2>1. /\ IsFiniteSet(x \cap T) /\ Cardinality(x \cap T) \in Nat
        /\ Cardinality((x \cap T) \ {a}) =
             IF a \in x \cap T THEN Cardinality(x \cap T) - 1 ELSE Cardinality(x \cap T)
    <3>1. IsFiniteSet(x \cap T)
      BY FS_Subset
    <3>. QED
      BY <3>1, FS_RemoveElement, FS_CardinalityType
  <2>2. (x \cap T) \ {a} = (x \ {a}) \cap T
    OBVIOUS
  <2>3. SumOver(f, x) = f[a] + Cardinality((x \cap T) \ {a})
    <3>1. SumOver(f, x \ {a}) = Cardinality((x \ {a}) \cap T)
      BY <1>2 DEF Sums
    <3>2. SumOver(f, x) = f[a] + SumOver(f, x \ {a})
      BY <1>1 DEF Sums
    <3>. QED
      BY <2>2, <3>1, <3>2
  <2>4. f[a] = IF a \in x \cap T THEN 1 ELSE 0
    OBVIOUS
  <2>. QED
    BY <2>1, <2>3, <2>4
<1>3. {} \in Holds
  BY <1>1, FS_EmptySet DEF Sums
<1>4. S \in Holds
  <2>. HIDE DEF Holds
  <2>. QED
    BY <1>2, <1>3, EverySubset
<1>. QED
  <2>1. S \cap T = T
    OBVIOUS
  <2>. QED
    BY <1>4, <2>1

AddsRows(lines, f, S, T) == \A i \in S : lines[i] = SumOver(f[i], T)
AddsColumns(columns, f, S, T) ==
  \A j \in T : columns[j] = SumOver([i \in S |-> f[i][j]], S)

(* The sum of a table by lines is its sum by columns. *)
LEMMA SumSwap ==
  ASSUME NEW S, IsFiniteSet(S), NEW T, IsFiniteSet(T), NEW f,
         \A i \in S : \A j \in T : f[i][j] \in Int,
         NEW lines, AddsRows(lines, f, S, T), NEW columns, AddsColumns(columns, f, S, T)
  PROVE  SumOver(lines, S) = SumOver(columns, T)
<1>. DEFINE column(j) == [i \in S |-> f[i][j]]
            upTo(x) == [j \in T |-> SumOver(column(j), x)]
            Holds == {x \in SUBSET S : SumOver(lines, x) = SumOver(upTo(x), T)}
<1>1. ASSUME NEW i \in S PROVE lines[i] \in Int /\ lines[i] = SumOver(f[i], T)
  BY SumInt DEF AddsRows
<1>2. Sums(lines, S)
  <2>1. \A i \in S : lines[i] \in Int
    BY <1>1
  <2>. QED
    BY <2>1, SumSteps
<1>3. ASSUME NEW j \in T
      PROVE  Sums(column(j), S) /\ \A i \in S : column(j)[i] = f[i][j]
  <2>1. \A i \in S : column(j)[i] = f[i][j] /\ column(j)[i] \in Int
    OBVIOUS
  <2>. HIDE DEF column
  <2>. QED
    BY <2>1, SumSteps
<1>4. ASSUME NEW x \in SUBSET S, NEW a \in x, x \ {a} \in Holds PROVE x \in Holds
  <2>1. \A j \in T : /\ f[a][j] \in Int /\ upTo(x \ {a})[j] \in Int
                     /\ upTo(x)[j] = 1 * f[a][j] + 1 * upTo(x \ {a})[j]
    <3>. HIDE DEF column
    <3>. QED
      BY <1>3 DEF Sums
  <2>2. SumOver(upTo(x), T) = 1 * SumOver(f[a], T) + 1 * SumOver(upTo(x \ {a}), T)
    <3>. DEFINE new == upTo(x)
                old == upTo(x \ {a})
                row == f[a]
    <3>1. \A j \in T : row[j] \in Int /\ old[j] \in Int /\ new[j] = 1 * row[j] + 1 * old[j]
      BY <2>1
    <3>. HIDE DEF new, old, row
    <3>2. SumOver(new, T) = 1 * SumOver(row, T) + 1 * SumOver(old, T)
      BY <3>1, SumLinear
    <3>. QED
      BY <3>2 DEF new, old, row
  <2>3. SumOver(lines, x) = SumOver(f[a], T) + SumOver(upTo(x \ {a}), T)
    BY <1>1, <1>2, <1>4 DEF Sums
  <2>4. SumOver(f[a], T) \in Int /\ SumOver(upTo(x \ {a}), T) \in Int
    <3>. HIDE DEF upTo
    <3>. QED
      BY <2>1, SumInt
  <2>. HIDE DEF upTo
  <2>. QED
    BY <2>2, <2>3, <2>4
<1>5. {} \in Holds
  <2>1. \A j \in T : upTo({})[j] = 0
    BY <1>3 DEF Sums
  <2>2. SumOver(upTo({}), T) = 0 * Cardinality(T)
    <3>. DEFINE none == upTo({})
    <3>1. \A j \in T : none[j] = 0
      BY <2>1
    <3>. HIDE DEF none
    <3>2. SumOver(none, T) = 0 * Cardinality(T)
      BY <3>1, SumConstant
    <3>. QED
      BY <3>2 DEF none
  <2>. HIDE DEF upTo
  <2>. QED
    BY <1>2, <2>2, FS_CardinalityType DEF Sums
<1>6. S \in Holds
  <2>. HIDE DEF Holds
  <2>. QED
    BY <1>4, <1>5, EverySubset
<1>7. SumOver(upTo(S), T) = SumOver(columns, T)
  <2>1. \A j \in T : upTo(S)[j] = columns[j]
    BY DEF AddsColumns
  <2>. HIDE DEF upTo
  <2>. QED
    BY <2>1, SumSame
<1>. QED
  BY <1>6, <1>7

(* The sum of natural numbers is one. *)
LEMMA SumNat ==
  ASSUME NEW S, IsFiniteSet(S), NEW f, \A i \in S : f[i] \in Nat
  PROVE  SumOver(f, S) \in Nat
<1>. DEFINE zero == [i \in S |-> 0]
<1>1. \A i \in S : zero[i] = 0
  OBVIOUS
<1>. HIDE DEF zero
<1>2. SumOver(zero, S) = 0 * Cardinality(S)
  BY <1>1, SumConstant
<1>3. SumOver(zero, S) = 0
  BY <1>2, FS_CardinalityType
<1>4. \A i \in S : zero[i] \in Int /\ f[i] \in Int /\ zero[i] <= f[i]
  BY <1>1
<1>5. SumOver(zero, S) <= SumOver(f, S)
  BY <1>4, SumMonotone
<1>6. SumOver(f, S) \in Int
  BY <1>4, SumInt
<1>. QED
  BY <1>3, <1>5, <1>6

(* It is above zero if one of them is. *)
LEMMA SumPositive ==
  ASSUME NEW S, IsFiniteSet(S), NEW f, \A i \in S : f[i] \in Nat, NEW j \in S, f[j] > 0
  PROVE  SumOver(f, S) > 0
<1>. DEFINE zero == [i \in S |-> 0]
<1>1. \A i \in S : zero[i] = 0
  OBVIOUS
<1>. HIDE DEF zero
<1>2. SumOver(zero, S) = 0 * Cardinality(S)
  BY <1>1, SumConstant
<1>3. SumOver(zero, S) = 0
  BY <1>2, FS_CardinalityType
<1>4. \A i \in S : zero[i] \in Int /\ f[i] \in Int /\ zero[i] <= f[i]
  BY <1>1
<1>5. /\ SumOver(zero, S) <= SumOver(f, S)
      /\ SumOver(zero, S) = SumOver(f, S) => \A i \in S : zero[i] = f[i]
  BY <1>4, SumMonotone
<1>6. SumOver(f, S) \in Int
  BY <1>4, SumInt
<1>7. zero[j] # f[j]
  BY <1>1
<1>. QED
  BY <1>3, <1>5, <1>6, <1>7

-----------------------------------------------------------------------------
(* Sums over sequences *)

(* Induction over the natural numbers, for a set of them. *)
LEMMA EveryNatural ==
  ASSUME NEW Holds, 0 \in Holds, \A n \in Nat : n \in Holds => n + 1 \in Holds
  PROVE  Nat \subseteq Holds
<1>1. SUFFICES ASSUME NEW m \in Nat, m \notin Holds PROVE FALSE
  OBVIOUS
<1>. DEFINE T == {1 .. k : k \in (0 .. m) \ Holds}
<1>2. T \subseteq SUBSET (1 .. m) /\ T # {} /\ IsFiniteSet(1 .. m)
  <2>1. 1 .. m \in T
    BY <1>1
  <2>2. IsFiniteSet(1 .. m)
    BY FS_Interval
  <2>3. T \subseteq SUBSET (1 .. m)
    OBVIOUS
  <2>. HIDE DEF T
  <2>. QED
    BY <2>1, <2>2, <2>3, Zenon
<1>3. PICK x \in T : \A y \in T : y \subseteq x => y = x
  <2>. HIDE DEF T
  <2>. DEFINE S == 1 .. m
  <2>1. T \subseteq SUBSET S /\ T # {} /\ IsFiniteSet(S)
    BY <1>2
  <2>. HIDE DEF S
  <2>. QED
    BY <2>1, SmallestSet
<1>4. PICK k \in (0 .. m) \ Holds : x = 1 .. k
  OBVIOUS
<1>5. k # 0
  BY <1>4
<1>6. k - 1 \notin Holds
  BY <1>4, <1>5
<1>7. 1 .. (k - 1) \in T
  BY <1>4, <1>5, <1>6
<1>8. 1 .. (k - 1) \subseteq x /\ k \in x /\ k \notin 1 .. (k - 1)
  BY <1>4, <1>5
<1>. QED
  BY <1>3, <1>7, <1>8

(* The sum over an interval, from its last quantity. *)
LEMMA SumInterval ==
  ASSUME NEW n \in Nat, NEW f, \A i \in 1 .. n + 1 : f[i] \in Int
  PROVE  /\ SumOver(f, 1 .. n + 1) = f[n + 1] + SumOver(f, 1 .. n)
         /\ SumOver(f, 1 .. n) \in Int
<1>. DEFINE S == 1 .. n + 1
            R == 1 .. n
            m == n + 1
<1>1. IsFiniteSet(S)
  BY FS_Interval
<1>2. S \ {m} = R /\ m \in S /\ R \in SUBSET S
  OBVIOUS
<1>3. Sums(f, S)
  <2>. HIDE DEF S
  <2>. QED
    BY <1>1, SumSteps DEF S
<1>. HIDE DEF S, R, m
<1>4. SumOver(f, S) = f[m] + SumOver(f, R) /\ SumOver(f, R) \in Int
  BY <1>2, <1>3 DEF Sums
<1>. QED
  BY <1>4 DEF S, R, m

(* What the elements of a sequence weigh together. *)
Weight(s, weigh) == SumOver([k \in DOMAIN s |-> weigh[s[k]]], DOMAIN s)

(* A sequence weighs an integer if its elements do. *)
LEMMA WeightIsInt ==
  ASSUME NEW X, NEW weigh, \A x \in X : weigh[x] \in Int, NEW s \in Seq(X)
  PROVE  Weight(s, weigh) \in Int
<1>1. IsFiniteSet(DOMAIN s) /\ \A k \in DOMAIN s : weigh[s[k]] \in Int
  BY LenProperties, FS_Interval, ElementOfSeq
<1>. DEFINE f == [k \in DOMAIN s |-> weigh[s[k]]]
<1>2. \A k \in DOMAIN s : f[k] \in Int
  BY <1>1
<1>. HIDE DEF f
<1>3. SumOver(f, DOMAIN s) \in Int
  BY <1>1, <1>2, SumInt
<1>. QED
  BY <1>3 DEF Weight, f

(* Two sequences together weigh what each does. *)
LEMMA WeightOfConcat ==
  ASSUME NEW X, NEW weigh, \A x \in X : weigh[x] \in Int, NEW s \in Seq(X), NEW t \in Seq(X)
  PROVE  Weight(s \o t, weigh) = Weight(s, weigh) + Weight(t, weigh)
<1>. DEFINE a == Len(s)
            b == Len(t)
            f == [k \in DOMAIN s |-> weigh[s[k]]]
            g == [k \in DOMAIN t |-> weigh[t[k]]]
            h == [k \in DOMAIN (s \o t) |-> weigh[(s \o t)[k]]]
            Holds == {n \in Nat : n <= b =>
                        SumOver(h, 1 .. a + n) = SumOver(f, 1 .. a) + SumOver(g, 1 .. n)}
<1>1. /\ a \in Nat /\ b \in Nat
      /\ DOMAIN s = 1 .. a /\ DOMAIN t = 1 .. b /\ DOMAIN (s \o t) = 1 .. a + b
      /\ \A i \in 1 .. a : s[i] \in X /\ (s \o t)[i] = s[i]
      /\ \A i \in 1 .. b : t[i] \in X /\ (s \o t)[a + i] = t[i]
  BY ConcatProperties, LenProperties, ElementOfSeq
<1>2. /\ \A i \in 1 .. a : f[i] \in Int /\ h[i] = f[i]
      /\ \A i \in 1 .. b : g[i] \in Int /\ h[a + i] = g[i]
  BY <1>1
<1>3. \A i \in 1 .. a + b : h[i] \in Int
  BY <1>1
<1>. HIDE DEF f, g, h, a, b
<1>8. IsFiniteSet(1 .. a)
  BY <1>1, FS_Interval
<1>9. \A i \in 1 .. a : f[i] \in Int
  BY <1>2
<1>10. SumOver(f, 1 .. a) \in Int
  BY <1>8, <1>9, SumInt
<1>4. 0 \in Holds
  <2>1. SumOver(h, 1 .. a) = SumOver(f, 1 .. a)
    <3>1. \A i \in 1 .. a : h[i] = f[i]
      BY <1>2
    <3>. QED
      BY <1>8, <3>1, SumSame
  <2>2. SumOver(f, 1 .. a) \in Int
    BY <1>10
  <2>3. SumOver(g, 1 .. 0) = 0
    BY SumEmpty
  <2>. QED
    BY <1>1, <2>1, <2>2, <2>3
<1>5. ASSUME NEW n \in Nat, n \in Holds PROVE n + 1 \in Holds
  <2>1. SUFFICES ASSUME n + 1 <= b
                 PROVE  SumOver(h, 1 .. a + (n + 1)) = SumOver(f, 1 .. a) + SumOver(g, 1 .. n + 1)
    OBVIOUS
  <2>2. SumOver(h, 1 .. a + n) = SumOver(f, 1 .. a) + SumOver(g, 1 .. n)
    BY <1>1, <1>5, <2>1
  <2>3. /\ SumOver(g, 1 .. n + 1) = g[n + 1] + SumOver(g, 1 .. n)
        /\ SumOver(g, 1 .. n) \in Int
    <3>1. \A i \in 1 .. n + 1 : g[i] \in Int
      BY <1>1, <1>2, <2>1
    <3>. QED
      BY <3>1, SumInterval
  <2>4. SumOver(h, 1 .. (a + n) + 1) = h[(a + n) + 1] + SumOver(h, 1 .. a + n)
    <3>1. a + n \in Nat /\ \A i \in 1 .. (a + n) + 1 : h[i] \in Int
      BY <1>1, <1>3, <2>1
    <3>. QED
      BY <3>1, SumInterval
  <2>5. h[(a + n) + 1] = g[n + 1] /\ g[n + 1] \in Int /\ (a + n) + 1 = a + (n + 1)
    <3>. DEFINE k == n + 1
    <3>1. k \in 1 .. b /\ (a + n) + 1 = a + k
      BY <1>1, <2>1
    <3>. HIDE DEF k
    <3>2. g[k] \in Int /\ h[a + k] = g[k]
      BY <1>2, <3>1
    <3>. QED
      BY <3>1, <3>2 DEF k
  <2>6. SumOver(f, 1 .. a) \in Int
    BY <1>10
  <2>. QED
    BY <2>2, <2>3, <2>4, <2>5, <2>6
<1>6. b \in Holds
  <2>. HIDE DEF Holds
  <2>. QED
    BY <1>1, <1>4, <1>5, EveryNatural
<1>7. SumOver(h, 1 .. a + b) = SumOver(f, 1 .. a) + SumOver(g, 1 .. b)
  BY <1>1, <1>6
<1>. QED
  BY <1>1, <1>7 DEF Weight, f, g, h

(* A flattened sequence, as FlattenSeq builds it. *)
Flattens(h, ss, m) ==
  h = [i \in 1 .. m |-> IF i = 1 THEN ss[i] ELSE h[i - 1] \o ss[i]]

(* Every sequence of sequences is flattened by some function. *)
LEMMA FlatteningExists == \A ss : \A m \in Nat : \E h : Flattens(h, ss, m)
<1>1. SUFFICES ASSUME NEW ss PROVE \A m \in Nat : \E h : Flattens(h, ss, m)
  OBVIOUS
<1>. DEFINE Holds == {m \in Nat : \E h : Flattens(h, ss, m)}
<1>2. 0 \in Holds
  <2>1. Flattens([i \in 1 .. 0 |-> <<>>], ss, 0)
    BY DEF Flattens
  <2>. QED
    BY <2>1
<1>3. ASSUME NEW m \in Nat, m \in Holds PROVE m + 1 \in Holds
  <2>1. PICK h : Flattens(h, ss, m)
    BY <1>3
  <2>. DEFINE last == IF m = 0 THEN ss[m + 1] ELSE h[m] \o ss[m + 1]
              g == [i \in 1 .. m + 1 |-> IF i = m + 1 THEN last ELSE h[i]]
  <2>2. h = [i \in 1 .. m |-> IF i = 1 THEN ss[i] ELSE h[i - 1] \o ss[i]]
    BY <2>1 DEF Flattens
  <2>3. \A i \in 1 .. m : h[i] = IF i = 1 THEN ss[i] ELSE h[i - 1] \o ss[i]
    BY <2>2
  <2>4. ASSUME NEW i \in 1 .. m + 1
        PROVE  g[i] = IF i = 1 THEN ss[i] ELSE g[i - 1] \o ss[i]
    <3>1. CASE i = m + 1 /\ m = 0
      BY <3>1
    <3>2. CASE i = m + 1 /\ m # 0
      <4>1. i - 1 = m /\ i # 1 /\ m \in 1 .. m + 1 /\ m # m + 1
        BY <3>2
      <4>2. g[m] = h[m]
        BY <4>1
      <4>3. g[i] = h[m] \o ss[i]
        BY <3>2
      <4>. QED
        BY <4>1, <4>2, <4>3
    <3>3. CASE i \in 1 .. m
      <4>1. g[i] = h[i] /\ (i # 1 => g[i - 1] = h[i - 1])
        BY <3>3
      <4>. QED
        BY <2>3, <3>3, <4>1
    <3>. QED
      BY <3>1, <3>2, <3>3
  <2>5. g = [i \in 1 .. m + 1 |-> g[i]]
    OBVIOUS
  <2>. HIDE DEF g
  <2>6. Flattens(g, ss, m + 1)
    BY <2>4, <2>5 DEF Flattens
  <2>. QED
    BY <2>6
<1>4. Nat \subseteq Holds
  <2>. HIDE DEF Holds
  <2>. QED
    BY <1>2, <1>3, EveryNatural
<1>. QED
  BY <1>4

(* A flattened sequence weighs what its parts do. *)
LEMMA WeightOfFlattened ==
  ASSUME NEW X, NEW ss \in Seq(Seq(X)), Len(ss) > 0
  PROVE  /\ FlattenSeq(ss) \in Seq(X)
         /\ \A weigh : (\A x \in X : weigh[x] \in Int) =>
              Weight(FlattenSeq(ss), weigh) =
                SumOver([i \in DOMAIN ss |-> Weight(ss[i], weigh)], DOMAIN ss)
<1>. DEFINE n == Len(ss)
            h == CHOOSE f : Flattens(f, ss, n)
<1>1. n \in Nat /\ n > 0 /\ DOMAIN ss = 1 .. n /\ \A i \in 1 .. n : ss[i] \in Seq(X)
  BY LenProperties, ElementOfSeq
<1>2. Flattens(h, ss, n)
  BY <1>1, FlatteningExists
<1>3. FlattenSeq(ss) = h[n]
  BY <1>1 DEF FlattenSeq, Flattens
<1>. HIDE DEF h, n
<1>4. \A i \in 1 .. n : h[i] = IF i = 1 THEN ss[i] ELSE h[i - 1] \o ss[i]
  <2>1. h = [i \in 1 .. n |-> IF i = 1 THEN ss[i] ELSE h[i - 1] \o ss[i]]
    BY <1>2 DEF Flattens
  <2>. QED
    BY <2>1
<1>5. \A i \in 1 .. n : h[i] \in Seq(X)
  <2>. DEFINE Holds == {m \in Nat : m \in 1 .. n => h[m] \in Seq(X)}
  <2>1. 0 \in Holds
    OBVIOUS
  <2>2. ASSUME NEW m \in Nat, m \in Holds PROVE m + 1 \in Holds
    <3>1. SUFFICES ASSUME m + 1 \in 1 .. n PROVE h[m + 1] \in Seq(X)
      OBVIOUS
    <3>2. CASE m = 0
      BY <1>1, <1>4, <3>1, <3>2
    <3>3. CASE m # 0
      <4>1. m \in 1 .. n /\ (m + 1) - 1 = m /\ m + 1 # 1
        BY <1>1, <3>1, <3>3
      <4>2. h[m + 1] = h[m] \o ss[m + 1]
        BY <1>4, <3>1, <4>1
      <4>. QED
        BY <1>1, <2>2, <3>1, <4>1, <4>2, ConcatProperties
    <3>. QED
      BY <3>2, <3>3
  <2>3. Nat \subseteq Holds
    <3>. HIDE DEF Holds
    <3>. QED
      BY <2>1, <2>2, EveryNatural
  <2>. QED
    BY <1>1, <2>3
<1>6. ASSUME NEW weigh, \A x \in X : weigh[x] \in Int
      PROVE  Weight(h[n], weigh) =
               SumOver([i \in DOMAIN ss |-> Weight(ss[i], weigh)], DOMAIN ss)
  <2>. DEFINE w == [i \in DOMAIN ss |-> Weight(ss[i], weigh)]
              Holds == {m \in Nat : m \in 1 .. n => Weight(h[m], weigh) = SumOver(w, 1 .. m)}
  <2>1. \A i \in 1 .. n : w[i] = Weight(ss[i], weigh) /\ w[i] \in Int
    BY <1>1, <1>6, WeightIsInt
  <2>. HIDE DEF w
  <2>2. 0 \in Holds
    OBVIOUS
  <2>3. ASSUME NEW m \in Nat, m \in Holds PROVE m + 1 \in Holds
    <3>1. SUFFICES ASSUME m + 1 \in 1 .. n PROVE Weight(h[m + 1], weigh) = SumOver(w, 1 .. m + 1)
      OBVIOUS
    <3>2. SumOver(w, 1 .. m + 1) = w[m + 1] + SumOver(w, 1 .. m) /\ SumOver(w, 1 .. m) \in Int
      <4>1. \A i \in 1 .. m + 1 : w[i] \in Int
        BY <1>1, <2>1, <3>1
      <4>. QED
        BY <4>1, SumInterval
    <3>3. w[m + 1] = Weight(ss[m + 1], weigh) /\ w[m + 1] \in Int
      BY <2>1, <3>1
    <3>4. CASE m = 0
      <4>1. h[m + 1] = ss[m + 1]
        BY <1>4, <3>1, <3>4
      <4>2. SumOver(w, 1 .. m) = 0
        BY <3>4, SumEmpty
      <4>. QED
        BY <3>2, <3>3, <4>1, <4>2
    <3>5. CASE m # 0
      <4>1. m \in 1 .. n /\ (m + 1) - 1 = m /\ m + 1 # 1
        BY <1>1, <3>1, <3>5
      <4>2. h[m + 1] = h[m] \o ss[m + 1]
        BY <1>4, <3>1, <4>1
      <4>3. Weight(h[m + 1], weigh) = Weight(h[m], weigh) + Weight(ss[m + 1], weigh)
        BY <1>1, <1>5, <1>6, <3>1, <4>1, <4>2, WeightOfConcat
      <4>4. Weight(h[m], weigh) = SumOver(w, 1 .. m)
        BY <2>3, <4>1
      <4>. QED
        BY <3>2, <3>3, <4>3, <4>4
    <3>. QED
      BY <3>4, <3>5
  <2>4. Nat \subseteq Holds
    <3>. HIDE DEF Holds
    <3>. QED
      BY <2>2, <2>3, EveryNatural
  <2>5. Weight(h[n], weigh) = SumOver(w, 1 .. n)
    BY <1>1, <2>4
  <2>. QED
    BY <1>1, <2>5 DEF w
<1>7. FlattenSeq(ss) \in Seq(X)
  BY <1>1, <1>3, <1>5
<1>8. ASSUME NEW weigh, \A x \in X : weigh[x] \in Int
      PROVE  Weight(FlattenSeq(ss), weigh) =
               SumOver([i \in DOMAIN ss |-> Weight(ss[i], weigh)], DOMAIN ss)
  BY <1>3, <1>6, <1>8, Zenon
<1>. QED
  BY <1>7, <1>8, Zenon

-----------------------------------------------------------------------------
(* Counts, means and ratios *)

(* Factorials, up to m or all of them. *)
Product(f, i) == IF i = 0 THEN 1 ELSE i * f[i - 1]

Factorials(f, S) == f = [i \in S |-> Product(f, i)]

LEMMA FactorialsAre ==
  ASSUME NEW f, NEW S, S \subseteq Nat, Factorials(f, S)
  PROVE  \A i \in S : f[i] = Product(f, i)
<1>1. f = [i \in S |-> Product(f, i)]
  BY DEF Factorials
<1>. QED
  BY <1>1

(* Two functions that count up factorials agree where both do. *)
LEMMA FactorialsAgree ==
  ASSUME NEW m \in Nat, NEW n \in Nat, NEW f, NEW g,
         Factorials(f, 0 .. m), Factorials(g, 0 .. n)
  PROVE  \A i \in Nat : i <= m /\ i <= n => f[i] = g[i]
<1>. DEFINE Holds == {i \in Nat : i <= m /\ i <= n => f[i] = g[i]}
<1>1. \A i \in 0 .. m : f[i] = Product(f, i)
  BY FactorialsAre
<1>2. \A i \in 0 .. n : g[i] = Product(g, i)
  BY FactorialsAre
<1>3. 0 \in Holds
  BY <1>1, <1>2 DEF Product
<1>4. ASSUME NEW i \in Nat, i \in Holds PROVE i + 1 \in Holds
  <2>1. SUFFICES ASSUME i + 1 <= m, i + 1 <= n PROVE f[i + 1] = g[i + 1]
    OBVIOUS
  <2>. DEFINE k == i + 1
  <2>2. k \in 0 .. m /\ k \in 0 .. n /\ k # 0 /\ k - 1 = i /\ f[i] = g[i]
    BY <1>4, <2>1
  <2>. HIDE DEF k
  <2>3. f[k] = k * f[i] /\ g[k] = k * g[i]
    BY <1>1, <1>2, <2>2 DEF Product
  <2>. QED
    BY <2>2, <2>3 DEF k
<1>5. Nat \subseteq Holds
  <2>. HIDE DEF Holds
  <2>. QED
    BY <1>3, <1>4, EveryNatural
<1>. QED
  BY <1>5

(* Up to any number, some function is the factorial. *)
LEMMA FactorialsExist == \A m \in Nat : \E f : Factorials(f, 0 .. m)
<1>. DEFINE Holds == {m \in Nat : \E f : Factorials(f, 0 .. m)}
<1>1. 0 \in Holds
  <2>1. Factorials([i \in 0 .. 0 |-> 1], 0 .. 0)
    BY DEF Factorials, Product
  <2>. QED
    BY <2>1
<1>2. ASSUME NEW m \in Nat, m \in Holds PROVE m + 1 \in Holds
  <2>1. PICK f : Factorials(f, 0 .. m)
    BY <1>2
  <2>2. \A i \in 0 .. m : f[i] = Product(f, i)
    BY <2>1, FactorialsAre
  <2>. DEFINE g == [i \in 0 .. m + 1 |-> IF i = m + 1 THEN (m + 1) * f[m] ELSE f[i]]
  <2>3. ASSUME NEW i \in 0 .. m + 1 PROVE g[i] = Product(g, i)
    <3>1. CASE i = m + 1
      <4>1. g[i] = (m + 1) * f[m] /\ g[i - 1] = f[m] /\ i # 0
        BY <3>1
      <4>. HIDE DEF g
      <4>. QED
        BY <3>1, <4>1 DEF Product
    <3>2. CASE i \in 0 .. m
      <4>1. g[i] = f[i] /\ (i # 0 => g[i - 1] = f[i - 1])
        BY <3>2
      <4>. HIDE DEF g
      <4>. QED
        BY <2>2, <3>2, <4>1 DEF Product
    <3>. QED
      BY <3>1, <3>2
  <2>4. g = [i \in 0 .. m + 1 |-> g[i]]
    OBVIOUS
  <2>. HIDE DEF g
  <2>5. Factorials(g, 0 .. m + 1)
    BY <2>3, <2>4 DEF Factorials
  <2>. QED
    BY <2>5
<1>3. Nat \subseteq Holds
  <2>. HIDE DEF Holds
  <2>. QED
    BY <1>1, <1>2, EveryNatural
<1>. QED
  BY <1>3

(* The recursive definition of the factorial has that solution. *)
LEMMA FactorialOf == Factorials(factorial, Nat)
<1>. DEFINE F(m) == CHOOSE f : Factorials(f, 0 .. m)
            g == [m \in Nat |-> F(m)[m]]
<1>1. ASSUME NEW m \in Nat PROVE Factorials(F(m), 0 .. m)
  BY FactorialsExist
<1>. HIDE DEF F
<1>2. ASSUME NEW m \in Nat PROVE g[m] = Product(g, m)
  <2>1. F(m)[m] = Product(F(m), m)
    <3>1. \A i \in 0 .. m : F(m)[i] = Product(F(m), i)
      BY <1>1, FactorialsAre
    <3>. QED
      BY <3>1
  <2>2. CASE m = 0
    BY <2>1, <2>2 DEF Product
  <2>3. CASE m # 0
    <3>. DEFINE k == m - 1
    <3>1. k \in Nat /\ k <= m /\ k <= k
      BY <2>3
    <3>. HIDE DEF k
    <3>2. F(m)[k] = F(k)[k]
      BY <1>1, <3>1, FactorialsAgree
    <3>3. g[m] = m * g[k]
      BY <2>1, <2>3, <3>1, <3>2 DEF Product, k
    <3>. QED
      BY <2>3, <3>3 DEF Product, k
  <2>. QED
    BY <2>2, <2>3
<1>3. g = [m \in Nat |-> g[m]]
  OBVIOUS
<1>. HIDE DEF g
<1>4. Factorials(g, Nat)
  BY <1>2, <1>3 DEF Factorials
<1>5. g = [m \in Nat |-> IF m = 0 THEN 1 ELSE m * g[m - 1]]
  BY <1>4 DEF Factorials, Product
<1>6. factorial = [m \in Nat |-> IF m = 0 THEN 1 ELSE m * factorial[m - 1]]
  BY <1>5 DEF factorial
<1>. QED
  BY <1>6 DEF Factorials, Product

(* A factorial is above zero, and a binomial coefficient a count. *)
LEMMA FactorialType == \A n \in Nat : factorial[n] \in Nat \ {0}
<1>. DEFINE Holds == {n \in Nat : factorial[n] \in Nat \ {0}}
<1>1. \A n \in Nat : factorial[n] = Product(factorial, n)
  BY FactorialOf, FactorialsAre
<1>2. 0 \in Holds
  BY <1>1 DEF Product
<1>3. ASSUME NEW n \in Nat, n \in Holds PROVE n + 1 \in Holds
  <2>. DEFINE k == n + 1
  <2>1. k \in Nat \ {0} /\ k - 1 = n
    OBVIOUS
  <2>. HIDE DEF k
  <2>2. factorial[k] = k * factorial[n]
    BY <1>1, <2>1 DEF Product
  <2>3. factorial[n] \in Nat \ {0}
    BY <1>3
  <2>4. \A a, b \in Nat \ {0} : a * b \in Nat \ {0}
    OBVIOUS
  <2>5. factorial[k] \in Nat \ {0}
    BY <2>1, <2>2, <2>3, <2>4
  <2>. QED
    BY <2>1, <2>5 DEF k
<1>4. Nat \subseteq Holds
  <2>. HIDE DEF Holds
  <2>. QED
    BY <1>2, <1>3, EveryNatural
<1>. QED
  BY <1>4

LEMMA ChooseType == \A n \in Nat : \A k \in 0 .. n : choose(n, k) \in Nat
<1>. SUFFICES ASSUME NEW n \in Nat, NEW k \in 0 .. n PROVE choose(n, k) \in Nat
   OBVIOUS
<1>1. /\ factorial[n] \in Nat \ {0} /\ factorial[k] \in Nat \ {0}
      /\ factorial[n - k] \in Nat \ {0}
  BY FactorialType
<1>2. \A a, b, c \in Nat \ {0} : a \div (b * c) \in Nat
  <2>1. \A a, b \in Nat \ {0} : a \div b \in Nat
    OBVIOUS
  <2>2. \A a, b \in Nat \ {0} : a * b \in Nat \ {0}
    OBVIOUS
  <2>. QED
    BY <2>1, <2>2
<1>. QED
  BY <1>1, <1>2 DEF choose

(* Powers of two. *)
LEMMA PowerPositive == \A n \in Nat : 2 ^ n > 0
<1>. SUFFICES ASSUME NEW n \in Nat PROVE 2 ^ n > 0
   OBVIOUS
<1>1. IsFiniteSet(1 .. n) /\ Cardinality(1 .. n) = n
  BY FS_Interval
<1>2. IsFiniteSet(SUBSET (1 .. n)) /\ Cardinality(SUBSET (1 .. n)) = 2 ^ n
  BY <1>1, FS_SUBSET, Zenon
<1>. DEFINE S == SUBSET (1 .. n)
<1>3. S # {}
  OBVIOUS
<1>4. IsFiniteSet(S) /\ Cardinality(S) = 2 ^ n
  BY <1>2
<1>. HIDE DEF S
<1>5. Cardinality(S) # 0 /\ Cardinality(S) \in Nat
  BY <1>3, <1>4, FS_CardinalityType, FS_EmptySet
<1>. QED
  BY <1>4, <1>5

LEMMA PowerNat == \A n \in Nat : 2 ^ n \in Nat
<1>. SUFFICES ASSUME NEW n \in Nat PROVE 2 ^ n \in Nat
   OBVIOUS
<1>1. IsFiniteSet(1 .. n) /\ Cardinality(1 .. n) = n
  BY FS_Interval
<1>2. IsFiniteSet(SUBSET (1 .. n)) /\ Cardinality(SUBSET (1 .. n)) = 2 ^ n
  BY <1>1, FS_SUBSET, Zenon
<1>. QED
  BY <1>2, FS_CardinalityType

(* A rounded mean is within a half of the mean, and has its sign. *)
LEMMA Rounded ==
  ASSUME NEW t \in Int, NEW n \in Nat \ {0}
  PROVE  /\ MeanOf(t, n) \in Int
         /\ 2 * (n * MeanOf(t, n)) <= 2 * t + n
         /\ 2 * (n * MeanOf(t, n)) >= 2 * t - n
         /\ t >= 0 => 2 * (n * MeanOf(t, n)) > 2 * t - n /\ MeanOf(t, n) >= 0
         /\ t <= 0 => 2 * (n * MeanOf(t, n)) < 2 * t + n /\ MeanOf(t, n) <= 0
<1>. DEFINE a == IF t < 0 THEN -t ELSE t
            q == (2 * a + n) \div (2 * n)
<1>1. a \in Nat
  OBVIOUS
<1>2. q \in Nat /\ (2 * n) * q <= 2 * a + n /\ 2 * a + n < (2 * n) * q + 2 * n
  <2>. HIDE DEF a
  <2>1. ASSUME NEW x \in Nat, NEW d \in Nat \ {0}
        PROVE  x \div d \in Nat /\ d * (x \div d) <= x /\ x < d * (x \div d) + d
    OBVIOUS
  <2>2. 2 * a + n \in Nat /\ 2 * n \in Nat \ {0}
    BY <1>1
  <2>. QED
    BY <2>1, <2>2
<1>3. MeanOf(t, n) = IF t < 0 THEN -q ELSE q
  BY DEF MeanOf
<1>. HIDE DEF q
<1>4. (2 * n) * q = 2 * (n * q) /\ n * (-q) = -(n * q) /\ n * q \in Nat
  BY <1>2
<1>5. CASE t < 0
  <2>1. a = -t /\ MeanOf(t, n) = -q /\ n * MeanOf(t, n) = -(n * q)
    BY <1>3, <1>4, <1>5
  <2>. HIDE DEF a
  <2>. QED
    BY <1>2, <1>4, <1>5, <2>1
<1>6. CASE t >= 0
  <2>1. a = t /\ MeanOf(t, n) = q
    BY <1>3, <1>6
  <2>2. t = 0 => q = 0
    <3>1. ASSUME q >= 1 PROVE n * q >= n
      BY <3>1, <1>2
    <3>2. t = 0 => 2 * (n * q) <= n
      BY <1>2, <1>4, <2>1
    <3>. QED
      BY <1>2, <3>1, <3>2
  <2>. HIDE DEF a
  <2>. QED
    BY <1>2, <1>4, <1>6, <2>1, <2>2
<1>. QED
  BY <1>5, <1>6

(* Where means are a whole apart, rounding keeps their order. *)
LEMMA RoundingKeepsOrder ==
  ASSUME NEW s \in Int, NEW t \in Int, NEW n \in Nat \ {0}, s + n <= t
  PROVE  MeanOf(s, n) < MeanOf(t, n)
<1>. DEFINE p == MeanOf(s, n)
            q == MeanOf(t, n)
<1>1. /\ p \in Int /\ q \in Int
      /\ 2 * (n * p) <= 2 * s + n /\ 2 * (n * q) >= 2 * t - n
      /\ t >= 0 => 2 * (n * q) > 2 * t - n
      /\ s <= 0 => 2 * (n * p) < 2 * s + n
  BY Rounded
<1>2. n * p < n * q
  <2>1. n * p \in Int /\ n * q \in Int
    BY <1>1
  <2>. HIDE DEF p, q
  <2>. QED
    BY <1>1, <2>1
<1>3. ASSUME q <= p PROVE n * q <= n * p
  BY <1>1, <1>3
<1>. HIDE DEF p, q
<1>. QED
  BY <1>1, <1>2, <1>3 DEF p, q

(* The lesser of two integers. *)
LEMMA MinOfTwo ==
  ASSUME NEW a \in Int, NEW b \in Int
  PROVE  Min({a, b}) = IF a <= b THEN a ELSE b
<1>1. PICK m : m = IF a <= b THEN a ELSE b
  OBVIOUS
<1>2. m \in {a, b} /\ (\A y \in {a, b} : m <= y)
  BY <1>1
<1>3. \A x \in {a, b} : (\A y \in {a, b} : x <= y) => x = m
  BY <1>2
<1>. QED
  BY <1>1, <1>2, <1>3 DEF Min

LowerTail(n, losses) == SumFunction([i \in 0 .. losses |-> choose(n, i)])

(* The tail of a binomial distribution is a count. *)
LEMMA TailType ==
  ASSUME NEW n \in Nat, NEW losses \in 0 .. n
  PROVE  LowerTail(n, losses) \in Int
<1>. DEFINE S == 0 .. losses
            f == [i \in S |-> choose(n, i)]
<1>1. IsFiniteSet(S)
  BY FS_Interval
<1>2. \A i \in S : f[i] \in Int
  <2>1. \A i \in S : i \in 0 .. n
    OBVIOUS
  <2>. QED
    BY <2>1, ChooseType
<1>3. DOMAIN f = S
  OBVIOUS
<1>. HIDE DEF S, f
<1>4. SumOver(f, S) \in Int
  BY <1>1, <1>2, SumInt
<1>. QED
  BY <1>3, <1>4, SumOfFunction DEF LowerTail, S, f

(* The sign test, compared with a level below one. *)
LEMMA SignTestBelow ==
  ASSUME NEW wins \in Nat, NEW losses \in Nat, wins > losses,
         NEW a \in Nat, NEW b \in Nat, 0 < a, a < b
  PROVE  /\ SignTest(wins, losses) # NoTest
         /\ SignTest(wins, losses).p * b < a * SignTest(wins, losses).of
              <=> 2 * LowerTail(wins + losses, losses) * b < a * 2 ^ (wins + losses)
<1>. DEFINE n == wins + losses
            all == 2 ^ n
            t == LowerTail(n, losses)
<1>1. n \in Nat /\ n # 0 /\ losses \in 0 .. n
  OBVIOUS
<1>2. all \in Nat
  BY <1>1, PowerNat
<1>3. t \in Int
  BY <1>1, TailType
<1>4. Min({wins, losses}) = losses
  BY MinOfTwo
<1>5. SignTest(wins, losses) = [p |-> Min({all, 2 * t}), of |-> all]
  BY <1>1, <1>4 DEF SignTest, LowerTail
<1>. HIDE DEF all, t
<1>6. Min({all, 2 * t}) = IF all <= 2 * t THEN all ELSE 2 * t
  BY <1>2, <1>3, MinOfTwo
<1>. DEFINE p == Min({all, 2 * t})
<1>7. SignTest(wins, losses).p = p /\ SignTest(wins, losses).of = all
  BY <1>5
<1>8. SignTest(wins, losses) # NoTest
  <2>1. CASE all # 0
    BY <1>5, <2>1 DEF NoTest
  <2>2. CASE all = 0
    <3>1. all > 0
      BY <1>1, PowerPositive DEF all
    <3>. QED
      BY <1>2, <2>2, <3>1
  <2>. QED
    BY <2>1, <2>2
<1>9. p * b < a * all <=> 2 * t * b < a * all
  <2>1. all * b >= a * all
    <3>1. \A x \in Nat : x * b >= a * x
      OBVIOUS
    <3>. QED
      BY <1>2, <3>1
  <2>2. CASE all <= 2 * t
    <3>1. \A x, y \in Int : x <= y => x * b <= y * b
      OBVIOUS
    <3>2. p = all /\ all * b <= (2 * t) * b
      BY <1>2, <1>3, <1>6, <2>2, <3>1
    <3>3. \A x, y, z \in Int : x >= z /\ x <= y => (x < z <=> y < z)
      OBVIOUS
    <3>4. all * b \in Int /\ a * all \in Int /\ (2 * t) * b \in Int
      BY <1>2, <1>3
    <3>. HIDE DEF p
    <3>. QED
      BY <2>1, <3>2, <3>3, <3>4
  <2>3. CASE ~ (all <= 2 * t)
    BY <1>6, <2>3
  <2>. QED
    BY <2>2, <2>3
<1>. HIDE DEF p
<1>. QED
  BY <1>7, <1>8, <1>9 DEF all, t

(* What a factor above zero does to an order. *)
LEMMA Scaled ==
  \A x, y \in Int : \A n \in Nat \ {0} :
    /\ n * x <= n * y <=> x <= y
    /\ n * x < n * y <=> x < y
<1>. SUFFICES ASSUME NEW x \in Int, NEW y \in Int, NEW n \in Nat \ {0}
              PROVE  /\ n * x <= n * y <=> x <= y
                     /\ n * x < n * y <=> x < y
   OBVIOUS
<1>1. x <= y => n * x <= n * y
  OBVIOUS
<1>2. x < y => n * x < n * y
  OBVIOUS
<1>3. y <= x => n * y <= n * x
  OBVIOUS
<1>4. y < x => n * y < n * x
  OBVIOUS
<1>5. n * x \in Int /\ n * y \in Int
  OBVIOUS
<1>. QED
  BY <1>1, <1>2, <1>3, <1>4, <1>5

(* A rounded ratio against a limit of six decimals: where the denominator is not
   too large, rounding decides nothing. *)
LEMMA RoundedRatio ==
  ASSUME NEW n \in Nat, NEW d \in Nat \ {0}, NEW p \in Nat, NEW q \in Nat \ {0},
         (Million * p) % q = 0, d * q <= 2 * Million
  PROVE  AtMost(n, d, <<p, q>>) <=> n * q <= p * d
<1>. DEFINE M == Million
            T == (M * p) \div q
            r == MeanOf(M * n, d)
<1>1. M \in Nat \ {0}
  BY DEF Million
<1>2. T \in Nat /\ M * p = q * T
  <2>1. \A x \in Nat : x \div q \in Nat /\ (x % q = 0 => x = q * (x \div q))
    OBVIOUS
  <2>2. M * p \in Nat
    BY <1>1
  <2>. HIDE DEF M
  <2>. QED
    BY <2>1, <2>2 DEF M
<1>3. M * n \in Nat
  BY <1>1
<1>4. /\ r \in Int /\ 2 * (d * r) <= 2 * (M * n) + d
      /\ 2 * (d * r) > 2 * (M * n) - d
  <2>1. M * n \in Int /\ M * n >= 0
    BY <1>3
  <2>. HIDE DEF M
  <2>. QED
    BY <2>1, Rounded
<1>5. AtMost(n, d, <<p, q>>) <=> r * q <= p * M
  BY DEF AtMost
<1>. HIDE DEF M, T, r
<1>6. AtMost(n, d, <<p, q>>) <=> r <= T
  <2>1. r * q = q * r /\ p * M = q * T
    BY <1>1, <1>2, <1>4
  <2>2. q * r <= q * T <=> r <= T
    BY <1>2, <1>4, Scaled
  <2>. QED
    BY <1>5, <2>1, <2>2
<1>7. PICK x \in Int : x = M * n - d * T
  BY <1>2, <1>3
<1>8. q * x = M * (n * q - p * d)
  <2>1. q * x = q * (M * n) - q * (d * T)
    BY <1>2, <1>3, <1>7
  <2>2. q * (d * T) = d * (q * T)
    BY <1>2
  <2>3. d * (M * p) = M * (p * d)
    BY <1>1
  <2>4. q * (M * n) = M * (n * q)
    BY <1>1
  <2>5. \A u, v \in Int : M * u - M * v = M * (u - v)
    BY <1>1
  <2>6. n * q \in Int /\ p * d \in Int
    OBVIOUS
  <2>. QED
    BY <1>2, <2>1, <2>2, <2>3, <2>4, <2>5, <2>6
<1>9. PICK y \in Int : y = n * q - p * d
  OBVIOUS
<1>10. PICK e \in Int : e = d * r /\ d * T \in Int
  BY <1>2, <1>4
<1>11. d * r - d * T = d * (r - T)
  BY <1>2, <1>4
<1>12. CASE y <= 0
  <2>1. M * y <= 0
    BY <1>1, <1>12
  <2>2. x <= 0
    <3>1. q * x <= q * 0
      BY <1>8, <1>9, <2>1
    <3>. QED
      BY <1>7, <3>1, Scaled
  <2>3. 2 * (d * (r - T)) <= d
    BY <1>3, <1>4, <1>7, <1>10, <1>11, <2>2
  <2>4. ~ (r - T >= 1)
    <3>1. ASSUME r - T >= 1 PROVE d * (r - T) >= d
      BY <1>2, <1>4, <3>1
    <3>2. d * (r - T) \in Int
      BY <1>2, <1>4
    <3>. QED
      BY <2>3, <3>1, <3>2
  <2>5. n * q <= p * d
    <3>1. n * q \in Int /\ p * d \in Int
      OBVIOUS
    <3>. QED
      BY <1>9, <1>12, <3>1
  <2>. QED
    BY <1>2, <1>4, <1>6, <2>4, <2>5
<1>13. CASE y >= 1
  <2>1. M * y >= M
    BY <1>1, <1>13
  <2>2. q * x >= M
    BY <1>8, <1>9, <2>1
  <2>3. d <= 2 * x
    <3>1. q * d <= q * (2 * x)
      <4>1. q * (2 * x) = 2 * (q * x) /\ q * d = d * q /\ q * x \in Int /\ d * q \in Int
        BY <1>7
      <4>. QED
        BY <1>1, <2>2, <4>1 DEF M
    <3>. QED
      BY <1>7, <3>1, Scaled
  <2>4. 2 * (d * (r - T)) > 0
    BY <1>3, <1>4, <1>7, <1>10, <1>11, <2>3
  <2>5. ~ (r - T <= 0)
    <3>1. ASSUME r - T <= 0 PROVE d * (r - T) <= 0
      BY <1>2, <1>4, <3>1
    <3>2. d * (r - T) \in Int
      BY <1>2, <1>4
    <3>. QED
      BY <2>4, <3>1, <3>2
  <2>6. ~ (n * q <= p * d)
    <3>1. n * q \in Int /\ p * d \in Int
      OBVIOUS
    <3>. QED
      BY <1>9, <1>13, <3>1
  <2>. QED
    BY <1>2, <1>4, <1>6, <2>5, <2>6
<1>. QED
  BY <1>9, <1>12, <1>13

-----------------------------------------------------------------------------
(* The tables of trials that are observed *)

ObservedTables == Tables \cup WholeTables
TableLength == Len(Suite) * Repetitions
ObservedTrials == {table[i] : table \in ObservedTables, i \in 1 .. TableLength}
Observations == {x \in [status : Statuses, tokens : Nat] : x.status = "reported" => x.tokens > 0}
CaseSet == {Suite[(i - 1) \div Repetitions + 1] : i \in 1 .. TableLength}

(* A function over an interval from one is a sequence. *)
LEMMA ASequence ==
  ASSUME NEW X, NEW n \in Nat, NEW s, s = [i \in 1 .. n |-> s[i]], \A i \in 1 .. n : s[i] \in X
  PROVE  s \in Seq(X) /\ Len(s) = n /\ DOMAIN s = 1 .. n
<1>1. s \in [1 .. n -> X]
  <2>1. [i \in 1 .. n |-> s[i]] \in [1 .. n -> X]
    OBVIOUS
  <2>. QED
    BY <2>1, Zenon
<1>2. s \in Seq(X)
  BY <1>1
<1>3. Len(s) \in Nat /\ DOMAIN s = 1 .. Len(s)
  BY <1>2, LenProperties
<1>4. DOMAIN s = 1 .. n
  BY <1>1
<1>5. Len(s) = n
  BY <1>3, <1>4
<1>. QED
  BY <1>2, <1>4, <1>5

(* The suite and the repetitions of a case. *)
LEMMA SuiteShape ==
  /\ Len(Suite) \in Nat \ {0} /\ Repetitions \in Nat \ {0}
  /\ TableLength \in Nat \ {0}
<1>1. Suite \in Seq(DOMAIN Domain) /\ Suite # <<>>
  BY SuiteAssumption
<1>2. Len(Suite) \in Nat \ {0}
  BY <1>1, EmptySeq
<1>3. Repetitions \in Nat \ {0}
  BY RepetitionsAssumption
<1>4. \A a, b \in Nat \ {0} : a * b \in Nat \ {0}
  OBVIOUS
<1>. QED
  BY <1>2, <1>3, <1>4 DEF TableLength

(* The slots of the protocol. *)
LEMMA SlotShape ==
  /\ Len(Slots) \in Nat \ {0} /\ SlotIndices = 1 .. Len(Slots)
  /\ IsFiniteSet(SlotIndices) /\ Cardinality(SlotIndices) = Len(Slots)
<1>1. Slots \in Seq(Range(Slots)) /\ Criteria.minPositive \in 1 .. Len(Slots)
  BY CriteriaAssumption
<1>2. Len(Slots) \in Nat /\ DOMAIN Slots = 1 .. Len(Slots)
  BY <1>1, LenProperties
<1>3. Len(Slots) # 0
  BY <1>1
<1>4. IsFiniteSet(1 .. Len(Slots)) /\ Cardinality(1 .. Len(Slots)) = Len(Slots)
  <2>1. \A n \in Nat : IsFiniteSet(1 .. n) /\ Cardinality(1 .. n) = n
    BY FS_Interval
  <2>. QED
    BY <1>2, <2>1
<1>. QED
  BY <1>2, <1>3, <1>4 DEF SlotIndices

(* A table holds a possible trial of each case in each repetition. *)
LEMMA TableShape ==
  ASSUME NEW table \in ObservedTables
  PROVE  /\ DOMAIN table = 1 .. TableLength /\ Len(table) = TableLength
         /\ table \in Seq(ObservedTrials)
         /\ \A i \in 1 .. TableLength :
              table[i].case = Suite[(i - 1) \div Repetitions + 1] /\ PossibleTrial(table[i])
<1>1. /\ table = [i \in 1 .. TableLength |-> table[i]]
      /\ \A i \in DOMAIN table : /\ table[i].case = Suite[(i - 1) \div Repetitions + 1]
                                 /\ PossibleTrial(table[i])
  BY TrialsArePossible DEF ObservedTables, TableLength
<1>2. \A i \in 1 .. TableLength : table[i] \in ObservedTrials
  BY DEF ObservedTrials
<1>3. table \in Seq(ObservedTrials) /\ Len(table) = TableLength /\ DOMAIN table = 1 .. TableLength
  BY <1>1, <1>2, SuiteShape, ASequence
<1>. QED
  BY <1>1, <1>3

(* What is known of a trial in a table. *)
LEMMA TrialShape ==
  ASSUME NEW t \in ObservedTrials
  PROVE  /\ \A c \in Conditions : /\ Possible(t.on[c])
                                  /\ t.on[c].records \in Seq(Observations)
                                  /\ Len(t.on[c].records) \in Nat /\ t.on[c].calls \in Nat
                                  /\ Len(t.on[c].records) <= t.on[c].calls
         /\ ~t.on["dohaa"].regressed
<1>1. PossibleTrial(t)
  <2>1. PICK table \in ObservedTables, i \in 1 .. TableLength : t = table[i]
    BY DEF ObservedTrials
  <2>. QED
    BY <2>1, TableShape
<1>2. ASSUME NEW c \in Conditions
      PROVE  /\ Possible(t.on[c])
             /\ t.on[c].records \in Seq(Observations)
             /\ Len(t.on[c].records) \in Nat /\ t.on[c].calls \in Nat
             /\ Len(t.on[c].records) <= t.on[c].calls
  <2>1. Possible(t.on[c])
    BY <1>1 DEF PossibleTrial
  <2>. DEFINE records == t.on[c].records
  <2>2. /\ records \in Seq([status : Statuses, tokens : Nat]) /\ t.on[c].calls \in Nat
        /\ \A record \in Range(records) : record.status = "reported" => record.tokens > 0
        /\ Len(t.on[c].records) <= t.on[c].calls
    BY <2>1 DEF Possible
  <2>4. records \in Seq(Observations)
    <3>. HIDE DEF records
    <3>1. records \in Seq(Range(records))
      BY <2>2, SeqOfRange
    <3>2. Range(records) \in SUBSET [status : Statuses, tokens : Nat]
      BY <2>2, RangeOfSeq
    <3>3. Range(records) \subseteq Observations
      BY <2>2, <3>2 DEF Observations
    <3>. QED
      BY <3>1, <3>3, SeqMonotonic
  <2>3. Len(t.on[c].records) \in Nat
    BY <2>4, LenProperties
  <2>. QED
    BY <2>1, <2>2, <2>3, <2>4
<1>. QED
  BY <1>1, <1>2 DEF PossibleTrial

(* The cases of a table are those of the suite. *)
LEMMA CaseShape ==
  /\ IsFiniteSet(CaseSet) /\ Cardinality(CaseSet) \in 1 .. Len(Suite)
  /\ \A table \in ObservedTables : Cases(table) = CaseSet
<1>1. CaseSet \subseteq Range(Suite)
  <2>1. ASSUME NEW i \in 1 .. TableLength PROVE (i - 1) \div Repetitions + 1 \in 1 .. Len(Suite)
    <3>1. \A n, r \in Nat \ {0} : \A j \in 1 .. n * r : (j - 1) \div r + 1 \in 1 .. n
      <4>1. SUFFICES ASSUME NEW n \in Nat \ {0}, NEW r \in Nat \ {0}, NEW j \in 1 .. n * r
                     PROVE  (j - 1) \div r + 1 \in 1 .. n
        OBVIOUS
      <4>2. PICK q \in Int : q = (j - 1) \div r
        OBVIOUS
      <4>3. q >= 0 /\ r * q <= j - 1
        <5>1. \A x \in Nat : x \div r \in Nat /\ r * (x \div r) <= x
          OBVIOUS
        <5>2. j - 1 \in Nat
          OBVIOUS
        <5>. QED
          BY <4>2, <5>1, <5>2
      <4>4. ~ (q >= n)
        <5>1. ASSUME q >= n PROVE r * q >= r * n
          BY <4>2, <5>1
        <5>2. r * n = n * r /\ n * r \in Int /\ r * q \in Int
          BY <4>2
        <5>. QED
          BY <4>3, <5>1, <5>2
      <4>. QED
        BY <4>2, <4>3, <4>4
    <3>. QED
      BY <3>1, SuiteShape DEF TableLength
  <2>2. DOMAIN Suite = 1 .. Len(Suite)
    BY SuiteAssumption, LenProperties
  <2>. QED
    BY <2>1, <2>2 DEF CaseSet, Range
<1>2. IsFiniteSet(Range(Suite)) /\ Cardinality(Range(Suite)) <= Len(Suite)
  <2>1. DOMAIN Suite = 1 .. Len(Suite) /\ Suite \in [1 .. Len(Suite) -> DOMAIN Domain]
    BY SuiteAssumption, LenProperties
  <2>2. Suite \in Surjection(1 .. Len(Suite), Range(Suite))
    BY <2>1 DEF Surjection, Range
  <2>3. IsFiniteSet(1 .. Len(Suite)) /\ Cardinality(1 .. Len(Suite)) = Len(Suite)
    BY SuiteShape, FS_Interval
  <2>. QED
    BY <2>2, <2>3, FS_Surjection
<1>3. CaseSet # {}
  <2>1. 1 \in 1 .. TableLength
    BY SuiteShape
  <2>. QED
    BY <2>1 DEF CaseSet
<1>4. IsFiniteSet(CaseSet) /\ Cardinality(CaseSet) <= Cardinality(Range(Suite))
  BY <1>1, <1>2, FS_Subset
<1>5. Cardinality(CaseSet) \in Nat /\ Cardinality(CaseSet) # 0
  BY <1>3, <1>4, FS_CardinalityType, FS_EmptySet
<1>6. Cardinality(CaseSet) \in 1 .. Len(Suite)
  <2>1. Cardinality(Range(Suite)) \in Nat
    BY <1>2, FS_CardinalityType
  <2>. QED
    BY <1>2, <1>4, <1>5, <2>1, SuiteShape
<1>7. ASSUME NEW table \in ObservedTables PROVE Cases(table) = CaseSet
  BY TableShape DEF Cases, CaseSet
<1>. QED
  BY <1>4, <1>6, <1>7

-----------------------------------------------------------------------------
(* Rates and their comparisons *)

(* The passed trials of a table, by case and in all. *)
LEMMA PassesAdd ==
  ASSUME NEW table \in ObservedTables, NEW c \in Conditions
  PROVE  /\ \A k \in CaseSet : Passes(table, c, k) \in Nat
         /\ PassesIn(table, c) \in Nat
         /\ SumOver([k \in CaseSet |-> Passes(table, c, k)], CaseSet) = PassesIn(table, c)
<1>. DEFINE T == DOMAIN table
            passed == {i \in T : table[i].on[c].passed}
            of(k) == {i \in OfCase(table, k) : table[i].on[c].passed}
            mark == [k \in CaseSet |-> [i \in T |-> IF i \in of(k) THEN 1 ELSE 0]]
            lines == [k \in CaseSet |-> Passes(table, c, k)]
            columns == [i \in T |-> IF i \in passed THEN 1 ELSE 0]
<1>1. IsFiniteSet(T) /\ IsFiniteSet(CaseSet)
  <2>1. T = 1 .. TableLength
    BY TableShape
  <2>2. IsFiniteSet(1 .. TableLength)
    BY SuiteShape, FS_Interval
  <2>. QED
    BY <2>1, <2>2, CaseShape
<1>2. passed \subseteq T /\ \A k \in CaseSet : of(k) \in SUBSET T
  BY DEF OfCase
<1>3. PassesIn(table, c) = Cardinality(passed)
  BY DEF PassesIn, Quantify
<1>4. \A k \in CaseSet : Passes(table, c, k) = Cardinality(of(k))
  BY DEF Passes
<1>5. IsFiniteSet(passed) /\ \A k \in CaseSet : IsFiniteSet(of(k))
  <2>. HIDE DEF T, passed, of
  <2>. QED
    BY <1>1, <1>2, FS_Subset
<1>6. Cardinality(passed) \in Nat /\ \A k \in CaseSet : Cardinality(of(k)) \in Nat
  <2>. HIDE DEF T, passed, of
  <2>. QED
    BY <1>5, FS_CardinalityType
<1>7. SumOver(lines, CaseSet) = SumOver(columns, T)
  <2>1. \A k \in CaseSet : \A i \in T : mark[k][i] \in Int
    OBVIOUS
  <2>2. ASSUME NEW k \in CaseSet PROVE lines[k] = SumOver(mark[k], T)
    <3>. DEFINE row == mark[k]
                R == of(k)
    <3>1. \A i \in T : row[i] = IF i \in R THEN 1 ELSE 0
      OBVIOUS
    <3>2. R \in SUBSET T /\ lines[k] = Cardinality(R)
      BY <1>2, <1>4
    <3>. HIDE DEF row, R, T, lines
    <3>3. SumOver(row, T) = Cardinality(R)
      BY <1>1, <3>1, <3>2, CountIsSum
    <3>. QED
      BY <3>2, <3>3 DEF row
  <2>3. ASSUME NEW i \in T PROVE columns[i] = SumOver([k \in CaseSet |-> mark[k][i]], CaseSet)
    <3>. DEFINE column == [k \in CaseSet |-> mark[k][i]]
                R == {k \in CaseSet : i \in of(k)}
    <3>1. \A k \in CaseSet : column[k] = IF k \in R THEN 1 ELSE 0
      OBVIOUS
    <3>2. R = IF i \in passed THEN {table[i].case} ELSE {}
      <4>1. table[i].case \in CaseSet
        <5>1. Cases(table) = CaseSet
          BY CaseShape
        <5>. QED
          BY <5>1 DEF Cases
      <4>. QED
        BY <4>1 DEF OfCase
    <3>3. Cardinality(R) = columns[i]
      <4>1. CASE i \in passed
        BY <3>2, <4>1, FS_Singleton
      <4>2. CASE i \notin passed
        BY <3>2, <4>2, FS_EmptySet
      <4>. QED
        BY <4>1, <4>2
    <3>4. R \in SUBSET CaseSet
      OBVIOUS
    <3>. HIDE DEF column, R, columns, mark, of, passed, T
    <3>5. SumOver(column, CaseSet) = Cardinality(R)
      BY <1>1, <3>1, <3>4, CountIsSum
    <3>. QED
      BY <3>3, <3>5 DEF column
  <2>. HIDE DEF T, lines, columns, mark
  <2>4. AddsRows(lines, mark, CaseSet, T)
    BY <2>2 DEF AddsRows
  <2>5. AddsColumns(columns, mark, CaseSet, T)
    BY <2>3 DEF AddsColumns
  <2>. QED
    BY <1>1, <2>1, <2>4, <2>5, SumSwap
<1>8. SumOver(columns, T) = Cardinality(passed)
  <2>1. \A i \in T : columns[i] = IF i \in passed THEN 1 ELSE 0
    OBVIOUS
  <2>. HIDE DEF T, columns, passed
  <2>. QED
    BY <1>1, <1>2, <2>1, CountIsSum
<1>9. \A k \in CaseSet : Passes(table, c, k) \in Nat
  BY <1>4, <1>6
<1>10. PassesIn(table, c) \in Nat
  BY <1>3, <1>6
<1>11. SumOver(lines, CaseSet) = PassesIn(table, c)
  BY <1>3, <1>7, <1>8
<1>. QED
  BY <1>9, <1>10, <1>11

Score(tables, c, k) == SumFunction([i \in SlotIndices |-> Passes(tables[i], c, k)])

(* The passed trials of all tables, by case and in all. *)
LEMMA ScoresAdd ==
  ASSUME NEW tables \in [SlotIndices -> ObservedTables], NEW c \in Conditions
  PROVE  /\ \A k \in CaseSet : Score(tables, c, k) \in Nat
         /\ Total(tables, c) \in Nat
         /\ SumOver([k \in CaseSet |-> Score(tables, c, k)], CaseSet) = Total(tables, c)
<1>. DEFINE mark == [i \in SlotIndices |-> [k \in CaseSet |-> Passes(tables[i], c, k)]]
            columns == [k \in CaseSet |-> Score(tables, c, k)]
            lines == [i \in SlotIndices |-> PassesIn(tables[i], c)]
<1>1. IsFiniteSet(SlotIndices) /\ IsFiniteSet(CaseSet)
  BY SlotShape, CaseShape
<1>2. ASSUME NEW i \in SlotIndices
      PROVE  /\ \A k \in CaseSet : mark[i][k] \in Nat
             /\ lines[i] \in Nat /\ lines[i] = SumOver(mark[i], CaseSet)
  <2>1. tables[i] \in ObservedTables
    OBVIOUS
  <2>. QED
    BY <2>1, PassesAdd
<1>3. ASSUME NEW k \in CaseSet
      PROVE  columns[k] = SumOver([i \in SlotIndices |-> mark[i][k]], SlotIndices)
  <2>. DEFINE column == [i \in SlotIndices |-> Passes(tables[i], c, k)]
  <2>1. [i \in SlotIndices |-> mark[i][k]] = column
    OBVIOUS
  <2>2. SumFunction(column) = SumOver(column, DOMAIN column)
    <3>. HIDE DEF column
    <3>. QED
      BY SumOfFunction
  <2>3. DOMAIN column = SlotIndices
    OBVIOUS
  <2>4. columns[k] = SumFunction(column)
    BY DEF Score
  <2>. QED
    BY <2>1, <2>2, <2>3, <2>4
<1>4. \A i \in SlotIndices : \A k \in CaseSet : mark[i][k] \in Int
  <2>. HIDE DEF mark
  <2>. QED
    BY <1>2
<1>5. SumOver(lines, SlotIndices) = SumOver(columns, CaseSet)
  <2>1. \A i \in SlotIndices : lines[i] = SumOver(mark[i], CaseSet)
    BY <1>2
  <2>. HIDE DEF mark, lines, columns
  <2>2. AddsRows(lines, mark, SlotIndices, CaseSet)
    BY <2>1 DEF AddsRows
  <2>3. AddsColumns(columns, mark, SlotIndices, CaseSet)
    BY <1>3 DEF AddsColumns
  <2>. QED
    BY <1>1, <1>4, <2>2, <2>3, SumSwap
<1>6. Total(tables, c) = SumOver(lines, SlotIndices)
  <2>1. SumFunction(lines) = SumOver(lines, DOMAIN lines)
    <3>. HIDE DEF lines
    <3>. QED
      BY SumOfFunction
  <2>. QED
    BY <2>1 DEF Total
<1>7. \A k \in CaseSet : columns[k] \in Nat
  <2>1. SUFFICES ASSUME NEW k \in CaseSet PROVE columns[k] \in Nat
    OBVIOUS
  <2>. DEFINE column == [i \in SlotIndices |-> mark[i][k]]
  <2>2. \A i \in SlotIndices : column[i] \in Nat
    BY <1>2
  <2>3. columns[k] = SumOver(column, SlotIndices)
    BY <1>3
  <2>. HIDE DEF column, columns
  <2>. QED
    BY <1>1, <2>2, <2>3, SumNat
<1>8. SumOver(lines, SlotIndices) \in Nat
  <2>1. \A i \in SlotIndices : lines[i] \in Nat
    BY <1>2
  <2>. HIDE DEF lines
  <2>. QED
    BY <1>1, <2>1, SumNat
<1>9. \A k \in CaseSet : Score(tables, c, k) \in Nat
  BY <1>7
<1>. QED
  BY <1>5, <1>6, <1>8, <1>9

CaseUnit == Million \div Repetitions
CaseCount == Cardinality(CaseSet)

(* What the magnitudes of a protocol say of its rates. *)
LEMMA Magnitudes ==
  /\ CaseUnit \in Nat \ {0} /\ CaseCount \in Nat \ {0}
  /\ ProtocolMagnitudes => /\ 3 * (CaseCount * Len(Slots)) <= 2 * CaseUnit
                           /\ CaseCount <= CaseUnit /\ Len(Slots) <= CaseUnit
<1>. DEFINE n == Len(Suite)
            R == Repetitions
            M == Million
            K == Len(Slots)
            N == CaseCount
            m == CaseUnit
<1>1. n \in Nat \ {0} /\ R \in Nat \ {0} /\ K \in Nat \ {0}
  BY SuiteShape, SlotShape
<1>2. N \in 1 .. n
  BY CaseShape DEF CaseCount
<1>3. m \in Nat /\ M = R * m /\ M \in Nat \ {0}
  <2>1. \A x \in Nat : \A r \in Nat \ {0} : x \div r \in Nat /\ (x % r = 0 => x = r * (x \div r))
    OBVIOUS
  <2>. QED
    BY <1>1, <2>1, RepetitionsAssumption DEF CaseUnit, Million
<1>. HIDE DEF n, R, M, K, N, m
<1>4. m # 0
  BY <1>1, <1>3
<1>5. ASSUME ProtocolMagnitudes
      PROVE  3 * (N * K) <= 2 * m /\ N <= m /\ K <= m
  <2>1. 3 * K * (n * R) <= 2 * M
    BY <1>5 DEF ProtocolMagnitudes, n, R, M, K
  <2>2. PICK x \in Nat : x = K * n
    BY <1>1
  <2>3. R * (3 * x) <= R * (2 * m)
    <3>1. 3 * K * (n * R) = R * (3 * x)
      BY <1>1, <2>2
    <3>2. 2 * M = R * (2 * m)
      BY <1>1, <1>3
    <3>. QED
      BY <2>1, <3>1, <3>2
  <2>4. 3 * x <= 2 * m
    <3>1. 3 * x \in Int /\ 2 * m \in Int
      BY <1>3, <2>2
    <3>. QED
      BY <1>1, <2>3, <3>1, Scaled
  <2>5. PICK y \in Nat : y = N * K
    BY <1>1, <1>2
  <2>6. y <= x /\ N <= y /\ K <= y
    BY <1>1, <1>2, <2>2, <2>5
  <2>. QED
    BY <1>1, <1>2, <1>3, <2>2, <2>4, <2>5, <2>6
<1>. QED
  BY <1>1, <1>2, <1>3, <1>4, <1>5 DEF N, m, K

(* The sign of a rounded mean. *)
LEMMA MeanSign ==
  ASSUME NEW t \in Int, NEW n \in Nat \ {0}
  PROVE  /\ 2 * t >= n => MeanOf(t, n) > 0
         /\ -(2 * t) >= n => MeanOf(t, n) < 0
         /\ t >= 0 => MeanOf(t, n) >= 0
         /\ t <= 0 => MeanOf(t, n) <= 0
         /\ MeanOf(t, n) \in Int
<1>. DEFINE r == MeanOf(t, n)
<1>1. /\ r \in Int
      /\ t >= 0 => 2 * (n * r) > 2 * t - n /\ r >= 0
      /\ t <= 0 => 2 * (n * r) < 2 * t + n /\ r <= 0
  BY Rounded
<1>. HIDE DEF r
<1>2. n * r \in Int /\ (r = 0 => n * r = 0)
  BY <1>1
<1>3. 2 * t >= n => r > 0
  BY <1>1, <1>2
<1>4. -(2 * t) >= n => r < 0
  BY <1>1, <1>2
<1>. QED
  BY <1>1, <1>3, <1>4 DEF r

IntegersOf(f, S) == DOMAIN f = S /\ \A k \in S : f[k] \in Int

Compares(left, right, S) ==
  /\ Paired(left, right).wins = Cardinality({k \in S : left[k] > right[k]})
  /\ Paired(left, right).losses = Cardinality({k \in S : left[k] < right[k]})
  /\ Paired(left, right).difference =
       MeanOf(SumOver(left, S) - SumOver(right, S), Cardinality(S))
  /\ Paired(left, right).test =
       SignTest(Paired(left, right).wins, Paired(left, right).losses)

(* What a paired comparison of two functions of the same cases says. *)
LEMMA PairedOf ==
  ASSUME NEW S, IsFiniteSet(S), S # {}, NEW left, NEW right,
         IntegersOf(left, S), IntegersOf(right, S)
  PROVE  Compares(left, right, S)
<1>. DEFINE d == [k \in S |-> left[k] - right[k]]
<1>0. /\ DOMAIN left = S /\ DOMAIN right = S
      /\ \A k \in S : left[k] \in Int
      /\ \A k \in S : right[k] \in Int
  BY DEF IntegersOf
<1>1. \A k \in S : d[k] = 1 * left[k] + (-1) * right[k]
  BY <1>0
<1>2. DOMAIN d = S
  OBVIOUS
<1>3. Paired(left, right).difference = MeanRate(d)
  BY <1>0 DEF Paired
<1>. HIDE DEF d
<1>4. SumOver(d, S) = 1 * SumOver(left, S) + (-1) * SumOver(right, S)
  BY <1>0, <1>1, SumLinear
<1>5. SumOver(left, S) \in Int /\ SumOver(right, S) \in Int
  BY <1>0, SumInt
<1>6. MeanRate(d) = MeanOf(SumOver(d, S), Cardinality(S))
  BY <1>2, SumOfFunction DEF MeanRate
<1>7. SumOver(d, S) = SumOver(left, S) - SumOver(right, S)
  BY <1>4, <1>5
<1>8. Paired(left, right).difference = MeanOf(SumOver(left, S) - SumOver(right, S), Cardinality(S))
  BY <1>3, <1>6, <1>7
<1>9. /\ Paired(left, right).wins = Cardinality({k \in S : left[k] > right[k]})
      /\ Paired(left, right).losses = Cardinality({k \in S : left[k] < right[k]})
      /\ Paired(left, right).test = SignTest(Paired(left, right).wins, Paired(left, right).losses)
  BY <1>0 DEF Paired
<1>. QED
  BY <1>8, <1>9 DEF Compares

(* The rate of a case is exact: the repetitions divide the scale of rates. *)
LEMMA RatesOf ==
  ASSUME NEW table \in ObservedTables, NEW c \in Conditions
  PROVE  /\ DOMAIN CaseRates(table, c) = CaseSet
         /\ \A k \in CaseSet : /\ CaseRates(table, c)[k] = CaseUnit * Passes(table, c, k)
                               /\ CaseRates(table, c)[k] \in Nat
         /\ SumOver(CaseRates(table, c), CaseSet) = CaseUnit * PassesIn(table, c)
<1>. DEFINE f == [k \in CaseSet |-> Passes(table, c, k)]
            g == CaseRates(table, c)
<1>1. g = [k \in CaseSet |-> Passes(table, c, k) * CaseUnit]
  BY CaseShape DEF CaseRates, CaseUnit
<1>2. \A k \in CaseSet : f[k] \in Nat /\ f[k] = Passes(table, c, k)
  BY PassesAdd
<1>3. CaseUnit \in Nat
  BY Magnitudes
<1>4. DOMAIN g = CaseSet /\ \A k \in CaseSet : g[k] = CaseUnit * f[k] /\ g[k] \in Nat
  <2>. HIDE DEF f, g
  <2>1. \A x \in Nat : x * CaseUnit = CaseUnit * x /\ CaseUnit * x \in Nat
    BY <1>3
  <2>. QED
    BY <1>1, <1>2, <2>1
<1>5. SumOver(f, CaseSet) = PassesIn(table, c) /\ PassesIn(table, c) \in Nat
  BY PassesAdd
<1>. HIDE DEF f, g
<1>6. SumOver(g, CaseSet) = CaseUnit * SumOver(f, CaseSet) + 0 * SumOver(f, CaseSet)
  <2>1. \A k \in CaseSet : f[k] \in Int /\ g[k] = CaseUnit * f[k] + 0 * f[k]
    BY <1>2, <1>3, <1>4
  <2>. QED
    BY <1>3, <2>1, CaseShape, SumLinear
<1>7. SumOver(g, CaseSet) = CaseUnit * PassesIn(table, c)
  BY <1>3, <1>5, <1>6
<1>. QED
  BY <1>2, <1>4, <1>7 DEF g

(* The difference of a model has the sign of its passed trials. *)
LEMMA ModelSign ==
  ASSUME ProtocolMagnitudes, NEW table \in ObservedTables
  PROVE  LET delta == ModelStatistics(table).pair.difference
             a == PassesIn(table, "dohaa")
             b == PassesIn(table, "direct")
         IN /\ delta > 0 <=> a > b
            /\ delta < 0 <=> a < b
<1>. DEFINE a == PassesIn(table, "dohaa")
            b == PassesIn(table, "direct")
            left == CaseRates(table, "dohaa")
            right == CaseRates(table, "direct")
            delta == ModelStatistics(table).pair.difference
<1>1. a \in Nat /\ b \in Nat
  BY PassesAdd DEF Conditions
<1>2. /\ DOMAIN left = CaseSet /\ DOMAIN right = CaseSet
      /\ \A k \in CaseSet : left[k] \in Nat /\ right[k] \in Nat
      /\ SumOver(left, CaseSet) = CaseUnit * a /\ SumOver(right, CaseSet) = CaseUnit * b
  BY RatesOf DEF Conditions
<1>3. IsFiniteSet(CaseSet) /\ CaseSet # {}
  <2>1. Cardinality(CaseSet) # 0
    BY CaseShape
  <2>. QED
    BY <2>1, CaseShape, FS_EmptySet
<1>4. delta = Paired(left, right).difference
  BY DEF ModelStatistics
<1>. HIDE DEF a, b, left, right, delta
<1>5. delta = MeanOf(CaseUnit * a - CaseUnit * b, CaseCount)
  <2>1. IntegersOf(left, CaseSet) /\ IntegersOf(right, CaseSet)
    BY <1>2 DEF IntegersOf
  <2>2. Compares(left, right, CaseSet)
    BY <1>3, <2>1, PairedOf
  <2>3. Paired(left, right).difference =
          MeanOf(SumOver(left, CaseSet) - SumOver(right, CaseSet), Cardinality(CaseSet))
    BY <2>2 DEF Compares
  <2>. QED
    BY <1>2, <1>4, <2>3 DEF CaseCount
<1>6. CaseUnit \in Nat \ {0} /\ CaseCount \in Nat \ {0} /\ CaseCount <= CaseUnit
  BY Magnitudes
<1>7. PICK t \in Int : t = CaseUnit * a - CaseUnit * b
  BY <1>1, <1>6
<1>8. /\ a > b => t >= CaseUnit
      /\ a = b => t = 0
      /\ a < b => t <= -CaseUnit
  <2>1. t = CaseUnit * (a - b)
    BY <1>1, <1>6, <1>7
  <2>2. \A x \in Int : /\ x >= 1 => CaseUnit * x >= CaseUnit
                      /\ x <= -1 => CaseUnit * x <= -CaseUnit
    BY <1>6
  <2>. QED
    BY <1>1, <1>6, <1>7, <2>1, <2>2
<1>9. /\ a > b => delta > 0
      /\ a = b => delta = 0
      /\ a < b => delta < 0
      /\ delta \in Int
  <2>1. /\ 2 * t >= CaseCount => MeanOf(t, CaseCount) > 0
        /\ -(2 * t) >= CaseCount => MeanOf(t, CaseCount) < 0
        /\ t >= 0 => MeanOf(t, CaseCount) >= 0
        /\ t <= 0 => MeanOf(t, CaseCount) <= 0
        /\ MeanOf(t, CaseCount) \in Int
    BY <1>6, MeanSign
  <2>. QED
    BY <1>5, <1>6, <1>7, <1>8, <2>1
<1>10. /\ delta > 0 <=> a > b
       /\ delta < 0 <=> a < b
  BY <1>1, <1>9
<1>. QED
  BY <1>10 DEF a, b, delta

(* The rate of a case across the models is the rounded mean of its scores. *)
LEMMA MeanRatesOf ==
  ASSUME NEW tables \in [SlotIndices -> ObservedTables], NEW c \in Conditions
  PROVE  /\ IntegersOf(MeanRates(tables, c), CaseSet)
         /\ \A k \in CaseSet : /\ Score(tables, c, k) \in Nat
                               /\ MeanRates(tables, c)[k] =
                                    MeanOf(CaseUnit * Score(tables, c, k), Len(Slots))
<1>1. Cases(tables[1]) = CaseSet
  <2>1. 1 \in SlotIndices
    BY SlotShape
  <2>. QED
    BY <2>1, CaseShape
<1>2. ASSUME NEW k \in CaseSet
      PROVE  /\ Score(tables, c, k) \in Nat
             /\ SumFunction([i \in SlotIndices |-> CaseRates(tables[i], c)[k]]) =
                  CaseUnit * Score(tables, c, k)
  <2>. DEFINE f == [i \in SlotIndices |-> Passes(tables[i], c, k)]
              g == [i \in SlotIndices |-> CaseRates(tables[i], c)[k]]
  <2>1. /\ Score(tables, c, k) = SumFunction(f)
        /\ DOMAIN f = SlotIndices /\ DOMAIN g = SlotIndices
    BY DEF Score
  <2>2. \A i \in SlotIndices : tables[i] \in ObservedTables
    OBVIOUS
  <2>3. \A i \in SlotIndices : f[i] \in Nat
    BY <2>2, PassesAdd
  <2>4. \A i \in SlotIndices : g[i] = CaseUnit * f[i]
    BY <2>2, RatesOf
  <2>. HIDE DEF f, g
  <2>5. Score(tables, c, k) = SumOver(f, SlotIndices) /\ SumFunction(g) = SumOver(g, SlotIndices)
    BY <2>1, SumOfFunction
  <2>6. SumOver(f, SlotIndices) \in Nat
    BY <2>3, SlotShape, SumNat
  <2>7. SumOver(g, SlotIndices) = CaseUnit * SumOver(f, SlotIndices) + 0 * SumOver(f, SlotIndices)
    <3>1. CaseUnit \in Int /\ 0 \in Int
      BY Magnitudes
    <3>2. \A i \in SlotIndices : f[i] \in Int
      BY <2>3
    <3>3. \A i \in SlotIndices : g[i] = CaseUnit * f[i] + 0 * f[i]
      BY <2>3, <2>4, <3>1
    <3>. QED
      <4>1. IsFiniteSet(SlotIndices)
        BY SlotShape
      <4>. QED
        BY <3>1, <3>2, <3>3, <4>1, SumLinear
  <2>8. SumFunction(g) = CaseUnit * Score(tables, c, k)
    <3>1. CaseUnit \in Nat
      BY Magnitudes
    <3>. QED
      BY <2>5, <2>6, <2>7, <3>1
  <2>. QED
    BY <2>5, <2>6, <2>8 DEF g
<1>3. /\ DOMAIN MeanRates(tables, c) = CaseSet
      /\ \A k \in CaseSet : MeanRates(tables, c)[k] =
           MeanOf(SumFunction([i \in SlotIndices |-> CaseRates(tables[i], c)[k]]), Len(Slots))
  BY <1>1 DEF MeanRates
<1>4. ASSUME NEW k \in CaseSet
      PROVE  /\ MeanRates(tables, c)[k] = MeanOf(CaseUnit * Score(tables, c, k), Len(Slots))
             /\ MeanRates(tables, c)[k] \in Int
  <2>1. MeanRates(tables, c)[k] = MeanOf(CaseUnit * Score(tables, c, k), Len(Slots))
    BY <1>2, <1>3
  <2>2. CaseUnit * Score(tables, c, k) \in Int
    <3>1. CaseUnit \in Nat /\ Score(tables, c, k) \in Nat
      BY <1>2, Magnitudes
    <3>. QED
      BY <3>1
  <2>. QED
    BY <2>1, <2>2, MeanSign, SlotShape
<1>. QED
  BY <1>2, <1>3, <1>4 DEF IntegersOf

(* Rounding moves no comparison of a case. *)
LEMMA CaseOrder ==
  ASSUME ProtocolMagnitudes, NEW tables \in [SlotIndices -> ObservedTables],
         NEW a \in Conditions, NEW b \in Conditions
  PROVE  {k \in CaseSet : MeanRates(tables, a)[k] > MeanRates(tables, b)[k]} = Better(tables, a, b)
<1>1. Better(tables, a, b) = {k \in CaseSet : Score(tables, a, k) > Score(tables, b, k)}
  <2>1. Cases(tables[1]) = CaseSet
    <3>1. 1 \in SlotIndices
      BY SlotShape
    <3>. QED
      BY <3>1, CaseShape
  <2>. QED
    BY <2>1 DEF Better, Score
<1>2. ASSUME NEW k \in CaseSet
      PROVE  MeanRates(tables, a)[k] > MeanRates(tables, b)[k]
               <=> Score(tables, a, k) > Score(tables, b, k)
  <2>. DEFINE r == MeanRates(tables, a)[k]
              s == MeanRates(tables, b)[k]
              x == Score(tables, a, k)
              y == Score(tables, b, k)
              K == Len(Slots)
              m == CaseUnit
  <2>1. /\ x \in Nat /\ r = MeanOf(m * x, K) /\ r \in Int
        /\ y \in Nat /\ s = MeanOf(m * y, K) /\ s \in Int
    BY MeanRatesOf DEF IntegersOf
  <2>2. K \in Nat \ {0} /\ m \in Nat \ {0} /\ K <= m
    BY Magnitudes, SlotShape
  <2>. HIDE DEF r, s, x, y, K, m
  <2>3. ASSUME NEW u \in Nat, NEW v \in Nat, u < v PROVE MeanOf(m * u, K) < MeanOf(m * v, K)
    <3>1. m * u \in Int /\ m * v \in Int /\ m * u + m <= m * v
      <4>1. m * (u + 1) <= m * v
        BY <2>2, <2>3
      <4>. QED
        BY <2>2, <4>1
    <3>2. m * u + K <= m * v
      BY <2>2, <3>1
    <3>. QED
      BY <2>2, <3>1, <3>2, RoundingKeepsOrder
  <2>4. CASE x > y
    <3>1. s < r
      BY <2>1, <2>3, <2>4
    <3>. QED
      BY <2>1, <2>4, <3>1 DEF r, s, x, y
  <2>5. CASE x = y
    <3>1. s = r
      BY <2>1, <2>5
    <3>. QED
      BY <2>1, <2>5, <3>1 DEF r, s, x, y
  <2>6. CASE x < y
    <3>1. r < s
      BY <2>1, <2>3, <2>6
    <3>. QED
      BY <2>1, <2>6, <3>1 DEF r, s, x, y
  <2>. QED
    BY <2>1, <2>4, <2>5, <2>6
<1>. QED
  BY <1>1, <1>2

(* A global difference above zero is of no lower rate, and a higher rate has a
   difference above zero. *)
LEMMA GlobalSign ==
  ASSUME ProtocolMagnitudes, NEW tables \in [SlotIndices -> ObservedTables]
  PROVE  LET delta == Aggregate(tables).primary.difference
             lead == Total(tables, "dohaa") - Total(tables, "direct")
         IN /\ delta > 0 => lead >= 0
            /\ lead > 0 => delta > 0
<1>. DEFINE delta == Aggregate(tables).primary.difference
            A == Total(tables, "dohaa")
            B == Total(tables, "direct")
            left == MeanRates(tables, "dohaa")
            right == MeanRates(tables, "direct")
            x == [k \in CaseSet |-> Score(tables, "dohaa", k)]
            y == [k \in CaseSet |-> Score(tables, "direct", k)]
            K == Len(Slots)
            N == CaseCount
            m == CaseUnit
<1>1. /\ IntegersOf(left, CaseSet) /\ IntegersOf(right, CaseSet)
      /\ \A k \in CaseSet : /\ x[k] \in Nat /\ left[k] = MeanOf(m * x[k], K)
                            /\ y[k] \in Nat /\ right[k] = MeanOf(m * y[k], K)
  BY MeanRatesOf DEF Conditions
<1>2. /\ A \in Nat /\ B \in Nat
      /\ SumOver(x, CaseSet) = A /\ SumOver(y, CaseSet) = B
  BY ScoresAdd DEF Conditions
<1>3. /\ K \in Nat \ {0} /\ N \in Nat \ {0} /\ m \in Nat \ {0}
      /\ 3 * (N * K) <= 2 * m
  BY Magnitudes, SlotShape
<1>4. IsFiniteSet(CaseSet) /\ CaseSet # {} /\ Cardinality(CaseSet) = N
  <2>1. Cardinality(CaseSet) # 0
    BY CaseShape
  <2>. QED
    BY <2>1, CaseShape, FS_EmptySet DEF CaseCount
<1>5. delta = Paired(left, right).difference
  BY DEF Aggregate
<1>. HIDE DEF delta, A, B, left, right, x, y, K, N, m
<1>6. delta = MeanOf(SumOver(left, CaseSet) - SumOver(right, CaseSet), N)
  <2>1. Paired(left, right).difference =
          MeanOf(SumOver(left, CaseSet) - SumOver(right, CaseSet), Cardinality(CaseSet))
    <3>1. IntegersOf(left, CaseSet) /\ IntegersOf(right, CaseSet)
      BY <1>1
    <3>2. IsFiniteSet(CaseSet) /\ CaseSet # {}
      BY <1>4
    <3>3. Compares(left, right, CaseSet)
      BY <3>1, <3>2, PairedOf
    <3>. QED
      BY <3>3 DEF Compares
  <2>. QED
    BY <1>4, <1>5, <2>1
<1>7. PICK p \in Int, q \in Int : p = SumOver(left, CaseSet) /\ q = SumOver(right, CaseSet)
  BY <1>1, <1>4, SumInt DEF IntegersOf
<1>8. ASSUME NEW f, NEW r, IntegersOf(r, CaseSet),
             \A k \in CaseSet : f[k] \in Nat /\ r[k] = MeanOf(m * f[k], K)
      PROVE  /\ 2 * (K * SumOver(r, CaseSet)) <= 2 * (m * SumOver(f, CaseSet)) + N * K
             /\ 2 * (K * SumOver(r, CaseSet)) >= 2 * (m * SumOver(f, CaseSet)) - N * K
  <2>. DEFINE one == [k \in CaseSet |-> 1]
              mean == [k \in CaseSet |-> (2 * K) * r[k] + 0 * one[k]]
              up == [k \in CaseSet |-> (2 * m) * f[k] + K * one[k]]
              down == [k \in CaseSet |-> (2 * m) * f[k] + (-K) * one[k]]
  <2>1. /\ \A k \in CaseSet : one[k] = 1
        /\ \A k \in CaseSet : mean[k] = (2 * K) * r[k] + 0 * one[k]
        /\ \A k \in CaseSet : up[k] = (2 * m) * f[k] + K * one[k]
        /\ \A k \in CaseSet : down[k] = (2 * m) * f[k] + (-K) * one[k]
    OBVIOUS
  <2>. HIDE DEF one, mean, up, down
  <2>2. SumOver(one, CaseSet) = 1 * N
    BY <1>4, <2>1, SumConstant
  <2>3. (\A k \in CaseSet : one[k] \in Int) /\ (\A k \in CaseSet : f[k] \in Int)
        /\ (\A k \in CaseSet : r[k] \in Int)
    BY <1>8, <2>1 DEF IntegersOf
  <2>4. 2 * K \in Int /\ 2 * m \in Int /\ K \in Int /\ -K \in Int /\ 0 \in Int
    BY <1>3
  <2>5. SumOver(mean, CaseSet) = (2 * K) * SumOver(r, CaseSet) + 0 * SumOver(one, CaseSet)
    BY <1>4, <2>1, <2>3, <2>4, SumLinear
  <2>6. SumOver(up, CaseSet) = (2 * m) * SumOver(f, CaseSet) + K * SumOver(one, CaseSet)
    BY <1>4, <2>1, <2>3, <2>4, SumLinear
  <2>7. SumOver(down, CaseSet) = (2 * m) * SumOver(f, CaseSet) + (-K) * SumOver(one, CaseSet)
    BY <1>4, <2>1, <2>3, <2>4, SumLinear
  <2>8. ASSUME NEW k \in CaseSet
        PROVE  /\ mean[k] \in Int /\ up[k] \in Int /\ down[k] \in Int
               /\ down[k] <= mean[k] /\ mean[k] <= up[k]
    <3>1. PICK u \in Nat, v \in Int : u = f[k] /\ v = r[k] /\ v = MeanOf(m * u, K)
      BY <1>8, <2>3
    <3>2. m * u \in Int
      BY <1>3
    <3>3. 2 * (K * v) <= 2 * (m * u) + K /\ 2 * (K * v) >= 2 * (m * u) - K
      BY <1>3, <3>1, <3>2, Rounded
    <3>4. mean[k] = 2 * (K * v) /\ up[k] = 2 * (m * u) + K /\ down[k] = 2 * (m * u) - K
      <4>1. /\ mean[k] = (2 * K) * v + 0 * 1
            /\ up[k] = (2 * m) * u + K * 1
            /\ down[k] = (2 * m) * u + (-K) * 1
        BY <2>1, <3>1
      <4>2. (2 * K) * v = 2 * (K * v) /\ (2 * m) * u = 2 * (m * u)
        BY <1>3
      <4>3. K * v \in Int /\ m * u \in Int
        BY <1>3
      <4>. QED
        BY <1>3, <4>1, <4>2, <4>3
    <3>5. K * v \in Int
      BY <1>3
    <3>. QED
      BY <1>3, <3>2, <3>3, <3>4, <3>5
  <2>9. /\ SumOver(down, CaseSet) <= SumOver(mean, CaseSet)
        /\ SumOver(mean, CaseSet) <= SumOver(up, CaseSet)
    BY <1>4, <2>8, SumMonotone
  <2>10. PICK s \in Int, t \in Int : s = SumOver(r, CaseSet) /\ t = SumOver(f, CaseSet)
    BY <1>4, <2>3, SumInt
  <2>11. /\ SumOver(mean, CaseSet) = 2 * (K * s)
         /\ SumOver(up, CaseSet) = 2 * (m * t) + N * K
         /\ SumOver(down, CaseSet) = 2 * (m * t) - N * K
    BY <1>3, <2>2, <2>5, <2>6, <2>7, <2>10
  <2>. QED
    BY <2>9, <2>10, <2>11
<1>9. /\ 2 * (K * p) <= 2 * (m * A) + N * K /\ 2 * (K * p) >= 2 * (m * A) - N * K
      /\ 2 * (K * q) <= 2 * (m * B) + N * K /\ 2 * (K * q) >= 2 * (m * B) - N * K
  BY <1>1, <1>2, <1>7, <1>8
<1>10. PICK w \in Nat : w = N * K
  BY <1>3
<1>11. PICK d \in Int, lead \in Int : d = p - q /\ lead = A - B
  BY <1>2, <1>7
<1>12. 2 * (K * d) <= 2 * (m * lead) + 2 * w /\ 2 * (K * d) >= 2 * (m * lead) - 2 * w
  <2>1. K * d = K * p - K * q /\ m * lead = m * A - m * B
    BY <1>2, <1>3, <1>7, <1>11
  <2>2. K * p \in Int /\ K * q \in Int /\ m * A \in Int /\ m * B \in Int
    BY <1>2, <1>3, <1>7
  <2>. QED
    BY <1>9, <1>10, <2>1, <2>2
<1>13. 3 * w <= 2 * m
  BY <1>3, <1>10
<1>14. ASSUME lead > 0 PROVE 2 * d >= N
  <2>1. m * lead >= m
    BY <1>3, <1>11, <1>14
  <2>2. m * lead \in Int /\ K * d \in Int
    BY <1>3, <1>11
  <2>3. K * (2 * d) >= K * N
    <3>1. 2 * (K * d) >= w
      BY <1>3, <1>12, <1>13, <2>1, <2>2
    <3>2. K * (2 * d) = 2 * (K * d) /\ K * N = w
      BY <1>3, <1>10, <1>11
    <3>. QED
      BY <3>1, <3>2
  <2>. QED
    BY <1>3, <1>11, <2>3, Scaled
<1>15. ASSUME lead < 0 PROVE d <= 0
  <2>1. m * lead <= -m
    BY <1>3, <1>11, <1>15
  <2>2. m * lead \in Int /\ K * d \in Int
    BY <1>3, <1>11
  <2>3. K * d <= 0
    BY <1>3, <1>12, <1>13, <2>1, <2>2
  <2>4. K * d <= K * 0
    BY <1>3, <2>3
  <2>. QED
    BY <1>3, <1>11, <2>4, Scaled
<1>16. /\ 2 * d >= N => delta > 0
       /\ d <= 0 => delta <= 0
       /\ delta \in Int
  BY <1>3, <1>6, <1>7, <1>11, MeanSign
<1>17. (delta > 0 => lead >= 0) /\ (lead > 0 => delta > 0)
  BY <1>11, <1>14, <1>15, <1>16
<1>. QED
  BY <1>11, <1>17 DEF delta, A, B

-----------------------------------------------------------------------------
(* The trials of all the models *)

(* What is known of the positions of a sequence. *)
LEMMA Positions ==
  ASSUME NEW X, NEW s \in Seq(X)
  PROVE  /\ Len(s) \in Nat /\ DOMAIN s = 1 .. Len(s)
         /\ IsFiniteSet(DOMAIN s) /\ Cardinality(DOMAIN s) = Len(s)
         /\ \A k \in DOMAIN s : s[k] \in X
<1>1. Len(s) \in Nat /\ DOMAIN s = 1 .. Len(s)
  BY LenProperties
<1>2. \A n \in Nat : IsFiniteSet(1 .. n) /\ Cardinality(1 .. n) = n
  BY FS_Interval
<1>3. \A k \in DOMAIN s : s[k] \in X
  BY <1>1, ElementOfSeq
<1>. QED
  BY <1>1, <1>2, <1>3

(* Each element of Mark weighs one and any other nothing. *)
Marks(weigh, Mark, X) == \A x \in X : weigh[x] = IF x \in Mark THEN 1 ELSE 0

(* The weight of a sequence counts its marked elements. *)
LEMMA WeightOfMarked ==
  ASSUME NEW X, NEW Mark, NEW weigh,
         Marks(weigh, Mark, X), NEW s \in Seq(X)
  PROVE  /\ Weight(s, weigh) = Cardinality({k \in DOMAIN s : s[k] \in Mark})
         /\ Weight(s, weigh) \in Nat /\ Weight(s, weigh) <= Len(s)
         /\ Weight(s, weigh) = Len(s) <=> (\A k \in DOMAIN s : s[k] \in Mark)
<1>. DEFINE S == DOMAIN s
            T == {k \in S : s[k] \in Mark}
            f == [k \in S |-> weigh[s[k]]]
<1>1. Len(s) \in Nat /\ IsFiniteSet(S) /\ Cardinality(S) = Len(s) /\ \A k \in S : s[k] \in X
  BY Positions
<1>2. \A k \in S : f[k] = IF k \in T THEN 1 ELSE 0
  BY <1>1 DEF Marks
<1>3. Weight(s, weigh) = SumOver(f, S)
  BY DEF Weight
<1>4. T \in SUBSET S
  OBVIOUS
<1>. HIDE DEF S, f, T
<1>5. SumOver(f, S) = Cardinality(T)
  BY <1>1, <1>2, <1>4, CountIsSum
<1>6. /\ IsFiniteSet(T) /\ Cardinality(T) <= Cardinality(S)
      /\ Cardinality(S) = Cardinality(T) => S = T
  BY <1>1, <1>4, FS_Subset
<1>7. Cardinality(T) \in Nat
  BY <1>6, FS_CardinalityType
<1>8. T = S <=> \A k \in S : s[k] \in Mark
  BY DEF T
<1>9. Weight(s, weigh) = Cardinality(T)
  BY <1>3, <1>5
<1>10. Weight(s, weigh) = Len(s) <=> T = S
  BY <1>1, <1>6, <1>9
<1>. QED
  BY <1>1, <1>6, <1>7, <1>8, <1>9, <1>10 DEF S, T

(* The weight of a sequence counts its elements. *)
LEMMA WeightOfAll ==
  ASSUME NEW X, NEW weigh, \A x \in X : weigh[x] = 1, NEW s \in Seq(X)
  PROVE  Weight(s, weigh) = Len(s)
<1>. DEFINE Mark == X
<1>1. \A x \in X : weigh[x] = IF x \in Mark THEN 1 ELSE 0
  OBVIOUS
<1>2. \A k \in DOMAIN s : s[k] \in Mark
  BY Positions
<1>. HIDE DEF Mark
<1>3. Marks(weigh, Mark, X)
  BY <1>1 DEF Marks
<1>4. Weight(s, weigh) = Len(s) <=> (\A k \in DOMAIN s : s[k] \in Mark)
  BY <1>3, WeightOfMarked
<1>. QED
  BY <1>2, <1>4

(* The trials of all the models are those of each. *)
LEMMA MergedTrials ==
  ASSUME NEW tables \in [SlotIndices -> ObservedTables]
  PROVE  /\ AllTrials(tables) \in Seq(ObservedTrials)
         /\ \A weigh : (\A t \in ObservedTrials : weigh[t] \in Int) =>
              Weight(AllTrials(tables), weigh) =
                SumOver([i \in SlotIndices |-> Weight(tables[i], weigh)], SlotIndices)
<1>. DEFINE ss == [i \in SlotIndices |-> tables[i]]
            K == Len(Slots)
<1>1. K \in Nat \ {0} /\ SlotIndices = 1 .. K
  BY SlotShape
<1>2. \A i \in 1 .. K : ss[i] \in Seq(ObservedTrials)
  BY <1>1, TableShape
<1>3. ss = [i \in 1 .. K |-> ss[i]] /\ \A i \in SlotIndices : ss[i] = tables[i]
  BY <1>1
<1>4. AllTrials(tables) = FlattenSeq(ss)
  BY DEF AllTrials
<1>. HIDE DEF ss
<1>5. ss \in Seq(Seq(ObservedTrials)) /\ Len(ss) = K /\ DOMAIN ss = SlotIndices
  <2>1. K \in Nat /\ SlotIndices = 1 .. K
    BY <1>1
  <2>. HIDE DEF K
  <2>. QED
    BY <1>2, <1>3, <2>1, ASequence
<1>6. /\ FlattenSeq(ss) \in Seq(ObservedTrials)
      /\ \A weigh : (\A t \in ObservedTrials : weigh[t] \in Int) =>
           Weight(FlattenSeq(ss), weigh) =
             SumOver([i \in DOMAIN ss |-> Weight(ss[i], weigh)], DOMAIN ss)
  <2>1. Len(ss) > 0
    BY <1>1, <1>5
  <2>. QED
    BY <1>5, <2>1, WeightOfFlattened
<1>7. ASSUME NEW weigh, \A t \in ObservedTrials : weigh[t] \in Int
      PROVE  Weight(AllTrials(tables), weigh) =
               SumOver([i \in SlotIndices |-> Weight(tables[i], weigh)], SlotIndices)
  <2>1. [i \in DOMAIN ss |-> Weight(ss[i], weigh)]
          = [i \in SlotIndices |-> Weight(tables[i], weigh)]
    BY <1>3, <1>5
  <2>2. Weight(FlattenSeq(ss), weigh)
          = SumOver([i \in DOMAIN ss |-> Weight(ss[i], weigh)], DOMAIN ss)
    BY <1>6, <1>7
  <2>. QED
    BY <1>4, <1>5, <2>1, <2>2
<1>. QED
  BY <1>4, <1>6, <1>7

(* There are as many trials as slots, cases and repetitions say. *)
LEMMA MergedLength ==
  ASSUME NEW tables \in [SlotIndices -> ObservedTables]
  PROVE  /\ Len(AllTrials(tables)) = Len(Slots) * TableLength
         /\ Len(AllTrials(tables)) \in Nat \ {0}
<1>. DEFINE trials == AllTrials(tables)
            K == Len(Slots)
            one == [t \in ObservedTrials |-> 1]
            w == [i \in SlotIndices |-> Weight(tables[i], one)]
<1>1. K \in Nat \ {0} /\ SlotIndices = 1 .. K /\ TableLength \in Nat \ {0}
      /\ IsFiniteSet(SlotIndices) /\ Cardinality(SlotIndices) = K
  BY SlotShape, SuiteShape
<1>2. \A t \in ObservedTrials : one[t] = 1
  OBVIOUS
<1>. HIDE DEF one
<1>3. trials \in Seq(ObservedTrials) /\ Weight(trials, one) = SumOver(w, SlotIndices)
  BY <1>2, MergedTrials
<1>4. Weight(trials, one) = Len(trials)
  <2>. HIDE DEF trials
  <2>. QED
    BY <1>2, <1>3, WeightOfAll
<1>5. SumOver(w, SlotIndices) = TableLength * K
  <2>1. ASSUME NEW i \in SlotIndices PROVE w[i] = TableLength
    <3>1. tables[i] \in Seq(ObservedTrials) /\ Len(tables[i]) = TableLength
      BY TableShape
    <3>. QED
      BY <1>2, <3>1, WeightOfAll
  <2>. HIDE DEF w, K
  <2>2. TableLength \in Int
    BY <1>1
  <2>3. SumOver(w, SlotIndices) = TableLength * Cardinality(SlotIndices)
    BY <1>1, <2>1, <2>2, SumConstant
  <2>. QED
    BY <1>1, <2>3
<1>6. Len(trials) = K * TableLength /\ K * TableLength \in Nat \ {0}
  <2>1. TableLength * K = K * TableLength
    BY <1>1
  <2>2. \A a, b \in Nat \ {0} : a * b \in Nat \ {0}
    OBVIOUS
  <2>. HIDE DEF K, w, trials
  <2>. QED
    BY <1>1, <1>3, <1>4, <1>5, <2>1, <2>2
<1>. QED
  BY <1>6

(* The records of all the trials are those of each. *)
LEMMA MergedRecords ==
  ASSUME NEW trials \in Seq(ObservedTrials), Len(trials) > 0, NEW c \in Conditions
  PROVE  /\ RecordsOf(trials, c) \in Seq(Observations)
         /\ \A weigh : (\A x \in Observations : weigh[x] \in Int) =>
              Weight(RecordsOf(trials, c), weigh) =
                SumOver([i \in DOMAIN trials |-> Weight(trials[i].on[c].records, weigh)],
                        DOMAIN trials)
<1>. DEFINE ss == [i \in DOMAIN trials |-> trials[i].on[c].records]
            n == Len(trials)
<1>1. n \in Nat /\ DOMAIN trials = 1 .. n /\ \A i \in 1 .. n : trials[i] \in ObservedTrials
  BY Positions
<1>2. \A i \in 1 .. n : ss[i] \in Seq(Observations)
  BY <1>1, TrialShape
<1>3. ss = [i \in 1 .. n |-> ss[i]]
  BY <1>1
<1>4. \A i \in DOMAIN trials : ss[i] = trials[i].on[c].records
  OBVIOUS
<1>5. RecordsOf(trials, c) = FlattenSeq(ss)
  BY DEF RecordsOf
<1>. HIDE DEF ss
<1>6. ss \in Seq(Seq(Observations)) /\ Len(ss) = n /\ DOMAIN ss = DOMAIN trials
  <2>1. n \in Nat /\ DOMAIN trials = 1 .. n
    BY <1>1
  <2>. HIDE DEF n
  <2>. QED
    BY <1>2, <1>3, <2>1, ASequence
<1>7. /\ FlattenSeq(ss) \in Seq(Observations)
      /\ \A weigh : (\A x \in Observations : weigh[x] \in Int) =>
           Weight(FlattenSeq(ss), weigh) =
             SumOver([i \in DOMAIN ss |-> Weight(ss[i], weigh)], DOMAIN ss)
  BY <1>6, WeightOfFlattened
<1>8. ASSUME NEW weigh, \A x \in Observations : weigh[x] \in Int
      PROVE  Weight(RecordsOf(trials, c), weigh) =
               SumOver([i \in DOMAIN trials |-> Weight(trials[i].on[c].records, weigh)],
                       DOMAIN trials)
  <2>1. [i \in DOMAIN trials |-> Weight(trials[i].on[c].records, weigh)] =
          [i \in DOMAIN ss |-> Weight(ss[i], weigh)]
    BY <1>4, <1>6
  <2>2. Weight(FlattenSeq(ss), weigh) =
             SumOver([i \in DOMAIN ss |-> Weight(ss[i], weigh)], DOMAIN ss)
    BY <1>7, <1>8
  <2>. QED
    BY <1>5, <1>6, <2>1, <2>2
<1>. QED
  BY <1>5, <1>7, <1>8

AllReported(t, c) ==
  /\ Len(t.on[c].records) = t.on[c].calls
  /\ \A n \in DOMAIN t.on[c].records : t.on[c].records[n].status = "reported"

(* Merged usage is complete exactly where every trial reported every call. *)
LEMMA UsageIsComplete ==
  ASSUME NEW trials \in Seq(ObservedTrials), Len(trials) > 0, NEW c \in Conditions
  PROVE  /\ CallsOf(trials, c) \in Nat
         /\ UsageOf(trials, c).calls = CallsOf(trials, c)
         /\ UsageComplete(UsageOf(trials, c))
              <=> (\A i \in DOMAIN trials : AllReported(trials[i], c))
         /\ UsageComplete(UsageOf(trials, c)) =>
              /\ Len(RecordsOf(trials, c)) = CallsOf(trials, c)
              /\ \A n \in DOMAIN RecordsOf(trials, c) : RecordsOf(trials, c)[n].status = "reported"
<1>. DEFINE S == DOMAIN trials
            recs == RecordsOf(trials, c)
            Reported == {x \in Observations : x.status = "reported"}
            one == [x \in Observations |-> 1]
            mark == [x \in Observations |-> IF x \in Reported THEN 1 ELSE 0]
            calls == [i \in S |-> trials[i].on[c].calls]
            lens == [i \in S |-> Weight(trials[i].on[c].records, one)]
            counts == [i \in S |-> Weight(trials[i].on[c].records, mark)]
            L == Len(recs)
            C == CallsOf(trials, c)
            R == CountOf(recs, "reported")
<1>1. IsFiniteSet(S) /\ \A i \in S : trials[i] \in ObservedTrials
  BY Positions
<1>2. /\ \A x \in Observations : one[x] = 1
      /\ Marks(mark, Reported, Observations)
      /\ \A x \in Observations : one[x] \in Int
      /\ \A x \in Observations : mark[x] \in Int
  BY DEF Marks
<1>3. /\ recs \in Seq(Observations)
      /\ Weight(recs, one) = SumOver(lens, S)
      /\ Weight(recs, mark) = SumOver(counts, S)
  <2>. HIDE DEF one, mark
  <2>. QED
    BY <1>2, MergedRecords
<1>4. C = SumOver(calls, S)
  <2>1. DOMAIN calls = S /\ C = SumFunction(calls)
    BY DEF CallsOf
  <2>. HIDE DEF calls, S
  <2>. QED
    BY <2>1, SumOfFunction
<1>5. ASSUME NEW i \in S
      PROVE  /\ calls[i] \in Nat /\ lens[i] \in Nat /\ counts[i] \in Nat
             /\ counts[i] <= lens[i] /\ lens[i] <= calls[i]
             /\ AllReported(trials[i], c) <=> (counts[i] = lens[i] /\ lens[i] = calls[i])
  <2>. DEFINE records == trials[i].on[c].records
  <2>1. /\ records \in Seq(Observations) /\ trials[i].on[c].calls \in Nat
        /\ Len(records) \in Nat /\ Len(records) <= trials[i].on[c].calls
    BY <1>1, TrialShape
  <2>2. lens[i] = Weight(records, one) /\ counts[i] = Weight(records, mark)
        /\ calls[i] = trials[i].on[c].calls
    OBVIOUS
  <2>. HIDE DEF records, one, mark, lens, counts, calls, Reported
  <2>3. Weight(records, one) = Len(records)
    BY <1>2, <2>1, WeightOfAll
  <2>4. /\ Weight(records, mark) \in Nat /\ Weight(records, mark) <= Len(records)
        /\ Weight(records, mark) = Len(records)
             <=> (\A k \in DOMAIN records : records[k] \in Reported)
    BY <1>2, <2>1, WeightOfMarked
  <2>5. (\A k \in DOMAIN records : records[k] \in Reported) <=>
          (\A k \in DOMAIN records : records[k].status = "reported")
    <3>1. \A k \in DOMAIN records : records[k] \in Observations
      BY <2>1, Positions
    <3>. QED
      BY <3>1 DEF Reported
  <2>6. AllReported(trials[i], c) <=>
          /\ Len(records) = trials[i].on[c].calls
          /\ \A k \in DOMAIN records : records[k].status = "reported"
    BY DEF AllReported, records
  <2>. QED
    BY <2>1, <2>2, <2>3, <2>4, <2>5, <2>6
<1>6. /\ L \in Nat /\ Weight(recs, one) = L
      /\ Weight(recs, mark) = R /\ R \in Nat /\ R <= L
      /\ R = L => \A n \in DOMAIN recs : recs[n].status = "reported"
  <2>. HIDE DEF one, mark, recs
  <2>1. L \in Nat /\ (\A k \in DOMAIN recs : recs[k] \in Observations)
    BY <1>3, Positions
  <2>2. Weight(recs, one) = L
    BY <1>2, <1>3, WeightOfAll
  <2>3. R = Cardinality({k \in DOMAIN recs : recs[k] \in Reported})
    <3>1. {k \in DOMAIN recs : recs[k] \in Reported}
            = {k \in DOMAIN recs : recs[k].status = "reported"}
      BY <2>1
    <3>. QED
      BY <3>1 DEF CountOf
  <2>. HIDE DEF Reported, L, R
  <2>4. /\ Weight(recs, mark) = Cardinality({k \in DOMAIN recs : recs[k] \in Reported})
        /\ Weight(recs, mark) \in Nat /\ Weight(recs, mark) <= Len(recs)
        /\ Weight(recs, mark) = Len(recs) <=> (\A k \in DOMAIN recs : recs[k] \in Reported)
    BY <1>2, <1>3, WeightOfMarked
  <2>5. (\A k \in DOMAIN recs : recs[k] \in Reported) =>
          (\A k \in DOMAIN recs : recs[k].status = "reported")
    BY DEF Reported
  <2>. QED
    BY <2>1, <2>2, <2>3, <2>4, <2>5 DEF L
<1>7. /\ UsageOf(trials, c).calls = C
      /\ UsageComplete(UsageOf(trials, c)) <=>
           R = C /\ L - R = 0 /\ Monus(C, L) = 0 /\ Monus(L, C) = 0
  BY DEF UsageOf, UsageSummary, UsageComplete
<1>. HIDE DEF S, recs, Reported, one, mark, calls, lens, counts, L, C, R
<1>8. C \in Nat
  BY <1>1, <1>4, <1>5, SumNat
<1>9. UsageComplete(UsageOf(trials, c)) <=> R = L /\ L = C
  BY <1>6, <1>7, <1>8 DEF Monus
<1>10. R = SumOver(counts, S) /\ L = SumOver(lens, S)
  BY <1>3, <1>6
<1>11. /\ SumOver(counts, S) = SumOver(lens, S) => \A i \in S : counts[i] = lens[i]
       /\ SumOver(lens, S) = SumOver(calls, S) => \A i \in S : lens[i] = calls[i]
  <2>1. \A i \in S : counts[i] \in Int /\ lens[i] \in Int /\ counts[i] <= lens[i]
    BY <1>5
  <2>2. \A i \in S : lens[i] \in Int /\ calls[i] \in Int /\ lens[i] <= calls[i]
    BY <1>5
  <2>3. SumOver(counts, S) = SumOver(lens, S) => \A i \in S : counts[i] = lens[i]
    BY <1>1, <2>1, SumMonotone
  <2>4. SumOver(lens, S) = SumOver(calls, S) => \A i \in S : lens[i] = calls[i]
    BY <1>1, <2>2, SumMonotone
  <2>. QED
    BY <2>3, <2>4
<1>12. /\ (\A i \in S : counts[i] = lens[i]) => SumOver(counts, S) = SumOver(lens, S)
       /\ (\A i \in S : lens[i] = calls[i]) => SumOver(lens, S) = SumOver(calls, S)
  BY <1>1, SumSame
<1>13. UsageComplete(UsageOf(trials, c)) <=> \A i \in S : counts[i] = lens[i] /\ lens[i] = calls[i]
  BY <1>4, <1>9, <1>10, <1>11, <1>12
<1>14. UsageComplete(UsageOf(trials, c)) <=> (\A i \in S : AllReported(trials[i], c))
  BY <1>5, <1>13
<1>15. UsageComplete(UsageOf(trials, c)) =>
         L = C /\ \A n \in DOMAIN recs : recs[n].status = "reported"
  BY <1>6, <1>9
<1>. QED
  BY <1>7, <1>8, <1>14, <1>15 DEF S, recs, L, C

(* Merged tokens are counted, and a complete count of calls is not nothing. *)
LEMMA TokensAreCounted ==
  ASSUME NEW trials \in Seq(ObservedTrials), Len(trials) > 0, NEW c \in Conditions
  PROVE  /\ UsageOf(trials, c).tokens \in Nat
         /\ UsageOf(trials, c).tokens > 0 => Len(RecordsOf(trials, c)) > 0
         /\ UsageComplete(UsageOf(trials, c)) /\ CallsOf(trials, c) > 0
              => UsageOf(trials, c).tokens > 0
<1>. DEFINE recs == RecordsOf(trials, c)
            S == DOMAIN recs
            f == [n \in S |-> recs[n].tokens]
            T == UsageOf(trials, c).tokens
<1>1. recs \in Seq(Observations)
  BY MergedRecords
<1>2. /\ Len(recs) \in Nat /\ S = 1 .. Len(recs) /\ IsFiniteSet(S)
      /\ \A n \in S : recs[n] \in Observations
  <2>. HIDE DEF recs
  <2>. QED
    BY <1>1, Positions
<1>3. \A n \in S : f[n] \in Nat /\ (recs[n].status = "reported" => f[n] > 0)
  BY <1>2 DEF Observations
<1>4. T = SumOver(f, S)
  <2>1. T = SumFunction(f) /\ DOMAIN f = S
    BY DEF UsageOf, UsageSummary
  <2>. HIDE DEF f, S, T
  <2>. QED
    BY <2>1, SumOfFunction
<1>5. UsageComplete(UsageOf(trials, c)) /\ CallsOf(trials, c) > 0
        => Len(recs) > 0 /\ \A n \in S : recs[n].status = "reported"
  BY UsageIsComplete
<1>. HIDE DEF recs, S, f, T
<1>6. T \in Nat
  BY <1>2, <1>3, <1>4, SumNat
<1>7. T > 0 => Len(recs) > 0
  <2>1. SUFFICES ASSUME Len(recs) = 0 PROVE T = 0
    BY <1>2, <1>6
  <2>2. S = {}
    BY <1>2, <2>1
  <2>. QED
    BY <1>4, <2>2, SumEmpty
<1>8. ASSUME UsageComplete(UsageOf(trials, c)), CallsOf(trials, c) > 0 PROVE T > 0
  <2>1. 1 \in S /\ f[1] \in Nat /\ f[1] > 0
    BY <1>2, <1>3, <1>5, <1>8
  <2>2. T = f[1] + SumOver(f, S \ {1})
    <3>1. \A n \in S : f[n] \in Int
      BY <1>3
    <3>2. IsFiniteSet(S)
      BY <1>2
    <3>3. SumOver(f, S) = f[1] + SumOver(f, S \ {1})
      BY <2>1, <3>1, <3>2, SumWithout
    <3>. QED
      BY <1>4, <3>3
  <2>3. SumOver(f, S \ {1}) \in Nat
    <3>. DEFINE rest == S \ {1}
    <3>1. rest \in SUBSET S /\ \A n \in rest : f[n] \in Nat
      BY <1>3
    <3>. HIDE DEF rest
    <3>2. IsFiniteSet(rest)
      BY <1>2, <3>1, FS_Subset
    <3>3. SumOver(f, rest) \in Nat
      BY <3>1, <3>2, SumNat
    <3>. QED
      BY <3>3 DEF rest
  <2>. QED
    BY <2>1, <2>2, <2>3
<1>. QED
  BY <1>6, <1>7, <1>8 DEF recs, T

-----------------------------------------------------------------------------
(* The criteria *)

(* An assessment passes exactly where all its criteria do. *)
LEMMA PassedIs ==
  ASSUME NEW tables
  PROVE  AssessSuccess(tables).passed <=>
           /\ Judged(tables).positive_models = "passed"
           /\ Judged(tables).negative_models = "passed"
           /\ Judged(tables).global_delta = "passed"
           /\ Judged(tables).wins_over_losses = "passed"
           /\ Judged(tables).p_below_alpha = "passed"
           /\ Judged(tables).regressions = "passed"
           /\ Judged(tables).average_calls = "passed"
           /\ Judged(tables).token_ratio = "passed"
<1>. DEFINE J == Judged(tables)
            Names == {"positive_models", "negative_models", "global_delta", "wins_over_losses",
                      "p_below_alpha", "regressions", "average_calls", "token_ratio"}
<1>1. DOMAIN J = Names
  BY DEF Judged
<1>2. AssessSuccess(tables).passed <=> Range(J) = {"passed"}
  BY DEF AssessSuccess
<1>. HIDE DEF J
<1>3. Range(J) = {"passed"} <=> \A n \in Names : J[n] = "passed"
  BY <1>1 DEF Range
<1>4. (\A n \in Names : J[n] = "passed") <=>
           /\ J.positive_models = "passed" /\ J.negative_models = "passed"
           /\ J.global_delta = "passed" /\ J.wins_over_losses = "passed"
           /\ J.p_below_alpha = "passed" /\ J.regressions = "passed"
           /\ J.average_calls = "passed" /\ J.token_ratio = "passed"
  OBVIOUS
<1>. QED
  BY <1>2, <1>3, <1>4 DEF J

(* The criteria of the models that gained and lost. *)
LEMMA ModelsJudged ==
  ASSUME ProtocolMagnitudes, NEW tables \in [SlotIndices -> ObservedTables]
  PROVE  /\ Judged(tables).positive_models = "passed" <=>
              Cardinality({i \in SlotIndices :
                PassesIn(tables[i], "dohaa") > PassesIn(tables[i], "direct")})
                >= Criteria.minPositive
         /\ Judged(tables).negative_models = "passed" <=>
              Cardinality({i \in SlotIndices :
                PassesIn(tables[i], "dohaa") < PassesIn(tables[i], "direct")})
                <= Criteria.maxNegative
<1>. DEFINE delta(i) == Aggregate(tables).models[i].pair.difference
            own(i) == ModelStatistics(tables[i]).pair.difference
            up == {i \in SlotIndices : delta(i) > 0}
            down == {i \in SlotIndices : delta(i) < 0}
<1>1. \A i \in SlotIndices : delta(i) = own(i)
  BY DEF Aggregate
<1>2. ASSUME NEW i \in SlotIndices
      PROVE  /\ own(i) > 0 <=> PassesIn(tables[i], "dohaa") > PassesIn(tables[i], "direct")
             /\ own(i) < 0 <=> PassesIn(tables[i], "dohaa") < PassesIn(tables[i], "direct")
  <2>1. tables[i] \in ObservedTables
    OBVIOUS
  <2>. QED
    BY <2>1, ModelSign
<1>3. /\ Judged(tables).positive_models = "passed" <=> Cardinality(up) >= Criteria.minPositive
      /\ Judged(tables).negative_models = "passed" <=> Cardinality(down) <= Criteria.maxNegative
  BY DEF Judged, Quantify, Verdict
<1>. HIDE DEF own, delta
<1>4. /\ up = {i \in SlotIndices : PassesIn(tables[i], "dohaa") > PassesIn(tables[i], "direct")}
      /\ down = {i \in SlotIndices : PassesIn(tables[i], "dohaa") < PassesIn(tables[i], "direct")}
  BY <1>1, <1>2
<1>. HIDE DEF up, down
<1>. QED
  BY <1>3, <1>4

(* The criteria of the cases that were won and lost, and of the sign test. *)
LEMMA CasesJudged ==
  ASSUME ProtocolMagnitudes, NEW tables \in [SlotIndices -> ObservedTables]
  PROVE  LET wins == Cardinality(Better(tables, "dohaa", "direct"))
             losses == Cardinality(Better(tables, "direct", "dohaa"))
         IN /\ wins \in Nat /\ losses \in Nat
            /\ Judged(tables).wins_over_losses = "passed" <=> wins > losses
            /\ wins > losses =>
                 (Judged(tables).p_below_alpha = "passed" <=>
                    2 * LowerTail(wins + losses, losses) * Alpha[2]
                      < Alpha[1] * 2 ^ (wins + losses))
<1>. DEFINE wins == Cardinality(Better(tables, "dohaa", "direct"))
            losses == Cardinality(Better(tables, "direct", "dohaa"))
            left == MeanRates(tables, "dohaa")
            right == MeanRates(tables, "direct")
            primary == Aggregate(tables).primary
            test == SignTest(wins, losses)
<1>1. /\ IntegersOf(left, CaseSet) /\ IntegersOf(right, CaseSet)
      /\ Better(tables, "dohaa", "direct") = {k \in CaseSet : left[k] > right[k]}
      /\ Better(tables, "direct", "dohaa") = {k \in CaseSet : right[k] > left[k]}
  BY MeanRatesOf, CaseOrder DEF Conditions
<1>2. IsFiniteSet(CaseSet) /\ CaseSet # {}
  <2>1. Cardinality(CaseSet) # 0
    BY CaseShape
  <2>. QED
    BY <2>1, CaseShape, FS_EmptySet
<1>3. wins \in Nat /\ losses \in Nat
  <2>1. /\ IsFiniteSet({k \in CaseSet : left[k] > right[k]})
        /\ IsFiniteSet({k \in CaseSet : right[k] > left[k]})
    <3>. HIDE DEF left, right
    <3>. QED
      BY <1>2, FS_Subset
  <2>. QED
    BY <1>1, <2>1, FS_CardinalityType
<1>4. primary = Paired(left, right)
  BY DEF Aggregate
<1>5. {k \in CaseSet : left[k] < right[k]} = {k \in CaseSet : right[k] > left[k]}
  <2>1. \A k \in CaseSet : left[k] \in Int /\ right[k] \in Int
    BY <1>1 DEF IntegersOf
  <2>. HIDE DEF left, right
  <2>. QED
    BY <2>1
<1>. HIDE DEF left, right
<1>6. /\ Paired(left, right).wins = Cardinality({k \in CaseSet : left[k] > right[k]})
      /\ Paired(left, right).losses = Cardinality({k \in CaseSet : left[k] < right[k]})
      /\ Paired(left, right).test =
              SignTest(Paired(left, right).wins, Paired(left, right).losses)
  <2>1. IntegersOf(left, CaseSet) /\ IntegersOf(right, CaseSet)
    BY <1>1
  <2>2. Compares(left, right, CaseSet)
    BY <1>2, <2>1, PairedOf
  <2>. QED
    BY <2>2 DEF Compares
<1>7. primary.wins = wins /\ primary.losses = losses /\ primary.test = test
  BY <1>1, <1>4, <1>5, <1>6
<1>8. /\ Judged(tables).wins_over_losses = "passed" <=> primary.wins > primary.losses
      /\ Judged(tables).p_below_alpha = "passed" <=>
           primary.test # NoTest /\ primary.test.p * Alpha[2] < Alpha[1] * primary.test.of
  BY DEF Judged, Verdict
<1>. HIDE DEF wins, losses, primary
<1>9. Judged(tables).wins_over_losses = "passed" <=> wins > losses
  BY <1>7, <1>8
<1>10. Judged(tables).p_below_alpha = "passed" <=>
         test # NoTest /\ test.p * Alpha[2] < Alpha[1] * test.of
  <2>. HIDE DEF test
  <2>. QED
    BY <1>7, <1>8
<1>11. ASSUME wins > losses
       PROVE  /\ test # NoTest
              /\ test.p * Alpha[2] < Alpha[1] * test.of <=>
                   2 * LowerTail(wins + losses, losses) * Alpha[2] < Alpha[1] * 2 ^ (wins + losses)
  <2>1. PICK a \in Nat, b \in Nat : a = Alpha[1] /\ b = Alpha[2] /\ 0 < a /\ a < b
    BY CriteriaAssumption
  <2>2. /\ test # NoTest
        /\ test.p * b < a * test.of <=>
             2 * LowerTail(wins + losses, losses) * b < a * 2 ^ (wins + losses)
    BY <1>3, <1>11, <2>1, SignTestBelow
  <2>. QED
    BY <2>1, <2>2
<1>12. wins > losses =>
                 (Judged(tables).p_below_alpha = "passed" <=>
                    2 * LowerTail(wins + losses, losses) * Alpha[2]
                      < Alpha[1] * 2 ^ (wins + losses))
  BY <1>10, <1>11
<1>. QED
  BY <1>3, <1>9, <1>12 DEF wins, losses

(* The controller never regresses. *)
LEMMA RegressionsJudged ==
  ASSUME NEW tables \in [SlotIndices -> ObservedTables]
  PROVE  Judged(tables).regressions = "passed"
<1>. DEFINE f == [i \in SlotIndices |-> Summary(tables[i])["dohaa"].regressed]
<1>1. ASSUME NEW i \in SlotIndices PROVE f[i] = 0
  <2>. DEFINE table == tables[i]
              bad == {j \in DOMAIN table :
                       table[j].on["dohaa"].completed /\ table[j].on["dohaa"].regressed}
  <2>1. DOMAIN table = 1 .. TableLength /\ \A j \in 1 .. TableLength : PossibleTrial(table[j])
    BY TableShape
  <2>2. bad = {}
    BY <2>1 DEF PossibleTrial
  <2>3. f[i] = Cardinality(bad)
    BY DEF Summary, Conditions
  <2>. QED
    BY <2>2, <2>3, FS_EmptySet
<1>2. DOMAIN f = SlotIndices /\ Regressions(tables) = SumFunction(f)
  BY DEF Regressions
<1>. HIDE DEF f
<1>3. SumOver(f, SlotIndices) = 0 * Cardinality(SlotIndices)
  BY <1>1, SlotShape, SumConstant
<1>4. Regressions(tables) = 0
  BY <1>2, <1>3, SlotShape, SumOfFunction
<1>5. Judged(tables).regressions = "passed" <=> Regressions(tables) <= Criteria.maxRegressions
  BY DEF Judged, Verdict
<1>6. Criteria.maxRegressions \in Nat
  BY CriteriaAssumption
<1>. QED
  BY <1>4, <1>5, <1>6

(* A ratio against one of the limits of the protocol. *)
LEMMA LimitIs ==
  ASSUME ProtocolMagnitudes, NEW limit \in {Criteria.maxCalls, Criteria.maxRatio},
         NEW n \in Nat, NEW d \in Nat \ {0}, d * limit[2] <= 2 * Million
  PROVE  AtMost(n, d, limit) <=> n * limit[2] <= limit[1] * d
<1>1. PICK p \in Nat, q \in Nat : limit = <<p, q>> /\ q > 0
  BY CriteriaAssumption
<1>2. (Million * p) % q = 0
  BY <1>1 DEF ProtocolMagnitudes
<1>3. d * q <= 2 * Million /\ q \in Nat \ {0} /\ limit[1] = p /\ limit[2] = q
  BY <1>1
<1>4. AtMost(n, d, <<p, q>>) <=> n * q <= p * d
  BY <1>1, <1>2, <1>3, RoundedRatio
<1>. QED
  BY <1>1, <1>3, <1>4

(* The criterion of the calls per trial. *)
LEMMA CallsJudged ==
  ASSUME ProtocolMagnitudes, NEW tables \in [SlotIndices -> ObservedTables]
  PROVE  Judged(tables).average_calls = "passed" <=>
           CallsOf(AllTrials(tables), "dohaa") * Criteria.maxCalls[2]
             <= Criteria.maxCalls[1] * Len(AllTrials(tables))
<1>. DEFINE trials == AllTrials(tables)
            n == CallsOf(trials, "dohaa")
            d == Len(trials)
            limit == Criteria.maxCalls
<1>1. trials \in Seq(ObservedTrials) /\ d \in Nat \ {0} /\ d = Len(Slots) * TableLength
  BY MergedTrials, MergedLength
<1>2. n \in Nat
  BY <1>1, UsageIsComplete DEF Conditions
<1>3. d * limit[2] <= 2 * Million
  BY <1>1 DEF ProtocolMagnitudes, TableLength
<1>4. Judged(tables).average_calls = "passed" <=> AtMost(n, d, limit)
  BY DEF Judged, Verdict
<1>. HIDE DEF trials, n, d
<1>5. AtMost(n, d, limit) <=> n * limit[2] <= limit[1] * d
  <2>1. limit \in {Criteria.maxCalls, Criteria.maxRatio}
    OBVIOUS
  <2>. HIDE DEF limit
  <2>. QED
    BY <1>1, <1>2, <1>3, <2>1, LimitIs
<1>. QED
  BY <1>4, <1>5 DEF trials, n, d

(* Where the controller is better at a case, it made a call. *)
LEMMA BetterMeansCalls ==
  ASSUME NEW tables \in [SlotIndices -> ObservedTables],
         Better(tables, "dohaa", "direct") # {}
  PROVE  CallsOf(AllTrials(tables), "dohaa") > 0
<1>. DEFINE c == "dohaa"
<1>0. c \in Conditions /\ "direct" \in Conditions
  BY DEF Conditions
<1>. HIDE DEF c
<1>1. PICK k \in CaseSet : Score(tables, c, k) > 0
  <2>1. Cases(tables[1]) = CaseSet
    <3>1. 1 \in SlotIndices
      BY SlotShape
    <3>. QED
      BY <3>1, CaseShape
  <2>2. PICK k \in CaseSet : Score(tables, c, k) > Score(tables, "direct", k)
    BY <2>1 DEF Better, Score, c
  <2>3. Score(tables, c, k) \in Nat /\ Score(tables, "direct", k) \in Nat
    BY <1>0, ScoresAdd
  <2>. QED
    BY <2>2, <2>3
<1>2. PICK i \in SlotIndices : Passes(tables[i], c, k) # 0
  <2>1. SUFFICES ASSUME \A i \in SlotIndices : Passes(tables[i], c, k) = 0 PROVE FALSE
    OBVIOUS
  <2>. DEFINE f == [i \in SlotIndices |-> Passes(tables[i], c, k)]
  <2>2. (\A i \in SlotIndices : f[i] = 0) /\ DOMAIN f = SlotIndices
    BY <2>1
  <2>3. Score(tables, c, k) = SumFunction(f)
    BY DEF Score
  <2>. HIDE DEF f
  <2>4. SumOver(f, SlotIndices) = 0 * Cardinality(SlotIndices)
    BY <2>2, SlotShape, SumConstant
  <2>5. Score(tables, c, k) = 0
    BY <2>2, <2>3, <2>4, SlotShape, SumOfFunction
  <2>. QED
    BY <1>1, <2>5
<1>3. tables[i] \in ObservedTables
  OBVIOUS
<1>4. PICK j \in DOMAIN tables[i] : tables[i][j].on[c].passed
  <2>. DEFINE of == {j \in OfCase(tables[i], k) : tables[i][j].on[c].passed}
  <2>1. of # {}
    <3>1. Cardinality(of) # 0
      BY <1>2 DEF Passes
    <3>. HIDE DEF of
    <3>. QED
      BY <3>1, FS_EmptySet
  <2>. QED
    BY <2>1 DEF OfCase
<1>. DEFINE weigh == [t \in ObservedTrials |-> t.on[c].calls]
            table == tables[i]
            f == [n \in DOMAIN table |-> weigh[table[n]]]
            w == [n \in SlotIndices |-> Weight(tables[n], weigh)]
            trials == AllTrials(tables)
<1>5. \A t \in ObservedTrials : weigh[t] \in Nat /\ weigh[t] = t.on[c].calls
  BY <1>0, TrialShape
<1>6. /\ table \in Seq(ObservedTrials) /\ table[j] \in ObservedTrials /\ weigh[table[j]] > 0
  <2>1. PossibleTrial(table[j]) /\ table \in Seq(ObservedTrials) /\ j \in DOMAIN table
    BY <1>3, TableShape
  <2>2. table[j] \in ObservedTrials
    BY <2>1, Positions
  <2>3. Possible(table[j].on[c])
    BY <1>0, <2>1 DEF PossibleTrial
  <2>4. table[j].on[c].calls > 0
    BY <1>4, <2>3 DEF Possible
  <2>. HIDE DEF table, weigh
  <2>. QED
    BY <1>5, <2>1, <2>2, <2>4
<1>. HIDE DEF weigh
<1>7. w[i] > 0
  <2>1. IsFiniteSet(DOMAIN table) /\ \A n \in DOMAIN table : table[n] \in ObservedTrials
    <3>. HIDE DEF table
    <3>. QED
      BY <1>6, Positions
  <2>2. (\A n \in DOMAIN table : f[n] \in Nat) /\ f[j] > 0 /\ j \in DOMAIN table
    BY <1>5, <1>6, <2>1
  <2>3. w[i] = SumOver(f, DOMAIN table)
    BY DEF Weight
  <2>. HIDE DEF f, table, w
  <2>4. SumOver(f, DOMAIN table) > 0
    BY <2>1, <2>2, SumPositive
  <2>. QED
    BY <2>3, <2>4
<1>8. ASSUME NEW n \in SlotIndices PROVE w[n] \in Nat
  <2>. DEFINE other == tables[n]
              g == [m \in DOMAIN other |-> weigh[other[m]]]
  <2>1. other \in Seq(ObservedTrials)
    BY TableShape
  <2>2. IsFiniteSet(DOMAIN other) /\ \A m \in DOMAIN other : other[m] \in ObservedTrials
    <3>. HIDE DEF other
    <3>. QED
      BY <2>1, Positions
  <2>3. \A m \in DOMAIN other : g[m] \in Nat
    BY <1>5, <2>2
  <2>4. w[n] = SumOver(g, DOMAIN other)
    BY DEF Weight
  <2>. HIDE DEF other, g, w
  <2>. QED
    BY <2>2, <2>3, <2>4, SumNat
<1>9. trials \in Seq(ObservedTrials) /\ Weight(trials, weigh) = SumOver(w, SlotIndices)
  BY <1>5, MergedTrials
<1>10. CallsOf(trials, c) = Weight(trials, weigh)
  <2>. DEFINE calls == [n \in DOMAIN trials |-> trials[n].on[c].calls]
  <2>1. CallsOf(trials, c) = SumFunction(calls) /\ DOMAIN calls = DOMAIN trials
    BY DEF CallsOf
  <2>. HIDE DEF trials
  <2>2. \A n \in DOMAIN trials : trials[n] \in ObservedTrials
    BY <1>9, Positions
  <2>3. calls = [n \in DOMAIN trials |-> weigh[trials[n]]]
    BY <1>5, <2>2
  <2>. HIDE DEF calls
  <2>4. SumFunction(calls) = SumOver(calls, DOMAIN trials)
    BY <2>1, SumOfFunction
  <2>. QED
    BY <2>1, <2>3, <2>4 DEF Weight
<1>. HIDE DEF w, trials
<1>11. SumOver(w, SlotIndices) > 0
  BY <1>7, <1>8, SlotShape, SumPositive
<1>12. CallsOf(trials, c) > 0
  BY <1>9, <1>10, <1>11
<1>. QED
  BY <1>12 DEF c, trials

(* Every call is reported exactly where the merged usage of both is complete. *)
LEMMA EveryCallIs ==
  ASSUME NEW tables \in [SlotIndices -> ObservedTables]
  PROVE  EveryCallIsReported(tables) <=>
           /\ UsageComplete(UsageOf(AllTrials(tables), "direct"))
           /\ UsageComplete(UsageOf(AllTrials(tables), "dohaa"))
<1>. DEFINE trials == AllTrials(tables)
<1>1. trials \in Seq(ObservedTrials) /\ Len(trials) > 0
  BY MergedTrials, MergedLength
<1>2. ASSUME NEW c \in {"direct", "dohaa"}
      PROVE  UsageComplete(UsageOf(trials, c))
               <=> (\A i \in DOMAIN trials : AllReported(trials[i], c))
  <2>1. c \in Conditions
    BY DEF Conditions
  <2>. HIDE DEF trials
  <2>. QED
    BY <1>1, <2>1, UsageIsComplete
<1>3. EveryCallIsReported(tables) <=>
        \A i \in DOMAIN trials : \A c \in {"direct", "dohaa"} : AllReported(trials[i], c)
  <2>1. \A t, c : AllReported(t, c) <=>
          /\ Len(t.on[c].records) = t.on[c].calls
          /\ \A record \in Range(t.on[c].records) : record.status = "reported"
    BY DEF AllReported, Range
  <2>2. EveryCallIsReported(tables) <=>
          \A t \in Range(trials), c \in {"direct", "dohaa"} : AllReported(t, c)
    BY <2>1 DEF EveryCallIsReported
  <2>. HIDE DEF trials
  <2>. QED
    BY <2>2 DEF Range
<1>. HIDE DEF trials
<1>4. EveryCallIsReported(tables) <=>
        /\ UsageComplete(UsageOf(trials, "direct"))
        /\ UsageComplete(UsageOf(trials, "dohaa"))
  BY <1>2, <1>3
<1>. QED
  BY <1>4 DEF trials

(* The criterion of the token ratio. *)
LEMMA TokensJudged ==
  ASSUME ProtocolMagnitudes,
         NEW tables \in [SlotIndices -> Tables] \cup [SlotIndices -> WholeTables]
  PROVE  LET fits == TokensOf(tables, "dohaa") * Criteria.maxRatio[2]
                       <= Criteria.maxRatio[1] * TokensOf(tables, "direct")
         IN /\ Judged(tables).token_ratio = "passed" => EveryCallIsReported(tables) /\ fits
            /\ /\ EveryCallIsReported(tables)
               /\ fits
               /\ CallsOf(AllTrials(tables), "dohaa") > 0
               => Judged(tables).token_ratio = "passed"
<1>. DEFINE trials == AllTrials(tables)
            direct == UsageOf(trials, "direct")
            dohaa == UsageOf(trials, "dohaa")
            limit == Criteria.maxRatio
            n == dohaa.tokens
            d == direct.tokens
            complete == TokensComplete(TokenDiagnostics(tables))
            reported == UsageComplete(direct) /\ UsageComplete(dohaa)
<1>1. tables \in [SlotIndices -> ObservedTables]
  BY DEF ObservedTables
<1>2. trials \in Seq(ObservedTrials) /\ Len(trials) > 0
  BY <1>1, MergedTrials, MergedLength
<1>3. "direct" \in Conditions /\ "dohaa" \in Conditions
  BY DEF Conditions
<1>4. TokensOf(tables, "dohaa") = n /\ TokensOf(tables, "direct") = d
  BY DEF TokensOf, UsageOf, UsageSummary
<1>5. EveryCallIsReported(tables) <=> reported
  BY <1>1, EveryCallIs
<1>6. complete <=> direct.calls > 0 /\ dohaa.calls > 0 /\ reported /\ d > 0
  BY DEF TokensComplete, TokenDiagnostics
<1>7. Judged(tables).token_ratio = "passed" <=> complete /\ AtMost(n, d, limit)
  <2>1. /\ TokenDiagnostics(tables).by["dohaa"] = dohaa
        /\ TokenDiagnostics(tables).by["direct"] = direct
    BY DEF TokenDiagnostics
  <2>. HIDE DEF dohaa, direct
  <2>. QED
    BY <2>1 DEF Judged, Verdict
<1>8. d * limit[2] <= 2 * Million
  BY <1>4 DEF ProtocolMagnitudes
<1>. HIDE DEF trials
<1>9. n \in Nat /\ d \in Nat
  BY <1>2, <1>3, TokensAreCounted
<1>10. /\ CallsOf(trials, "dohaa") \in Nat /\ CallsOf(trials, "direct") \in Nat
       /\ dohaa.calls = CallsOf(trials, "dohaa") /\ direct.calls = CallsOf(trials, "direct")
  BY <1>2, <1>3, UsageIsComplete
<1>11. UsageComplete(dohaa) /\ CallsOf(trials, "dohaa") > 0 => n > 0
  BY <1>2, <1>3, TokensAreCounted
<1>12. UsageComplete(direct) /\ d > 0 => CallsOf(trials, "direct") > 0
  <2>1. d > 0 => Len(RecordsOf(trials, "direct")) > 0
    BY <1>2, <1>3, TokensAreCounted
  <2>2. UsageComplete(direct) => Len(RecordsOf(trials, "direct")) = CallsOf(trials, "direct")
    BY <1>2, <1>3, UsageIsComplete
  <2>. QED
    BY <2>1, <2>2
<1>13. PICK p \in Nat, q \in Nat : limit = <<p, q>> /\ q > 0
  BY CriteriaAssumption
<1>14. limit[1] = p /\ limit[2] = q
  BY <1>13
<1>. HIDE DEF direct, dohaa, n, d
<1>15. d > 0 => (AtMost(n, d, limit) <=> n * limit[2] <= limit[1] * d)
  <2>1. limit \in {Criteria.maxCalls, Criteria.maxRatio}
    OBVIOUS
  <2>. HIDE DEF limit
  <2>. QED
    BY <1>8, <1>9, <2>1, LimitIs
<1>16. n * limit[2] <= limit[1] * d /\ n > 0 => d > 0
  <2>1. SUFFICES ASSUME n * q <= p * d, n > 0, d = 0 PROVE FALSE
    BY <1>9, <1>14
  <2>2. n * q >= 1
    <3>1. \A x, y \in Nat \ {0} : x * y >= 1
      OBVIOUS
    <3>. QED
      BY <1>9, <1>13, <2>1, <3>1
  <2>3. p * d = 0 /\ n * q \in Int
    BY <1>9, <1>13, <2>1
  <2>4. n * q <= p * d
    BY <2>1
  <2>5. \A x, y \in Int : ~ (x <= y /\ x >= 1 /\ y = 0)
    OBVIOUS
  <2>. QED
    BY <2>2, <2>3, <2>4, <2>5
<1>. HIDE DEF limit, complete
<1>17. Judged(tables).token_ratio = "passed"
         => EveryCallIsReported(tables) /\ n * limit[2] <= limit[1] * d
  BY <1>5, <1>6, <1>7, <1>15
<1>18. EveryCallIsReported(tables) /\ n * limit[2] <= limit[1] * d /\ CallsOf(trials, "dohaa") > 0
         => Judged(tables).token_ratio = "passed"
  BY <1>5, <1>6, <1>7, <1>10, <1>11, <1>12, <1>15, <1>16
<1>. QED
  BY <1>4, <1>17, <1>18 DEF trials, limit

(* What is assessed of tables that were observed is what their trials earn. *)
LEMMA VerdictIsEarned ==
  ASSUME ProtocolMagnitudes,
         NEW tables \in [SlotIndices -> Tables] \cup [SlotIndices -> WholeTables]
  PROVE  LET lead == Total(tables, "dohaa") - Total(tables, "direct") IN
         /\ AssessSuccess(tables).passed => OtherCriteriaHold(tables) /\ lead >= 0
         /\ OtherCriteriaHold(tables) /\ lead > 0 => AssessSuccess(tables).passed
<1>. DEFINE lead == Total(tables, "dohaa") - Total(tables, "direct")
            wins == Cardinality(Better(tables, "dohaa", "direct"))
            losses == Cardinality(Better(tables, "direct", "dohaa"))
            fits == TokensOf(tables, "dohaa") * Criteria.maxRatio[2]
                        <= Criteria.maxRatio[1] * TokensOf(tables, "direct")
            few == CallsOf(AllTrials(tables), "dohaa") * Criteria.maxCalls[2]
                     <= Criteria.maxCalls[1] * Len(AllTrials(tables))
            rare == 2 * LowerTail(wins + losses, losses) * Alpha[2] < Alpha[1] * 2 ^ (wins + losses)
            up == Cardinality({i \in SlotIndices :
                 PassesIn(tables[i], "dohaa") > PassesIn(tables[i], "direct")})
                   >= Criteria.minPositive
            down == Cardinality({i \in SlotIndices :
                 PassesIn(tables[i], "dohaa") < PassesIn(tables[i], "direct")})
                   <= Criteria.maxNegative
            J == Judged(tables)
<1>1. tables \in [SlotIndices -> ObservedTables]
  BY DEF ObservedTables
<1>2. OtherCriteriaHold(tables) <=>
        up /\ down /\ wins > losses /\ rare /\ few /\ EveryCallIsReported(tables) /\ fits
  BY DEF OtherCriteriaHold, LowerTail
<1>3. /\ J.positive_models = "passed" <=> up
      /\ J.negative_models = "passed" <=> down
  BY <1>1, ModelsJudged
<1>4. /\ J.global_delta = "passed" => lead >= 0
      /\ lead > 0 => J.global_delta = "passed"
  <2>1. J.global_delta = "passed" <=> Aggregate(tables).primary.difference > 0
    BY DEF Judged, Verdict
  <2>2. /\ Aggregate(tables).primary.difference > 0 => lead >= 0
        /\ lead > 0 => Aggregate(tables).primary.difference > 0
    BY <1>1, GlobalSign
  <2>. HIDE DEF J, lead
  <2>. QED
    BY <2>1, <2>2
<1>5. /\ J.wins_over_losses = "passed" <=> wins > losses
      /\ wins > losses => (J.p_below_alpha = "passed" <=> rare)
      /\ wins \in Nat /\ losses \in Nat
  BY <1>1, CasesJudged
<1>6. J.regressions = "passed"
  BY <1>1, RegressionsJudged
<1>7. J.average_calls = "passed" <=> few
  BY <1>1, CallsJudged
<1>8. /\ J.token_ratio = "passed" => EveryCallIsReported(tables) /\ fits
      /\ /\ EveryCallIsReported(tables)
         /\ fits
         /\ CallsOf(AllTrials(tables), "dohaa") > 0
         => J.token_ratio = "passed"
  BY TokensJudged
<1>9. wins > losses => CallsOf(AllTrials(tables), "dohaa") > 0
  <2>1. SUFFICES ASSUME wins > losses PROVE Better(tables, "dohaa", "direct") # {}
    BY <1>1, BetterMeansCalls
  <2>2. wins # 0
    BY <1>5, <2>1
  <2>. QED
    BY <2>2, FS_EmptySet
<1>10. AssessSuccess(tables).passed <=>
         /\ J.positive_models = "passed" /\ J.negative_models = "passed"
         /\ J.global_delta = "passed" /\ J.wins_over_losses = "passed"
         /\ J.p_below_alpha = "passed" /\ J.regressions = "passed"
         /\ J.average_calls = "passed" /\ J.token_ratio = "passed"
  BY PassedIs
<1>. DEFINE calls == CallsOf(AllTrials(tables), "dohaa") > 0
            other == OtherCriteriaHold(tables)
            every == EveryCallIsReported(tables)
            passed == AssessSuccess(tables).passed
<1>11. passed => other /\ lead >= 0
  <2>. HIDE DEF J, up, down, rare, few, fits, wins, losses, other, every
  <2>. QED
    BY <1>2, <1>3, <1>4, <1>5, <1>7, <1>8, <1>10 DEF other
<1>12. other /\ lead > 0 => passed
  <2>. HIDE DEF J, up, down, rare, few, fits, wins, losses, other, every
  <2>. QED
    BY <1>2, <1>3, <1>4, <1>5, <1>6, <1>7, <1>8, <1>9, <1>10 DEF other
<1>. QED
  BY <1>11, <1>12

-----------------------------------------------------------------------------
(* Trials *)

(* What a call may have recorded, and what it may have proposed. *)
Given == {reply.content.proposal : reply \in Replies}
Bests == Given \cup Proposals \cup {NoProposal}

(* A runtime that was called so often, its calls observed and its proposals kept. *)
Observing(a, most) ==
  /\ a \in [condition : Conditions, calls : 0 .. most, records : Seq(Observations),
            proposals : Seq(Given), best : Bests, scoped : BOOLEAN, repairs : BOOLEAN]
  /\ Len(a.records) <= a.calls

(* A condition under way between two calls. *)
Under(a) ==
  /\ Observing(a, 1)
  /\ Len(a.proposals) = a.calls
  /\ a.condition = "direct" => a.calls = 0
  /\ a.condition = "dohaa" /\ a.calls = 1 =>
       ~AllGatesPass(a.proposals[1]) /\ ~AllGatesPass(a.best)

(* What is promised of the outcome o of a condition. *)
Sound(c, o) ==
  /\ o.passed \in BOOLEAN /\ o.completed \in BOOLEAN /\ o.calls \in 0 .. 2
  /\ o.records \in Seq(Observations) /\ Len(o.records) <= o.calls
  /\ o.passed => o.completed /\ o.transition # "regressed"
  /\ o.completed => o.calls > 0
  /\ c = "direct" => o.calls <= 1 /\ o.transition # "regressed"
  /\ c = "self_reflection" /\ o.completed => o.calls = 2
  /\ c = "dohaa" =>
       /\ o.transition # "regressed"
       /\ o.completed => (o.reason = "succeeded" <=> o.passed)
       /\ o.first => o.passed /\ o.calls = 1

Busy == IF arm = NoArm THEN {} ELSE {arm.condition}

RowRecord == [passed : BOOLEAN, completed : BOOLEAN, regressed : BOOLEAN, calls : 0 .. 2,
              records : Seq(Observations)]
Trials == [case : {Suite[i] : i \in Int}, on : [Conditions -> RowRecord]]

TrialsInv ==
  /\ trial \in Int
  /\ arm = NoArm \/ Under(arm)
  /\ pending \subseteq Conditions /\ DOMAIN outcomes \subseteq Conditions
  /\ \A c \in DOMAIN outcomes : Sound(c, outcomes[c])
  /\ \/ Conditions = pending \cup Busy \cup DOMAIN outcomes
     \/ pending = {} /\ arm = NoArm /\ outcomes = <<>>
  /\ rows \in Seq(Trials)
  /\ \A i \in DOMAIN rows : PossibleTrial(rows[i])

(* Only a proposal that no longer passes is a regression. *)
LEMMA Transition ==
  ASSUME NEW p, NEW q
  PROVE  RepairTransition(p, q) = "regressed" <=> AllGatesPass(p) /\ ~AllGatesPass(q)
BY DEF RepairTransition

LEMMA Unstarted == ~Under(NoArm) /\ NoArm.condition \notin Conditions
BY DEF NoArm, Under, Observing, Conditions

LEMMA FailureIsObserved ==
  ASSUME NEW status \in Statuses \ {"reported"}
  PROVE  Failure(status) \in Observations
BY DEF Failure, Observations, Statuses

(* A usage is reported with a positive count, or it is a failure. *)
LEMMA UsageIsObserved ==
  ASSUME NEW reply \in Replies
  PROVE  NormalizedUsage(reply.usage) \in Observations
<1>. DEFINE usage == reply.usage
            wellformed == usage.kind = "object" /\ WellFormed(usage.counts)
<1>1. \A f \in DOMAIN usage.counts : usage.counts[f] \in Int
  BY RepliesAssumption
<1>. HIDE DEF usage
<1>2. CASE usage.kind = "absent"
  <2>1. NormalizedUsage(usage) = Failure("missing")
    BY <1>2, Zenon DEF NormalizedUsage
  <2>. QED
    BY <2>1, FailureIsObserved DEF Statuses, usage
<1>3. CASE usage.kind # "absent" /\ wellformed
  <2>1. NormalizedUsage(usage) = [status |-> "reported", tokens |-> usage.counts["total_tokens"]]
    BY <1>3, Zenon DEF NormalizedUsage
  <2>2. usage.counts["total_tokens"] > 0 /\ "total_tokens" \in DOMAIN usage.counts
    BY <1>3 DEF WellFormed
  <2>3. usage.counts["total_tokens"] \in Nat
    BY <1>1, <2>2
  <2>. QED
    BY <2>1, <2>2, <2>3 DEF Observations, Statuses, usage
<1>4. CASE usage.kind # "absent" /\ ~wellformed
  <2>1. NormalizedUsage(usage) = Failure("invalid")
    BY <1>4, Zenon DEF NormalizedUsage
  <2>. QED
    BY <2>1, FailureIsObserved DEF Statuses, usage
<1>. QED
  BY <1>2, <1>3, <1>4

LEMMA ObservedOnce ==
  ASSUME NEW reply \in Replies
  PROVE  Observed(reply) \in Seq(Observations) /\ Len(Observed(reply)) <= 1
<1>1. CASE reply.transport \in HandledFailures \cup {"json_invalid"}
  <2>a. reply.transport # "answered" /\ reply.transport # "disconnected"
    BY <1>1 DEF HandledFailures
  <2>1. Observed(reply) = <<Failure("unavailable")>>
    BY <1>1, <2>a, Zenon DEF Observed
  <2>2. Failure("unavailable") \in Observations
    BY FailureIsObserved DEF Statuses
  <2>. QED
    BY <2>1, <2>2
<1>2. CASE reply.transport = "answered"
  <2>1. "answered" \notin HandledFailures \cup {"json_invalid"}
    BY DEF HandledFailures
  <2>2. Observed(reply) = <<NormalizedUsage(reply.usage)>>
    BY <1>2, <2>1, Zenon DEF Observed
  <2>3. NormalizedUsage(reply.usage) \in Observations
    BY UsageIsObserved
  <2>. QED
    BY <2>2, <2>3
<1>3. CASE reply.transport = "disconnected"
  <2>1. "disconnected" \notin HandledFailures \cup {"json_invalid"} /\ "disconnected" # "answered"
    BY DEF HandledFailures
  <2>2. Observed(reply) = <<>>
    BY <1>3, <2>1, Zenon DEF Observed
  <2>. QED
    BY <2>2
<1>. QED
  BY <1>1, <1>2, <1>3, RepliesAssumption

(* The runtime after one more call. *)
LEMMA CalledOnceMore ==
  ASSUME Under(arm), NEW reply \in Replies, NEW p, p = reply.content.proposal,
         NEW a, a = Called(reply, p)
  PROVE  /\ Observing(a, 2)
         /\ a.condition = arm.condition /\ a.calls = arm.calls + 1
         /\ a.best = arm.best /\ a.scoped = arm.scoped /\ a.repairs = arm.repairs
         /\ Returned(reply) =>
              /\ Len(a.proposals) = a.calls
              /\ a.proposals[1] = IF arm.calls = 0 THEN p ELSE arm.proposals[1]
         /\ ~Returned(reply) => a.proposals = arm.proposals
<1>. DEFINE records == arm.records \o Observed(reply)
            proposals == IF Returned(reply) THEN Append(arm.proposals, p) ELSE arm.proposals
<1>1. /\ records \in Seq(Observations) /\ Len(records) <= arm.calls + 1
      /\ arm.calls \in 0 .. 1
  BY ObservedOnce, ConcatProperties DEF Under, Observing
<1>2. p \in Given /\ arm.proposals \in Seq(Given) /\ Len(arm.proposals) = arm.calls
  BY DEF Given, Under, Observing
<1>3. /\ proposals \in Seq(Given)
      /\ Returned(reply) =>
           /\ Len(proposals) = arm.calls + 1
           /\ proposals[1] = IF arm.calls = 0 THEN p ELSE arm.proposals[1]
  BY <1>1, <1>2, AppendProperties
<1>4. a = [arm EXCEPT !.calls = @ + 1, !.records = records, !.proposals = proposals]
  BY DEF Called
<1>. HIDE DEF records, proposals
<1>. DEFINE SO == Seq(Observations)
            SG == Seq(Given)
<1>5. records \in SO /\ proposals \in SG /\ arm.calls + 1 \in 0 .. 2
  BY <1>1, <1>3
<1>6. arm \in [condition : Conditions, calls : 0 .. 1, records : SO, proposals : SG,
               best : Bests, scoped : BOOLEAN, repairs : BOOLEAN]
  BY DEF Under, Observing
<1>. HIDE DEF SO, SG
<1>7. /\ a \in [condition : Conditions, calls : 0 .. 2, records : SO, proposals : SG,
                best : Bests, scoped : BOOLEAN, repairs : BOOLEAN]
      /\ a.records = records /\ a.proposals = proposals /\ a.calls = arm.calls + 1
      /\ a.condition = arm.condition
      /\ a.best = arm.best /\ a.scoped = arm.scoped /\ a.repairs = arm.repairs
  BY <1>4, <1>5, <1>6
<1>8. Observing(a, 2)
  BY <1>7, <1>1 DEF Observing, SO, SG
<1>. QED
  BY <1>3, <1>7, <1>8 DEF proposals

LEMMA FailureIsSound ==
  ASSUME NEW a, NEW reason, Observing(a, 2),
         a.condition = "direct" => a.calls <= 1,
         a.condition = "dohaa" => a.proposals = <<>> \/ ~AllGatesPass(a.proposals[1])
  PROVE  Sound(a.condition, FailedOutcome(a, reason))
BY DEF Sound, FailedOutcome, Observing, AllGatesPass

LEMMA CompletionIsSound ==
  ASSUME NEW a, NEW final, NEW reason, Observing(a, 2), a.calls > 0,
         a.condition = "direct" => a.calls <= 1 /\ a.proposals[1] = final,
         a.condition = "self_reflection" => a.calls = 2,
         a.condition = "dohaa" =>
           /\ reason = "succeeded" <=> AllGatesPass(final)
           /\ AllGatesPass(a.proposals[1]) => AllGatesPass(final) /\ a.calls = 1
  PROVE  Sound(a.condition, CompletedOutcome(a, final, reason))
<1>. DEFINE o == CompletedOutcome(a, final, reason)
<1>1. o.transition = "regressed" <=> AllGatesPass(a.proposals[1]) /\ ~AllGatesPass(final)
  BY Transition DEF CompletedOutcome
<1>2. /\ o.passed = AllGatesPass(final) /\ o.first = AllGatesPass(a.proposals[1])
      /\ o.completed = TRUE /\ o.calls = a.calls /\ o.records = a.records /\ o.reason = reason
  BY DEF CompletedOutcome
<1>3. o.passed \in BOOLEAN /\ o.first \in BOOLEAN
  BY <1>2 DEF AllGatesPass
<1>. QED
  BY <1>1, <1>2, <1>3 DEF Sound, Observing

(* A condition that is finished leaves its outcome; one that goes on, its runtime. *)
LEMMA FinishKeeps ==
  ASSUME TrialsInv, arm # NoArm, NEW o, Sound(arm.condition, o), Finish(o)
  PROVE  TrialsInv'
<1>1. arm.condition \in Conditions /\ Busy = {arm.condition}
  BY DEF TrialsInv, Under, Observing, Busy
<1>2. PICK c \in Conditions : c = arm.condition
  BY <1>1
<1>3. outcomes' = Including(outcomes, c, o) /\ arm' = NoArm
      /\ UNCHANGED <<trial, pending, rows>>
  BY <1>2 DEF Finish
<1>4. /\ DOMAIN outcomes' = DOMAIN outcomes \cup {c} /\ outcomes'[c] = o
      /\ \A y \in DOMAIN outcomes \ {c} : outcomes'[y] = outcomes[y]
  BY <1>3 DEF Including
<1>5. \A y \in DOMAIN outcomes' : Sound(y, outcomes'[y])
  BY <1>2, <1>4 DEF TrialsInv
<1>6. Busy' = {}
  BY <1>3 DEF Busy
<1>. QED
  BY <1>1, <1>2, <1>3, <1>4, <1>5, <1>6 DEF TrialsInv

LEMMA ContinueKeeps ==
  ASSUME TrialsInv, arm # NoArm, NEW a, Under(a), a.condition = arm.condition, Continue(a)
  PROVE  TrialsInv'
<1>1. arm' = a /\ UNCHANGED <<trial, pending, outcomes, rows>>
  BY DEF Continue
<1>2. arm' # NoArm /\ Busy' = Busy
  BY <1>1, Unstarted DEF Busy
<1>. QED
  BY <1>1, <1>2 DEF TrialsInv

LEMMA VerifiedKeeps ==
  ASSUME TrialsInv, arm # NoArm, NEW a, NEW p, p \in Bests,
         Observing(a, 2), Len(a.proposals) = a.calls, a.calls > 0,
         a.condition = "dohaa", arm.condition = "dohaa",
         AllGatesPass(a.proposals[1]) => AllGatesPass(p) /\ a.calls = 1,
         Verified(a, p)
  PROVE  TrialsInv'
<1>1. Reason(a, p) = "succeeded" <=> AllGatesPass(p)
  <2>1. CASE ControllerPasses(p)
    <3>1. Reason(a, p) = "succeeded"
      BY <2>1, Zenon DEF Reason
    <3>. QED
      BY <2>1, <3>1 DEF ControllerPasses
  <2>2. CASE ~ControllerPasses(p) /\ a.scoped /\ ~HasScope(p)
    <3>1. Reason(a, p) = "unsignaled_failure"
      BY <2>2, Zenon DEF Reason
    <3>. QED
      BY <2>2, <3>1 DEF ControllerPasses
  <2>3. CASE ~ControllerPasses(p) /\ ~(a.scoped /\ ~HasScope(p))
    <3>1. Reason(a, p) = "attempt_budget_exhausted"
      BY <2>3, Zenon DEF Reason
    <3>. QED
      BY <2>3, <3>1 DEF ControllerPasses
  <2>. QED
    BY <2>1, <2>2, <2>3
<1>2. CASE Settled(a, p)
  <2>1. Finish(CompletedOutcome(a, p, Reason(a, p)))
    BY <1>2 DEF Verified
  <2>2. Sound(a.condition, CompletedOutcome(a, p, Reason(a, p)))
    BY <1>1, CompletionIsSound
  <2>. QED
    BY <2>1, <2>2, FinishKeeps
<1>3. CASE ~Settled(a, p)
  <2>. DEFINE b == [a EXCEPT !.best = p]
              SO == Seq(Observations)
              SG == Seq(Given)
  <2>1. Continue(b)
    BY <1>3 DEF Verified
  <2>2. a.calls = 1 /\ ~AllGatesPass(p) /\ ~AllGatesPass(a.proposals[1])
    BY <1>3 DEF Settled, ControllerPasses, Observing
  <2>3. a \in [condition : Conditions, calls : 0 .. 2, records : SO, proposals : SG,
               best : Bests, scoped : BOOLEAN, repairs : BOOLEAN]
    BY DEF Observing
  <2>. HIDE DEF SO, SG
  <2>4. /\ b \in [condition : Conditions, calls : 0 .. 1, records : SO, proposals : SG,
                  best : Bests, scoped : BOOLEAN, repairs : BOOLEAN]
        /\ b.records = a.records /\ b.proposals = a.proposals /\ b.calls = a.calls
        /\ b.condition = a.condition /\ b.best = p
    BY <2>2, <2>3
  <2>5. Under(b)
    BY <2>2, <2>4 DEF Under, Observing, SO, SG
  <2>6. b.condition = arm.condition
    BY <2>4
  <2>. HIDE DEF b
  <2>. QED
    BY <2>1, <2>5, <2>6, ContinueKeeps
<1>. QED
  BY <1>2, <1>3

LEMMA RepairedIsBest ==
  ASSUME NEW scoped, NEW q \in Given, NEW p \in Repaired(scoped, q)
  PROVE  p \in Bests /\ (AllGatesPass(q) => p = q)
BY DEF Repaired, Bests, HasScope, AllGatesPass

LEMMA AnswerKeeps ==
  ASSUME TrialsInv, NEW reply \in Replies, Answer(reply)
  PROVE  TrialsInv'
<1>1. arm # NoArm /\ Under(arm)
  BY DEF Answer, TrialsInv
<1>2. PICK p \in Given : p = reply.content.proposal
  BY DEF Given
<1>3. PICK a : a = Called(reply, p)
  OBVIOUS
<1>4. /\ Observing(a, 2)
      /\ a.condition = arm.condition /\ a.calls = arm.calls + 1
      /\ a.best = arm.best /\ a.scoped = arm.scoped /\ a.repairs = arm.repairs
      /\ Returned(reply) =>
           /\ Len(a.proposals) = a.calls
           /\ a.proposals[1] = IF arm.calls = 0 THEN p ELSE arm.proposals[1]
      /\ ~Returned(reply) => a.proposals = arm.proposals
  BY <1>1, <1>2, <1>3, CalledOnceMore
<1>5. /\ arm.calls \in 0 .. 1 /\ arm.scoped \in BOOLEAN /\ arm.best \in Bests
      /\ arm.proposals \in Seq(Given) /\ Len(arm.proposals) = arm.calls
  BY <1>1 DEF Under, Observing
<1>6. arm.calls = 0 => arm.proposals = <<>>
  BY <1>5, EmptySeq
<1>7. CASE CallDirect(reply, p)
  <2>1. arm.condition = "direct" /\ arm.calls = 0
    BY <1>1, <1>7 DEF CallDirect, Under
  <2>2. CASE Returned(reply)
    <3>1. Finish(CompletedOutcome(a, p, "none"))
      BY <1>3, <1>7, <2>2 DEF CallDirect
    <3>2. Sound(a.condition, CompletedOutcome(a, p, "none"))
      BY <1>4, <2>1, <2>2, CompletionIsSound
    <3>. QED
      BY <1>1, <1>4, <3>1, <3>2, FinishKeeps
  <2>3. CASE ~Returned(reply)
    <3>1. Finish(FailedOutcome(a, "none"))
      BY <1>3, <1>7, <2>3 DEF CallDirect
    <3>2. Sound(a.condition, FailedOutcome(a, "none"))
      BY <1>4, <2>1, <2>3, FailureIsSound
    <3>. QED
      BY <1>1, <1>4, <3>1, <3>2, FinishKeeps
  <2>. QED
    BY <2>2, <2>3
<1>8. CASE CallReflection(reply, p)
  <2>1. arm.condition = "self_reflection"
    BY <1>8 DEF CallReflection
  <2>2. CASE ~Returned(reply)
    <3>1. Finish(FailedOutcome(a, "none"))
      BY <1>3, <1>8, <2>2, Zenon DEF CallReflection
    <3>2. Sound(a.condition, FailedOutcome(a, "none"))
      BY <1>4, <2>1, FailureIsSound
    <3>. QED
      BY <1>1, <1>4, <3>1, <3>2, FinishKeeps
  <2>3. CASE Returned(reply) /\ arm.calls = 0
    <3>0. arm.calls # 1
      BY <2>3
    <3>1. Continue(a)
      BY <1>3, <1>8, <2>3, <3>0, Zenon DEF CallReflection
    <3>2. Under(a)
      BY <1>4, <2>1, <2>3 DEF Under, Observing
    <3>. QED
      BY <1>1, <1>4, <3>1, <3>2, ContinueKeeps
  <2>4. CASE Returned(reply) /\ arm.calls = 1
    <3>0. arm.calls # 0
      BY <2>4
    <3>1. Finish(CompletedOutcome(a, p, "none"))
      BY <1>3, <1>8, <2>4, <3>0, Zenon DEF CallReflection
    <3>2. Sound(a.condition, CompletedOutcome(a, p, "none"))
      BY <1>4, <2>1, <2>4, CompletionIsSound
    <3>. QED
      BY <1>1, <1>4, <3>1, <3>2, FinishKeeps
  <2>. QED
    BY <1>5, <2>2, <2>3, <2>4
<1>9. CASE FirstAttempt(reply, p)
  <2>1. arm.condition = "dohaa" /\ arm.calls = 0
    BY <1>9 DEF FirstAttempt
  <2>2. CASE Returned(reply)
    <3>1. PICK q \in Repaired(arm.scoped, p) : Verified(a, q)
      BY <1>3, <1>9, <2>2 DEF FirstAttempt
    <3>2. q \in Bests /\ (AllGatesPass(p) => q = p)
      BY <1>2, RepairedIsBest
    <3>3. /\ Len(a.proposals) = a.calls /\ a.calls > 0 /\ a.condition = "dohaa"
          /\ AllGatesPass(a.proposals[1]) => AllGatesPass(q) /\ a.calls = 1
      BY <1>4, <2>1, <2>2, <3>2
    <3>. QED
      BY <1>1, <1>4, <2>1, <3>1, <3>2, <3>3, VerifiedKeeps
  <2>3. CASE ~Returned(reply)
    <3>1. Finish(FailedOutcome(a, "runtime.failed"))
      BY <1>3, <1>9, <2>3 DEF FirstAttempt
    <3>2. Sound(a.condition, FailedOutcome(a, "runtime.failed"))
      BY <1>4, <1>6, <2>1, <2>3, FailureIsSound
    <3>. QED
      BY <1>1, <1>4, <3>1, <3>2, FinishKeeps
  <2>. QED
    BY <2>2, <2>3
<1>10. CASE SecondAttempt(reply, p)
  <2>1. /\ arm.condition = "dohaa" /\ arm.calls = 1
        /\ ~AllGatesPass(arm.proposals[1]) /\ ~AllGatesPass(arm.best)
    BY <1>1, <1>10 DEF SecondAttempt, Under
  <2>2. CASE ~Returned(reply)
    <3>1. Finish(FailedOutcome(a, "runtime.failed"))
      BY <1>3, <1>10, <2>2 DEF SecondAttempt
    <3>2. Sound(a.condition, FailedOutcome(a, "runtime.failed"))
      BY <1>4, <2>1, <2>2, FailureIsSound
    <3>. QED
      BY <1>1, <1>4, <3>1, <3>2, FinishKeeps
  <2>3. ASSUME NEW reason, reason # "succeeded", Returned(reply),
               arm.scoped \/ p = arm.proposals[1],
               Finish(CompletedOutcome(a, IF arm.scoped THEN arm.best ELSE p, reason))
        PROVE  TrialsInv'
    <3>1. Sound(a.condition,
                CompletedOutcome(a, IF arm.scoped THEN arm.best ELSE p, reason))
      BY <1>4, <2>1, <2>3, CompletionIsSound
    <3>. QED
      BY <1>1, <1>4, <2>3, <3>1, FinishKeeps
  <2>4. ASSUME Returned(reply), NEW q \in Repaired(arm.scoped, p), Verified(a, q)
        PROVE  TrialsInv'
    <3>1. q \in Bests
      BY <1>2, RepairedIsBest
    <3>2. /\ Len(a.proposals) = a.calls /\ a.calls > 0 /\ a.condition = "dohaa"
          /\ ~AllGatesPass(a.proposals[1])
      BY <1>4, <2>1, <2>4
    <3>. QED
      BY <1>1, <1>4, <2>1, <2>4, <3>1, <3>2, VerifiedKeeps
  <2>. QED
    BY <1>3, <1>10, <2>2, <2>3, <2>4 DEF SecondAttempt
<1>. QED
  BY <1>2, <1>7, <1>8, <1>9, <1>10 DEF Answer

LEMMA BeginKeeps ==
  ASSUME TrialsInv, NEW c \in Conditions, BeginCondition(c)
  PROVE  TrialsInv'
<1>1. PICK scoped \in BOOLEAN, repairs \in BOOLEAN :
        arm' = [NoArm EXCEPT !.condition = c, !.scoped = scoped, !.repairs = repairs]
  BY DEF BeginCondition
<1>2. /\ arm = NoArm /\ c \in pending /\ pending' = pending \ {c}
      /\ UNCHANGED <<trial, outcomes, rows>>
  BY DEF BeginCondition
<1>3. arm' = [condition |-> c, calls |-> 0, records |-> <<>>, proposals |-> <<>>,
              best |-> NoProposal, scoped |-> scoped, repairs |-> repairs]
  BY <1>1 DEF NoArm
<1>. DEFINE SO == Seq(Observations)
            SG == Seq(Given)
<1>4. <<>> \in SO /\ <<>> \in SG /\ Len(<<>>) = 0 /\ NoProposal \in Bests
  BY EmptySeq DEF Bests
<1>. HIDE DEF SO, SG
<1>5. arm' \in [condition : Conditions, calls : 0 .. 1, records : SO, proposals : SG,
                best : Bests, scoped : BOOLEAN, repairs : BOOLEAN]
  BY <1>3, <1>4
<1>6. Under(arm')
  BY <1>3, <1>4, <1>5 DEF Under, Observing, SO, SG
<1>7. Busy = {} /\ Busy' = {c}
  BY <1>2, <1>3, <1>6, Unstarted DEF Busy
<1>. QED
  BY <1>2, <1>6, <1>7 DEF TrialsInv

LEMMA FactoryFailsKeeps ==
  ASSUME TrialsInv, NEW c \in Conditions, FactoryFails(c)
  PROVE  TrialsInv'
<1>1. /\ arm = NoArm /\ c \in pending /\ pending' = pending \ {c}
      /\ outcomes' = Including(outcomes, c, FailedOutcome(NoArm, "none"))
      /\ UNCHANGED <<trial, arm, rows>>
  BY DEF FactoryFails
<1>2. Sound(c, FailedOutcome(NoArm, "none"))
  <2>1. NoArm.calls = 0 /\ NoArm.records = <<>> /\ NoArm.proposals = <<>>
    BY DEF NoArm
  <2>2. FailedOutcome(NoArm, "none") =
          [completed |-> FALSE, calls |-> 0, records |-> <<>>, first |-> FALSE,
           passed |-> FALSE, transition |-> "runtime_failed", reason |-> "none"]
    BY <2>1 DEF FailedOutcome
  <2>3. <<>> \in Seq(Observations) /\ Len(<<>>) = 0
    BY EmptySeq
  <2>4. PICK o : o = FailedOutcome(NoArm, "none")
    OBVIOUS
  <2>5. /\ o.passed = FALSE /\ o.completed = FALSE /\ o.calls = 0 /\ o.first = FALSE
        /\ o.transition = "runtime_failed" /\ o.records = <<>>
    BY <2>2, <2>4
  <2>7. o.passed \in BOOLEAN /\ o.completed \in BOOLEAN
    BY <2>4 DEF FailedOutcome
  <2>6. o.records \in Seq(Observations) /\ Len(o.records) <= o.calls
    BY <2>3, <2>5
  <2>. QED
    BY <2>4, <2>5, <2>6, <2>7 DEF Sound
<1>3. /\ DOMAIN outcomes' = DOMAIN outcomes \cup {c}
      /\ outcomes'[c] = FailedOutcome(NoArm, "none")
      /\ \A y \in DOMAIN outcomes \ {c} : outcomes'[y] = outcomes[y]
  BY <1>1 DEF Including
<1>4. \A y \in DOMAIN outcomes' : Sound(y, outcomes'[y])
  BY <1>2, <1>3 DEF TrialsInv
<1>5. Busy = {} /\ Busy' = {}
  BY <1>1 DEF Busy
<1>. QED
  BY <1>1, <1>3, <1>4, <1>5 DEF TrialsInv

LEMMA RepairUnavailableKeeps ==
  ASSUME TrialsInv, RepairUnavailable
  PROVE  TrialsInv'
<1>1. /\ arm.condition = "dohaa" /\ arm.calls = 1
      /\ Finish(FailedOutcome(arm, "repair.runtime_unavailable"))
  BY DEF RepairUnavailable
<1>2. arm # NoArm /\ Under(arm)
  BY <1>1 DEF TrialsInv, NoArm
<1>3. Observing(arm, 2) /\ ~AllGatesPass(arm.proposals[1])
  <2>. DEFINE SO == Seq(Observations)
              SG == Seq(Given)
  <2>1. arm \in [condition : Conditions, calls : 0 .. 1, records : SO, proposals : SG,
                 best : Bests, scoped : BOOLEAN, repairs : BOOLEAN]
    BY <1>2 DEF Under, Observing
  <2>. HIDE DEF SO, SG
  <2>2. arm \in [condition : Conditions, calls : 0 .. 2, records : SO, proposals : SG,
                 best : Bests, scoped : BOOLEAN, repairs : BOOLEAN]
    BY <2>1
  <2>. QED
    BY <1>1, <1>2, <2>2 DEF Under, Observing, SO, SG
<1>4. Sound(arm.condition, FailedOutcome(arm, "repair.runtime_unavailable"))
  BY <1>1, <1>3, FailureIsSound
<1>. QED
  BY <1>1, <1>2, <1>4, FinishKeeps

LEMMA FinishTrialKeeps ==
  ASSUME TrialsInv, FinishTrial
  PROVE  TrialsInv'
<1>. DEFINE row == [case |-> Suite[(trial - 1) \div Repetitions + 1],
                    on |-> [c \in Conditions |-> Row(outcomes[c])]]
<1>1. /\ pending = {} /\ arm = NoArm /\ outcomes # <<>>
      /\ rows' = Append(rows, row) /\ trial' = trial + 1
      /\ pending' \in {Conditions, {}} /\ outcomes' = <<>> /\ arm' = NoArm
  BY DEF FinishTrial
<1>2. DOMAIN outcomes = Conditions
  BY <1>1 DEF TrialsInv, Busy
<1>3. \A c \in Conditions : Sound(c, outcomes[c])
  BY <1>2 DEF TrialsInv
<1>4. row \in Trials
  <2>1. Repetitions \in 1 .. 100
    BY RepetitionsAssumption DEF RepetitionsAssumption
  <2>2. (trial - 1) \div Repetitions + 1 \in Int
    BY <2>1 DEF TrialsInv
  <2>3. \A c \in Conditions : Row(outcomes[c]) \in RowRecord
    BY <1>3 DEF Sound, Row, RowRecord
  <2>. QED
    BY <2>2, <2>3 DEF Trials
<1>5. PossibleTrial(row)
  <2>1. ASSUME NEW c \in Conditions PROVE Possible(Row(outcomes[c]))
    <3>1. PICK o : o = outcomes[c]
      OBVIOUS
    <3>2. Sound(c, o)
      BY <1>3, <3>1
    <3>3. /\ o.records \in Seq([status : Statuses, tokens : Nat])
          /\ \A record \in Range(o.records) : record.status = "reported" => record.tokens > 0
      <4>1. o.records \in Seq(Observations)
        BY <3>2 DEF Sound
      <4>2. Observations \subseteq [status : Statuses, tokens : Nat]
        BY DEF Observations
      <4>3. Range(o.records) \in SUBSET Observations
        BY <4>1, RangeOfSeq
      <4>4. \A record \in Observations : record.status = "reported" => record.tokens > 0
        BY DEF Observations
      <4>5. o.records \in Seq([status : Statuses, tokens : Nat])
        BY <4>1, <4>2, SeqMonotonic
      <4>6. \A record \in Range(o.records) : record.status = "reported" => record.tokens > 0
        BY <4>3, <4>4
      <4>. QED
        BY <4>5, <4>6
    <3>4. Possible(Row(o))
      BY <3>2, <3>3 DEF Sound, Row, Possible
    <3>. QED
      BY <3>1, <3>4
  <2>2. \A c \in Conditions : row.on[c] = Row(outcomes[c])
    OBVIOUS
  <2>3. /\ Row(outcomes["direct"]).calls <= 1 /\ ~Row(outcomes["direct"]).regressed
        /\ ~Row(outcomes["dohaa"]).regressed
        /\ Row(outcomes["self_reflection"]).completed =>
             Row(outcomes["self_reflection"]).calls = 2
    BY <1>3 DEF Conditions, Sound, Row
  <2>. QED
    BY <2>1, <2>2, <2>3 DEF PossibleTrial, Conditions
<1>. HIDE DEF row
<1>6. rows' \in Seq(Trials) /\ \A i \in DOMAIN rows' : PossibleTrial(rows'[i])
  <2>1. rows \in Seq(Trials)
    BY DEF TrialsInv
  <2>2. /\ rows' \in Seq(Trials) /\ Len(rows') = Len(rows) + 1
        /\ \A i \in 1 .. Len(rows) : rows'[i] = rows[i]
        /\ rows'[Len(rows) + 1] = row
    BY <1>1, <1>4, <2>1, AppendProperties
  <2>3. DOMAIN rows = 1 .. Len(rows) /\ DOMAIN rows' = 1 .. Len(rows) + 1 /\ Len(rows) \in Nat
    BY <2>1, <2>2, LenProperties
  <2>4. ASSUME NEW i \in DOMAIN rows' PROVE PossibleTrial(rows'[i])
    <3>1. CASE i = Len(rows) + 1
      BY <1>5, <2>2, <3>1
    <3>2. CASE i \in 1 .. Len(rows)
      BY <2>2, <2>3, <3>2 DEF TrialsInv
    <3>. QED
      BY <2>3, <3>1, <3>2
  <2>. QED
    BY <2>2, <2>4
<1>7. Busy' = {} /\ DOMAIN outcomes' = {}
  BY <1>1, EmptySeq DEF Busy
<1>8. trial' \in Int
  BY <1>1 DEF TrialsInv
<1>. QED
  BY <1>1, <1>6, <1>7, <1>8 DEF TrialsInv

(* The controller's verdict is that of the score: it reports success exactly of a
   proposal that passes, a first proposal that passes is the result at one call,
   and each trial it leaves is a possible trial (runner.py:328, engine.py:439). *)
THEOREM ControllerAgrees == Spec => []ControllerAndScoreAgree
<1>1. Init => TrialsInv
  <2>1. SUFFICES ASSUME Init PROVE TrialsInv
    OBVIOUS
  <2>2. /\ trial = 1 /\ pending = Conditions /\ outcomes = <<>> /\ arm = NoArm /\ rows = <<>>
    <3>1. EvaluationInit
      BY <2>1 DEF Init
    <3>. QED
      BY <3>1 DEF EvaluationInit
  <2>3. <<>> \in Seq(Trials) /\ DOMAIN <<>> = {} /\ 1 \in Int
    BY EmptySeq
  <2>. QED
    BY <2>2, <2>3, Zenon DEF TrialsInv, Busy
<1>2. TrialsInv /\ [Next]_vars => TrialsInv'
  <2>1. SUFFICES ASSUME TrialsInv, [Next]_vars PROVE TrialsInv'
    OBVIOUS
  <2>2. CASE UNCHANGED evaluationVars
    <3>1. UNCHANGED <<trial, pending, outcomes, arm, rows>>
      BY <2>2 DEF evaluationVars
    <3>2. Busy' = Busy
      BY <3>1 DEF Busy
    <3>. QED
      BY <2>1, <3>1, <3>2 DEF TrialsInv
  <2>3. CASE EvaluationStep
    <3>1. ASSUME NEW c \in Conditions, BeginCondition(c) \/ FactoryFails(c) PROVE TrialsInv'
      BY <2>1, <3>1, BeginKeeps, FactoryFailsKeeps
    <3>2. ASSUME NEW reply \in Replies, Answer(reply) PROVE TrialsInv'
      BY <2>1, <3>2, AnswerKeeps
    <3>3. CASE RepairUnavailable \/ FinishTrial
      BY <2>1, <3>3, RepairUnavailableKeeps, FinishTrialKeeps
    <3>. QED
      BY <2>3, <3>1, <3>2, <3>3 DEF EvaluationStep
  <2>. QED
    BY <2>1, <2>2, <2>3 DEF Next, vars
<1>3. TrialsInv => ControllerAndScoreAgree
  BY DEF TrialsInv, ControllerAndScoreAgree, Sound
<1>. QED
  BY <1>1, <1>2, <1>3, PTL DEF Spec

-----------------------------------------------------------------------------
(* Documents, slot runs and reports *)

FrozenManifests == [kind : {"manifest"}, models : Drafts]
FrozenCommitments == [kind : {"commitment"}, suite : Suites]
Documents == FrozenManifests \cup FrozenCommitments

DocumentsInv ==
  /\ suite \in Suites
  /\ documents \in Seq(Documents)
  /\ \A m \in Manifests : VerifiedManifest(documents[m].models)

(* What a run measured was measured once, under its own name: a table of trials. *)
RunsInv ==
  /\ DOMAIN runs = Runs
  /\ \A r \in DOMAIN measured : measured[r].evaluation \in Tables
  /\ \A r \in Runs :
       /\ DOMAIN runs[r] = {"at", "output", "body"}
       /\ r \in DOMAIN measured => runs[r].at \in {"written", "ended"}
       /\ runs[r].at \in {"evaluating", "written"} =>
            /\ runs[r].output \in Outputs
            /\ "run" \in DOMAIN runs[r].body /\ runs[r].body.run = r
       /\ runs[r].at = "written" => r \in DOMAIN measured /\ measured[r] = runs[r].body

(* The digest in a checkpoint is of what its run measured, whatever was edited. *)
Digested(checkpoint) ==
  /\ DOMAIN checkpoint = {"body", "id"}
  /\ checkpoint.id.run \in DOMAIN measured
  /\ checkpoint.id = measured[checkpoint.id.run]

FilesInv ==
  /\ "seen" \in DOMAIN files /\ DOMAIN files.seen = Outputs
  /\ \A n \in Outputs : files.seen[n] # NoFile =>
       \E checkpoint : files.seen[n] = Written(<<checkpoint>>) /\ Digested(checkpoint)

(* What a report assesses are tables that were observed, the ones it was made of. *)
SlotTables == [SlotIndices -> Tables] \cup [SlotIndices -> WholeTables]

Assessed(report) ==
  /\ TablesOf(report) \in SlotTables
  /\ report.assessment = AssessSuccess(TablesOf(report))

Grounded(report) ==
  /\ OfItsCampaign(report)
  /\ Assessed(report)
  /\ report.manifest \in DOMAIN documents /\ report.commitment \in DOMAIN documents
  /\ report.mode = "slots" =>
       \A i \in SlotIndices : report.sources[i].run \in DOMAIN measured

ReportsInv ==
  /\ "seen" \in DOMAIN reports /\ DOMAIN reports.seen = Reports
  /\ \A n \in Reports : reports.seen[n] # NoFile =>
       \E report : reports.seen[n] = Written(<<report>>) /\ Grounded(report)

CampaignInv == DocumentsInv /\ RunsInv /\ FilesInv /\ ReportsInv

(* Documents are only added, and so is what was measured. *)
Grows(before, after) ==
  \A x \in DOMAIN before : x \in DOMAIN after /\ after[x] = before[x]

LEMMA ReportsKept ==
  ASSUME ReportsInv, Grows(documents, documents'), Grows(measured, measured'),
         UNCHANGED reports
  PROVE  ReportsInv'
<1>1. ASSUME NEW report, Grounded(report) PROVE Grounded(report)'
  BY <1>1 DEF Grounded, OfItsCampaign, Grows
<1>. QED
  BY <1>1 DEF ReportsInv

LEMMA FilesKept ==
  ASSUME FilesInv, Grows(measured, measured'), UNCHANGED files
  PROVE  FilesInv'
<1>1. ASSUME NEW checkpoint, Digested(checkpoint) PROVE Digested(checkpoint)'
  BY <1>1 DEF Digested, Grows
<1>. QED
  BY <1>1 DEF FilesInv

LEMMA ManifestsAreDrafts ==
  ASSUME DocumentsInv, NEW m \in Manifests
  PROVE  documents[m].models \in Drafts
BY DEF DocumentsInv, Manifests, Documents, FrozenManifests, FrozenCommitments

LEMMA FreezeKeeps ==
  ASSUME CampaignInv, NEW d \in Documents,
         d.kind = "manifest" => VerifiedManifest(d.models),
         documents' = Append(documents, d),
         UNCHANGED <<suite, runs, files, reports, measured>>
  PROVE  CampaignInv'
<1>1. documents \in Seq(Documents)
  BY DEF CampaignInv, DocumentsInv
<1>2. /\ documents' \in Seq(Documents) /\ Len(documents') = Len(documents) + 1
      /\ \A i \in 1 .. Len(documents) : documents'[i] = documents[i]
      /\ documents'[Len(documents) + 1] = d
  BY <1>1, AppendProperties
<1>3. /\ DOMAIN documents = 1 .. Len(documents) /\ DOMAIN documents' = 1 .. Len(documents) + 1
      /\ Len(documents) \in Nat
  BY <1>1, <1>2, LenProperties
<1>4. Grows(documents, documents') /\ Grows(measured, measured')
  BY <1>2, <1>3 DEF Grows
<1>5. \A m \in Manifests' : VerifiedManifest(documents'[m].models)
  <2>1. SUFFICES ASSUME NEW m \in Manifests' PROVE VerifiedManifest(documents'[m].models)
    OBVIOUS
  <2>2. CASE m = Len(documents) + 1
    BY <1>2, <2>2 DEF Manifests
  <2>3. CASE m \in 1 .. Len(documents)
    BY <1>2, <1>3, <2>3 DEF Manifests, CampaignInv, DocumentsInv
  <2>. QED
    BY <1>3, <2>2, <2>3 DEF Manifests
<1>6. DocumentsInv'
  BY <1>2, <1>5 DEF CampaignInv, DocumentsInv
<1>. QED
  BY <1>4, <1>6, ReportsKept, FilesKept DEF CampaignInv, RunsInv

(* Of the suite, the documents keep what they were frozen over. *)
LEMMA AuthorKeeps ==
  ASSUME CampaignInv, NEW s \in Suites, AuthorSuite(s)
  PROVE  CampaignInv'
<1>1. suite' = s /\ UNCHANGED <<documents, runs, files, reports, measured>>
  BY DEF AuthorSuite
<1>2. Grows(documents, documents') /\ Grows(measured, measured')
  BY <1>1 DEF Grows
<1>3. DocumentsInv'
  BY <1>1 DEF CampaignInv, DocumentsInv, Manifests
<1>. QED
  BY <1>1, <1>2, <1>3, ReportsKept, FilesKept DEF CampaignInv, RunsInv

(* A step that changes runs alone. *)
LEMMA RunsStep ==
  ASSUME CampaignInv, RunsInv', UNCHANGED <<documents, suite, files, reports, measured>>
  PROVE  CampaignInv'
<1>1. Grows(documents, documents') /\ Grows(measured, measured')
  BY DEF Grows
<1>2. DocumentsInv'
  BY DEF CampaignInv, DocumentsInv, Manifests
<1>. QED
  BY <1>1, <1>2, ReportsKept, FilesKept DEF CampaignInv

LEMMA BeginSlotKeeps ==
  ASSUME CampaignInv, NEW r \in Runs, NEW output \in Outputs, NEW m, NEW c, NEW i, NEW commit,
         BeginSlotRun(r, output, m, c, i, commit)
  PROVE  CampaignInv'
<1>. DEFINE body == [run |-> r, manifest |-> m, commitment |-> c, suite |-> suite,
                     commit |-> commit, slot |-> Slots[i],
                     artifact |-> documents[m].models[i].artifact]
            begun == [at |-> "evaluating", output |-> output, body |-> body]
<1>1. /\ runs[r] = NoRun /\ runs' = [runs EXCEPT ![r] = begun]
      /\ UNCHANGED <<documents, suite, files, reports, measured>>
  BY DEF BeginSlotRun
<1>2. "run" \in DOMAIN body /\ body.run = r
  OBVIOUS
<1>. HIDE DEF body
<1>3. DOMAIN begun = {"at", "output", "body"} /\ begun.at = "evaluating" /\ begun.body = body
      /\ begun.output = output
  OBVIOUS
<1>. HIDE DEF begun
<1>4. r \notin DOMAIN measured
  BY <1>1 DEF CampaignInv, RunsInv, NoRun
<1>5. RunsInv'
  BY <1>1, <1>2, <1>3, <1>4 DEF CampaignInv, RunsInv
<1>. QED
  BY <1>1, <1>5, RunsStep

LEMMA StopKeeps ==
  ASSUME CampaignInv, NEW r \in Runs, StopSlotRun(r)
  PROVE  CampaignInv'
<1>. DEFINE ended == [NoRun EXCEPT !.at = "ended"]
<1>1. /\ runs' = [runs EXCEPT ![r] = ended]
      /\ UNCHANGED <<documents, suite, files, reports, measured>>
  BY DEF StopSlotRun
<1>2. DOMAIN ended = {"at", "output", "body"} /\ ended.at = "ended"
  BY DEF NoRun
<1>. HIDE DEF ended
<1>3. RunsInv'
  BY <1>1, <1>2 DEF CampaignInv, RunsInv
<1>. QED
  BY <1>1, <1>3, RunsStep

LEMMA EvaluateKeeps ==
  ASSUME CampaignInv, NEW r \in Runs, NEW trials \in Tables, EvaluateSlot(r, trials)
  PROVE  CampaignInv'
<1>1. PICK body : body = Including(runs[r].body, "evaluation", trials)
  OBVIOUS
<1>2. /\ runs[r].at = "evaluating"
      /\ runs' = [runs EXCEPT ![r].at = "written", ![r].body = body]
      /\ measured' = Including(measured, r, body)
      /\ UNCHANGED <<documents, suite, files, reports>>
  BY <1>1 DEF EvaluateSlot
<1>3. "run" \in DOMAIN runs[r].body /\ runs[r].body.run = r /\ r \notin DOMAIN measured
  BY <1>2 DEF CampaignInv, RunsInv
<1>4. "run" \in DOMAIN body /\ body.run = r /\ body.evaluation = trials
  BY <1>1, <1>3 DEF Including
<1>5. /\ DOMAIN measured' = DOMAIN measured \cup {r} /\ measured'[r] = body
      /\ \A x \in DOMAIN measured \ {r} : measured'[x] = measured[x]
  BY <1>2 DEF Including
<1>6. Grows(documents, documents') /\ Grows(measured, measured')
  BY <1>2, <1>3, <1>5 DEF Grows
<1>7. DocumentsInv'
  BY <1>2 DEF CampaignInv, DocumentsInv, Manifests
<1>8. RunsInv'
  <2>1. /\ DOMAIN runs' = Runs /\ DOMAIN runs'[r] = {"at", "output", "body"}
        /\ runs'[r].output = runs[r].output
        /\ runs'[r].at = "written" /\ runs'[r].body = body
        /\ \A x \in Runs \ {r} : runs'[x] = runs[x]
    BY <1>2 DEF CampaignInv, RunsInv
  <2>. QED
    BY <1>2, <1>4, <1>5, <2>1 DEF CampaignInv, RunsInv
<1>. QED
  BY <1>2, <1>6, <1>7, <1>8, ReportsKept, FilesKept DEF CampaignInv

(* A name is linked to a checkpoint of what was measured, or the file there was
   keeps its digest. *)
LEMMA FileStep ==
  ASSUME FilesInv, NEW n \in Outputs, NEW checkpoint, Digested(checkpoint),
         files' = [files EXCEPT !.seen[n] = Written(<<checkpoint>>)], UNCHANGED measured
  PROVE  FilesInv'
<1>1. /\ "seen" \in DOMAIN files' /\ DOMAIN files'.seen = Outputs
      /\ files'.seen[n] = Written(<<checkpoint>>)
      /\ \A x \in Outputs \ {n} : files'.seen[x] = files.seen[x]
  BY DEF FilesInv
<1>2. ASSUME NEW k, Digested(k) PROVE Digested(k)'
  BY <1>2 DEF Digested
<1>. QED
  BY <1>1, <1>2 DEF FilesInv

LEMMA PublishKeeps ==
  ASSUME CampaignInv, NEW r \in Runs, PublishCheckpoint(r)
  PROVE  CampaignInv'
<1>. DEFINE ended == [NoRun EXCEPT !.at = "ended"]
<1>1. /\ runs[r].at = "written"
      /\ runs' = [runs EXCEPT ![r] = ended]
      /\ UNCHANGED <<documents, suite, reports, measured>>
  BY DEF PublishCheckpoint
<1>2. DOMAIN ended = {"at", "output", "body"} /\ ended.at = "ended"
  BY DEF NoRun
<1>. HIDE DEF ended
<1>3. RunsInv'
  BY <1>1, <1>2 DEF CampaignInv, RunsInv
<1>4. PICK checkpoint : checkpoint = Checkpoint(runs[r].body)
  OBVIOUS
<1>5. Digested(checkpoint)
  BY <1>1, <1>4 DEF CampaignInv, RunsInv, Digested, Checkpoint
<1>6. FilesInv'
  <2>1. CASE UNCHANGED files
    BY <1>1, <2>1, FilesKept DEF CampaignInv, Grows
  <2>2. CASE files' = Link(files, runs[r].output, Written(<<checkpoint>>))
    <3>1. PICK n \in Outputs : n = runs[r].output
      BY <1>1 DEF CampaignInv, RunsInv
    <3>2. files' = [files EXCEPT !.seen[n] = Written(<<checkpoint>>)]
      BY <2>2, <3>1 DEF Link
    <3>. QED
      BY <1>1, <1>5, <3>2, FileStep DEF CampaignInv
  <2>. QED
    BY <1>4, <2>1, <2>2 DEF PublishCheckpoint
<1>7. DocumentsInv'
  BY <1>1 DEF CampaignInv, DocumentsInv, Manifests
<1>. QED
  BY <1>1, <1>3, <1>6, <1>7, ReportsKept DEF CampaignInv, Grows

LEMMA EditKeeps ==
  ASSUME CampaignInv, NEW n \in Outputs, NEW trials, EditCheckpoint(n, trials)
  PROVE  CampaignInv'
<1>1. PICK k : files.seen[n] = Written(<<k>>) /\ Digested(k)
  BY DEF EditCheckpoint, Present, CampaignInv, FilesInv
<1>2. files.seen[n].bytes[1] = k
  BY <1>1 DEF Written
<1>3. PICK edited : edited = [k EXCEPT !.body.evaluation = trials]
  OBVIOUS
<1>4. /\ files' = [files EXCEPT !.seen[n].bytes = <<edited>>]
      /\ UNCHANGED <<documents, suite, runs, reports, measured>>
  BY <1>2, <1>3 DEF EditCheckpoint
<1>5. Digested(edited)
  BY <1>1, <1>3 DEF Digested
<1>6. files' = [files EXCEPT !.seen[n] = Written(<<edited>>)]
  BY <1>1, <1>4 DEF CampaignInv, FilesInv, Written
<1>7. FilesInv'
  BY <1>4, <1>5, <1>6, FileStep DEF CampaignInv
<1>8. DocumentsInv'
  BY <1>4 DEF CampaignInv, DocumentsInv, Manifests
<1>. QED
  BY <1>4, <1>7, <1>8, ReportsKept DEF CampaignInv, RunsInv, Grows

(* A report of sources that its manifest names in the order of the protocol, and
   that were measured if it is of slots. *)
LEMMA ReportStep ==
  ASSUME CampaignInv, NEW n \in Reports, NEW mode \in {"slots", "whole"},
         NEW m \in Manifests, NEW c \in Commitments, NEW commit, NEW sources,
         ValidInputs(m, c), WriteReport(n, Report(mode, m, c, commit, sources)),
         \A i \in SlotIndices :
           /\ sources[i].slot = Slots[i]
           /\ sources[i].artifact = documents[m].models[i].artifact
           /\ mode = "slots" =>
                /\ sources[i].run \in DOMAIN measured
                /\ sources[i] = measured[sources[i].run]
                /\ sources[i].manifest = m /\ sources[i].commitment = c
                /\ sources[i].suite = suite /\ sources[i].commit = commit,
         [i \in SlotIndices |-> sources[i].evaluation] \in SlotTables,
         UNCHANGED <<documents, suite, runs, files, measured>>
  PROVE  CampaignInv'
<1>1. PICK report : report = Report(mode, m, c, commit, sources)
  OBVIOUS
<1>2. /\ report.mode = mode /\ report.manifest = m /\ report.commitment = c
      /\ report.suite = suite /\ report.commit = commit /\ report.sources = sources
      /\ report["manifest"] = m /\ report["commitment"] = c /\ report["suite"] = suite
      /\ report["commit"] = commit
  BY <1>1 DEF Report
<1>3. /\ documents \in Seq(Documents) /\ m \in DOMAIN documents /\ c \in DOMAIN documents
      /\ c > m /\ documents[c].suite = suite
  BY DEF CampaignInv, DocumentsInv, Manifests, Commitments, ValidInputs
<1>4. m < c
  <2>1. DOMAIN documents \subseteq Int
    BY <1>3, LenProperties
  <2>. QED
    BY <1>3, <2>1
<1>5. \A i \in SlotIndices :
        [slot |-> sources[i].slot, artifact |-> sources[i].artifact] = documents[m].models[i]
  <2>1. PICK models : models = documents[m].models
    OBVIOUS
  <2>2. models \in Drafts /\ VerifiedManifest(models)
    BY <2>1, ManifestsAreDrafts DEF CampaignInv, DocumentsInv
  <2>3. \A i \in SlotIndices :
          /\ models[i] \in [slot : Range(Slots), artifact : Artifacts]
          /\ models[i].slot = Slots[i]
    BY <2>2 DEF Drafts, VerifiedManifest
  <2>. QED
    BY <2>1, <2>3
<1>6. Assessed(report)
  BY <1>1 DEF Assessed, TablesOf, Report
<1>13. Grounded(report)
  BY <1>2, <1>3, <1>4, <1>5, <1>6 DEF Grounded, OfItsCampaign
<1>7. Grounded(report)'
  BY <1>13 DEF Grounded, OfItsCampaign
<1>8. ASSUME NEW r, Grounded(r) PROVE Grounded(r)'
  BY <1>8 DEF Grounded, OfItsCampaign
<1>9. reports' = [reports EXCEPT !.seen[n] = Written(<<report>>)]
  BY <1>1 DEF WriteReport, Link
<1>10. /\ "seen" \in DOMAIN reports' /\ DOMAIN reports'.seen = Reports
       /\ reports'.seen[n] = Written(<<report>>)
       /\ \A x \in Reports \ {n} : reports'.seen[x] = reports.seen[x]
  BY <1>9 DEF CampaignInv, ReportsInv
<1>11. ReportsInv'
  <2>1. ASSUME NEW x \in Reports, reports'.seen[x] # NoFile
        PROVE  \E r : reports'.seen[x] = Written(<<r>>) /\ Grounded(r)'
    <3>1. CASE x = n
      BY <1>7, <1>10, <3>1
    <3>2. CASE x # n
      <4>1. reports'.seen[x] = reports.seen[x]
        BY <1>10, <3>2
      <4>2. PICK r : reports.seen[x] = Written(<<r>>) /\ Grounded(r)
        BY <2>1, <4>1 DEF CampaignInv, ReportsInv
      <4>. QED
        BY <1>8, <4>1, <4>2
    <3>. QED
      BY <3>1, <3>2
  <2>. QED
    BY <1>10, <2>1 DEF ReportsInv
<1>12. DocumentsInv'
  BY DEF CampaignInv, DocumentsInv, Manifests
<1>. QED
  BY <1>11, <1>12, FilesKept DEF CampaignInv, RunsInv, Grows

LEMMA AggregateKeeps ==
  ASSUME CampaignInv, NEW n \in Reports, NEW m \in Manifests, NEW c \in Commitments,
         NEW commit, NEW chosen \in [SlotIndices -> Present(files)],
         AggregateSlots(n, m, c, commit, chosen)
  PROVE  CampaignInv'
<1>. DEFINE checkpoints == [i \in SlotIndices |-> files.seen[chosen[i]].bytes[1]]
            sources == [i \in SlotIndices |-> checkpoints[i].body]
<1>1. /\ ValidInputs(m, c)
      /\ \A i \in SlotIndices : Matches(checkpoints[i], m, c, i, commit)
      /\ WriteReport(n, Report("slots", m, c, commit, sources))
      /\ UNCHANGED <<documents, suite, runs, files, measured>>
  BY DEF AggregateSlots
<1>2. \A i \in SlotIndices : Digested(checkpoints[i])
  <2>1. ASSUME NEW i \in SlotIndices PROVE Digested(files.seen[chosen[i]].bytes[1])
    <3>1. chosen[i] \in Present(files)
      OBVIOUS
    <3>2. PICK k : files.seen[chosen[i]] = Written(<<k>>) /\ Digested(k)
      BY <3>1 DEF Present, CampaignInv, FilesInv
    <3>. QED
      BY <3>2 DEF Written
  <2>. QED
    BY <2>1
<1>3. \A i \in SlotIndices : sources[i] = checkpoints[i].body
  OBVIOUS
<1>. HIDE DEF checkpoints, sources
<1>4. \A i \in SlotIndices :
        /\ sources[i].slot = Slots[i]
        /\ sources[i].artifact = documents[m].models[i].artifact
        /\ sources[i].run \in DOMAIN measured
        /\ sources[i] = measured[sources[i].run]
        /\ sources[i].manifest = m /\ sources[i].commitment = c
        /\ sources[i].suite = suite /\ sources[i].commit = commit
  BY <1>1, <1>2, <1>3 DEF Matches, Digested
<1>5. [i \in SlotIndices |-> sources[i].evaluation] \in SlotTables
  BY <1>4 DEF CampaignInv, RunsInv, SlotTables
<1>. QED
  BY <1>1, <1>4, <1>5, ReportStep

LEMMA EvaluateAllKeeps ==
  ASSUME CampaignInv, NEW n \in Reports, NEW m \in Manifests, NEW c \in Commitments,
         NEW tables \in [SlotIndices -> WholeTables], EvaluateAll(n, m, c, tables)
  PROVE  CampaignInv'
<1>. DEFINE sources == [i \in SlotIndices |->
                          [slot |-> Slots[i], artifact |-> documents[m].models[i].artifact,
                           evaluation |-> tables[i]]]
<1>1. /\ ValidInputs(m, c)
      /\ WriteReport(n, Report("whole", m, c, "none", sources))
      /\ UNCHANGED <<documents, suite, runs, files, measured>>
  BY DEF EvaluateAll
<1>2. \A i \in SlotIndices :
        /\ sources[i].slot = Slots[i]
        /\ sources[i].artifact = documents[m].models[i].artifact
  OBVIOUS
<1>3. [i \in SlotIndices |-> sources[i].evaluation] \in SlotTables
  BY DEF SlotTables
<1>. HIDE DEF sources
<1>. QED
  BY <1>1, <1>2, <1>3, ReportStep

LEMMA InitiallyNothing == Init => CampaignInv
<1>1. SUFFICES ASSUME Init PROVE CampaignInv
  OBVIOUS
<1>2. /\ suite = CHOOSE s \in Suites : Counts[s] = Planned
      /\ runs = [r \in Runs |-> NoRun] /\ measured = <<>>
      /\ files = EmptyDirectory(Outputs) /\ reports = EmptyDirectory(Reports)
      /\ documents = IF stage = "whole" THEN FrozenDocuments ELSE <<>>
  BY <1>1 DEF Init, SlotsInit
<1>3. suite \in Suites
  BY <1>2, RegistrationAssumption DEF RegistrationAssumption
<1>4. DocumentsInv
  <2>1. CASE documents = <<>>
    BY <1>3, <2>1, EmptySeq DEF DocumentsInv, Manifests
  <2>2. CASE documents = FrozenDocuments
    <3>1. PICK draft : draft = CHOOSE d \in Drafts : VerifiedManifest(d)
      OBVIOUS
    <3>2. draft \in Drafts /\ VerifiedManifest(draft)
      BY <3>1, RegistrationAssumption DEF RegistrationAssumption
    <3>. DEFINE a == [kind |-> "manifest", models |-> draft]
                b == [kind |-> "commitment", suite |-> suite]
    <3>3. documents = <<a, b>>
      BY <2>2, <3>1 DEF FrozenDocuments
    <3>4. a \in Documents /\ b \in Documents /\ b.kind # "manifest" /\ a.models = draft
      BY <1>3, <3>2 DEF Documents, FrozenManifests, FrozenCommitments
    <3>. HIDE DEF a, b
    <3>5. /\ documents \in Seq(Documents) /\ documents[1] = a /\ documents[2] = b
          /\ DOMAIN documents = 1 .. 2
      BY <3>3, <3>4
    <3>. QED
      BY <1>3, <3>2, <3>4, <3>5 DEF DocumentsInv, Manifests
  <2>. QED
    BY <1>2, <2>1, <2>2
<1>5. DOMAIN measured = {}
  BY <1>2, EmptySeq
<1>6. RunsInv
  BY <1>2, <1>5 DEF RunsInv, NoRun
<1>7. FilesInv /\ ReportsInv
  BY <1>2 DEF FilesInv, ReportsInv, EmptyDirectory
<1>. QED
  BY <1>4, <1>6, <1>7 DEF CampaignInv

LEMMA CampaignIsKept == Spec => []CampaignInv
<1>1. CampaignInv /\ [Next]_vars => CampaignInv'
  <2>1. SUFFICES ASSUME CampaignInv, [Next]_vars PROVE CampaignInv'
    OBVIOUS
  <2>2. CASE UNCHANGED slotVars
    <3>1. UNCHANGED <<documents, suite, runs, files, reports, measured>>
      BY <2>2 DEF slotVars
    <3>2. RunsInv'
      BY <2>1, <3>1 DEF CampaignInv, RunsInv
    <3>3. ReportsInv'
      BY <2>1, <3>1, ReportsKept DEF CampaignInv, Grows
    <3>. QED
      BY <2>1, <3>1, <3>2, RunsStep
  <2>3. CASE SlotsStep
    <3>1. ASSUME NEW draft \in Drafts, FreezeManifest(draft) PROVE CampaignInv'
      <4>1. PICK d : d = [kind |-> "manifest", models |-> draft]
        OBVIOUS
      <4>2. d \in Documents /\ d.models = draft
        BY <4>1 DEF Documents, FrozenManifests
      <4>. QED
        BY <2>1, <3>1, <4>1, <4>2, FreezeKeeps DEF FreezeManifest
    <3>2. CASE FreezeSuite
      <4>1. PICK d : d = [kind |-> "commitment", suite |-> suite]
        OBVIOUS
      <4>2. d \in Documents /\ d.kind # "manifest"
        BY <2>1, <4>1 DEF Documents, FrozenCommitments, CampaignInv, DocumentsInv
      <4>. QED
        BY <2>1, <3>2, <4>1, <4>2, FreezeKeeps DEF FreezeSuite
    <3>3. ASSUME NEW s \in Suites, AuthorSuite(s) PROVE CampaignInv'
      BY <2>1, <3>3, AuthorKeeps
    <3>4. ASSUME NEW r \in Runs, NEW trials \in Tables, EvaluateSlot(r, trials)
          PROVE  CampaignInv'
      BY <2>1, <3>4, EvaluateKeeps
    <3>5. ASSUME NEW r \in Runs, PublishCheckpoint(r) \/ StopSlotRun(r) PROVE CampaignInv'
      BY <2>1, <3>5, PublishKeeps, StopKeeps
    <3>6. ASSUME NEW n \in Outputs, NEW trials, EditCheckpoint(n, trials) PROVE CampaignInv'
      BY <2>1, <3>6, EditKeeps
    <3>7. ASSUME NEW m \in Manifests, NEW c \in Commitments, NEW commit,
                 NEW r \in Runs, NEW n \in Outputs, NEW i,
                 BeginSlotRun(r, n, m, c, i, commit)
          PROVE  CampaignInv'
      BY <2>1, <3>7, BeginSlotKeeps
    <3>8. ASSUME NEW m \in Manifests, NEW c \in Commitments, NEW commit,
                 NEW n \in Reports, NEW chosen \in [SlotIndices -> Present(files)],
                 AggregateSlots(n, m, c, commit, chosen)
          PROVE  CampaignInv'
      BY <2>1, <3>8, AggregateKeeps
    <3>. QED
      BY <2>3, <3>1, <3>2, <3>3, <3>4, <3>5, <3>6, <3>7, <3>8 DEF SlotsStep
  <2>4. CASE WholeStep
    BY <2>1, <2>4, EvaluateAllKeeps DEF WholeStep
  <2>. QED
    BY <2>1, <2>2, <2>3, <2>4 DEF Next, vars
<1>. QED
  BY InitiallyNothing, <1>1, PTL DEF Spec

LEMMA WrittenIsGrounded ==
  ASSUME CampaignInv, NEW report \in ReportsWritten
  PROVE  Grounded(report)
<1>1. PICK n \in Reports : reports.seen[n] # NoFile /\ report = reports.seen[n].bytes[1]
  BY DEF ReportsWritten, Present, CampaignInv, ReportsInv
<1>2. PICK k : reports.seen[n] = Written(<<k>>) /\ Grounded(k)
  BY <1>1 DEF CampaignInv, ReportsInv
<1>3. report = k
  BY <1>1, <1>2 DEF Written
<1>. QED
  BY <1>2, <1>3

(* A report is of the campaign it names, slot by slot what one run of it measured
   under those documents and that commit (multimodel.py:162). *)
THEOREM ReportFaithful == Spec => []ReportIsTheCampaign
<1>1. CampaignInv => ReportIsTheCampaign
  BY WrittenIsGrounded DEF ReportIsTheCampaign, Grounded
<1>. QED
  BY <1>1, CampaignIsKept, PTL

(* An assessment passes if and only if the trials of the campaign earn it, where
   the magnitudes of the protocol leave the rounding nothing to decide but a tie
   of the global rates (multimodel.py:297, multimodel.py:414). *)
THEOREM VerdictsEarned == ASSUME ProtocolMagnitudes PROVE Spec => []VerdictsAreEarned
<1>1. CampaignInv => VerdictsAreEarned
  <2>1. SUFFICES ASSUME CampaignInv PROVE VerdictsAreEarned
    OBVIOUS
  <2>2. ASSUME NEW report \in ReportsWritten
        PROVE  LET tables == TablesOf(report)
                   lead == Total(tables, "dohaa") - Total(tables, "direct")
               IN /\ report.assessment.passed => OtherCriteriaHold(tables) /\ lead >= 0
                  /\ OtherCriteriaHold(tables) /\ lead > 0 => report.assessment.passed
    <3>1. Assessed(report)
      BY <2>1, <2>2, WrittenIsGrounded DEF Grounded
    <3>2. PICK tables \in SlotTables :
            tables = TablesOf(report) /\ report.assessment = AssessSuccess(tables)
      BY <3>1 DEF Assessed
    <3>. DEFINE lead == Total(tables, "dohaa") - Total(tables, "direct")
    <3>3. /\ AssessSuccess(tables).passed => OtherCriteriaHold(tables) /\ lead >= 0
          /\ OtherCriteriaHold(tables) /\ lead > 0 => AssessSuccess(tables).passed
      BY VerdictIsEarned DEF SlotTables
    <3>. QED
      BY <3>2, <3>3
  <2>. QED
    BY <2>2 DEF VerdictsAreEarned
<1>. QED
  BY <1>1, CampaignIsKept, PTL
=============================================================================
