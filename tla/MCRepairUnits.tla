---------------------------- MODULE MCRepairUnits ----------------------------
(* Scopes that nest, share a group without overlapping, chain through a third
   one, or clash when merged; a gate without a scope; and an oracle. *)
EXTENDS RepairUnits

A  == <<"a">>
AX == <<"a", "x">>
B  == <<"b">>
C  == <<"c">>

Unscoped(gate, mode, passed) ==
  [gate |-> gate, mode |-> mode, passed |-> passed,
   code |-> "failed", violations |-> {}, scope |-> NoScope]

Scoped(gate, mode, rule, editable, groups) ==
  [gate |-> gate, mode |-> mode, passed |-> FALSE,
   code |-> "failed", violations |-> {rule},
   scope |-> [failed |-> {rule}, rules |-> {rule}, editable |-> editable,
              groups |-> groups]]

Group(id, paths) == {[id |-> id, paths |-> paths]}

MCPool ==
  {Scoped("g1", VisibleScope, "r1", {A}, {}),
   Scoped("g2", VisibleScope, "r2", {AX}, {}),
   Scoped("g3", VisibleScope, "r3", {AX, B}, Group("pair", {B})),
   Scoped("g4", VisibleScope, "r4", {C}, Group("pair", {C})),
   Scoped("g5", VisibleScope, "r5", {B}, Group("other", {B})),
   Scoped("g6", VisibleScope, "r6", {C}, {}),
   Scoped("g7", OracleOnly, "r7", {C}, {}),
   Unscoped("g8", VisibleScope, FALSE),
   Unscoped("g9", "none", TRUE)}
=============================================================================
