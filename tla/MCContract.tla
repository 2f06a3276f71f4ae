----------------------------- MODULE MCContract -----------------------------
(* A contract with four semantic assertions over a three-field result: one
   calculable field, an atomic group of a calculable and a free field, and a
   relation no single field can repair; an action list judged by an unscoped
   gate; and an oracle. *)
EXTENDS TLC

R == <<"result">>
A == <<"result", "a">>
B == <<"result", "b">>
C == <<"result", "c">>
Actions == <<"requested_actions">>

Object(a, b, c, act) ==
  (R :> "object") @@ (A :> a) @@ (B :> b) @@ (C :> c) @@ (Actions :> act)

MCProposals ==
  {Object(a, b, c, "ok") : a, c \in {"0", "1"}, b \in {"0", "1", "2"}}
    \cup {Object("1", "0", c, "bad") : c \in {"0", "1"}}
    \cup {Object("1", "1", "1", "more")}
    \cup {(R :> "text") @@ [p \in {A, B, C} |-> "missing"] @@ (Actions :> "ok")}

Assertion(id, target, reads, group, expected, holds) ==
  [id |-> id, target |-> target, reads |-> reads, group |-> group,
   expected |-> expected, holds |-> holds]

MCAssertions ==
  <<Assertion("a_total", A, {A}, "no group", "1", {}),
    Assertion("b_limit", B, {B}, "pair", "not calculable",
              {p \in MCProposals : p[B] # "0" /\ p[R] = "object"}),
    Assertion("c_total", C, {C}, "pair", "1", {}),
    Assertion("b_fits_c", <<>>, {B, C}, "no group", "not calculable",
              {p \in MCProposals :
                 p[R] = "object" /\ <<p[B], p[C]>> \notin {<<"0", "0">>, <<"2", "1">>}})>>

MCSuite == <<"semantic_assertions", "action_policy", "result_equals">>
MCPlain == {"action_policy", "result_equals"}

MCAccepts ==
  [g \in MCPlain |->
     IF g = "action_policy" THEN {p \in MCProposals : p[Actions] # "bad"}
     ELSE {p \in MCProposals : p[B] = "1" /\ p[C] = "1" /\ p[Actions] = "ok"}]

MCOracles == {"result_equals"}

ImmutableC  == {C}
=============================================================================
