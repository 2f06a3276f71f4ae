------------------------- MODULE MCControlledTools -------------------------
(* Two tasks compete for one product: a reservation and its release, one over
   the quota that reuses the identity of the first, and one that finds too
   little stock.  A longer history of one task, with a second release and a
   reused step, is for liveness. *)
EXTENDS ControlledTools, TLC

Operation(id, task, step, kind, quantity, version, reservation) ==
  [id |-> id, task |-> task, step |-> step, kind |-> kind, product |-> "p",
   quantity |-> quantity, version |-> version, reservation |-> reservation]

Reserve == Operation("reserve_a", "a", "s1", "reserve", 1, 0, "none")
Release == Operation("release_a", "a", "s2", "release", 1, 1, "reserve_a")

Competing ==
  {Reserve, Release,
   Operation("reserve_a", "a", "s1", "reserve", 2, 0, "none"),
   Operation("reserve_b", "b", "s1", "reserve", 1, 1, "none")}

History ==
  {Reserve, Release,
   Operation("second_a", "a", "s3", "release", 1, 2, "reserve_a"),
   Operation("other_a", "a", "s2", "release", 2, 1, "reserve_a")}

Symmetry == Permutations(Workers)
=============================================================================
