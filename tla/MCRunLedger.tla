----------------------------- MODULE MCRunLedger -----------------------------
EXTENDS RunLedger, TLC

(* Runs are interchangeable, and so are the terms that can be captured. *)
Symmetry ==
  Permutations(Runs) \cup Permutations(Operators)
    \cup Permutations(Terms \ Uncapturable)
=============================================================================
