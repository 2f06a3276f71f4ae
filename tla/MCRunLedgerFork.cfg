SPECIFICATION Spec
CONSTANTS
  Runs = {r1, r2}
  Operators = {o1, o2}
  Terms = {t1, t2, u1}
  Uncapturable = {u1}
SYMMETRY Symmetry
INVARIANTS
  ChainIntact
CHECK_DEADLOCK FALSE
