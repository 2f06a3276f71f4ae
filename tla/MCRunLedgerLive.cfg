SPECIFICATION FairSpec
CONSTANTS
  Runs = {r1}
  Operators = {o1, o2}
  Terms = {t1, u1}
  Uncapturable = {u1}
PROPERTIES
  LockIsReleased
CHECK_DEADLOCK FALSE
