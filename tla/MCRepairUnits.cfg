SPECIFICATION Spec
CONSTANTS
  Pool <- MCPool
  MaxGates = 4
INVARIANTS
  UnitIsLeastClosed
  LaterUnitsAreIndependent
CHECK_DEADLOCK FALSE
