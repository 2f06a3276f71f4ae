SPECIFICATION Spec
CONSTANTS
  Runs = {r1, r2}
  Operators = {o1, o2}
  Terms = {t1, t2, u1}
  Uncapturable = {u1}
SYMMETRY Symmetry
INVARIANTS
  TypeOK
  ApprovalIsConsumedOnce
  CheckpointIsNeverAlone
  ResumesOnIntactChain
PROPERTIES
  ResumedOnItsOwnTerms
  ImplementsApprovalProtocol
CHECK_DEADLOCK FALSE
