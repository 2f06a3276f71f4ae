SPECIFICATION Spec
CONSTANTS
  Operations <- Competing
  Products = {"p"}
  Seeds = {1, 2}
  Quotas = {1}
  Workers = {w1, w2}
SYMMETRY Symmetry
INVARIANTS
  StockIsConserved
  GrantsAreRespected
  OneEffectPerOperation
  JournalAgreesWithTool
PROPERTIES
  EffectsFollowIntents
CHECK_DEADLOCK FALSE
