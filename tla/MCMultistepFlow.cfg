SPECIFICATION FairSpec
CONSTANTS
  Scopes <- Envelopes
  Operations <- Proposals
  OwnInstance = "own"
  ForeignInstance = "foreign"
  Plan <- TwoSteps
  Products = {"p"}
  InitialStock = 1
  Quota = 1
INVARIANTS
  EverySendIsAccountedFor
  EffectsWereAdmitted
  OutcomesAgree
  PredecessorsContinue
  ClosedMeansUnloaded
PROPERTIES
  AttemptsSettle
CHECK_DEADLOCK FALSE
