SPECIFICATION FairSpec
CONSTANTS
  Proposals <- MCProposals
  Assertions <- MCAssertions
  Suite <- MCSuite
  PlainGates <- MCPlain
  Accepts <- MCAccepts
  Oracles <- MCOracles
  MaxAttempts = 3
  StepLimit = 4
  Immutable <- ImmutableC
INVARIANTS
  TypeOK
  VerdictsBelongToProposal
  SuccessIsVerified
  ImmutableFieldsPreserved
  EditsWereAuthorized
PROPERTIES
  RetentionImproves
  RequestedUnitIsResolved
  RunReturns
CHECK_DEADLOCK FALSE
