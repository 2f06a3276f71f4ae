SPECIFICATION Spec
CONSTANTS
  Proposals <- MCProposals
  Assertions <- MCAssertions
  Suite <- MCSuite
  PlainGates <- MCPlain
  Accepts <- MCAccepts
  OtherAccepts <- MCOtherAccepts
  Oracles <- MCOracles
  MaxAttempts = 3
  StepLimit = 4
  Immutable <- ImmutableC
INVARIANTS
  OracleOnlyVerdictsNeverSteer
