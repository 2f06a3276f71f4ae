SPECIFICATION Spec
CONSTANTS
  Suite <- ThreeCases
  Domain <- DomainOfThree
  Repetitions = 2
  Slots <- ThreeSlots
  Alpha <- Level
  Criteria <- Registered
  Proposals <- ProposalSet
  Advertised = {"rule"}
  Replies <- ServerReplies
  MaxTrials = 1
  MaxFaults = 0
  Artifacts = {"m1", "m2", "m3"}
  Suites = {"suite", "larger"}
  Counts <- SuiteCounts
  Planned <- OneLarger
  MinCases = 2
  MaxCases = 3
  MinDomains = 2
  MinPerDomain = 1
  Commits = {"c1", "c2"}
  Runs = {r1}
  Outputs = {f1}
  Reports = {"report"}
  Tables <- OneTable
  WholeTables <- DecidedTables
  MaxDocuments = 2
  MaxEdits = 0
SYMMETRY Symmetry
INVARIANTS
  PositiveDeltaIsHigherRate
CHECK_DEADLOCK FALSE
