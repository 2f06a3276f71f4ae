SPECIFICATION Spec
CONSTANTS
  Suite <- CaseSeq
  Domain <- DomainOfCase
  Repetitions = 2
  Slots <- TwoSlots
  Alpha <- Level
  Criteria <- Registered
  Proposals <- ProposalSet
  Advertised = {"rule"}
  Replies <- ServerReplies
  MaxTrials = 2
  MaxFaults = 1
  Artifacts = {"m1", "m2"}
  Suites = {"suite", "revised"}
  Counts <- SuiteCounts
  Planned <- TwoDomains
  MinCases = 2
  MaxCases = 3
  MinDomains = 2
  MinPerDomain = 1
  Commits = {"c1", "c2"}
  Runs = {r1, r2}
  Outputs = {f1, f2}
  Reports = {"report"}
  Tables <- TwoTables
  WholeTables <- AllTables
  MaxDocuments = 3
  MaxEdits = 1
SYMMETRY Symmetry
INVARIANTS
  ControllerAndScoreAgree
  ReportIsTheCampaign
  VerdictsAreEarned
CHECK_DEADLOCK FALSE
