SPECIFICATION Spec
CONSTANTS
  Requests = {1, 2, 3, 4}
  Cases = {1, 2}
  MinImprovements = 1
  MinCandidateCorrect = 1
  Answers <- MCAnswers
  MaxMetadata = 1
  MaxPackets = 3
  Sockets = 1
  RequestLimit = 4
  RecordingLimits = {10, 17}
  Reserve = 2
  MaxStorageFailures = 1
  Drafters = {b1, b2}
  MaxWrites = 2
  Reviewers = {r1, r2}
  Developers = {d1, d2}
SYMMETRY Symmetry
INVARIANTS
  SnapshotIsConsistent
  SentOnceAndRecorded
  AbortsTellTheTruth
  OutcomesAreTheServers
  HonestHintsAreRead
  CandidateIsApproved
  AcknowledgedSurvive
CHECK_DEADLOCK FALSE
