CONSTANTS
  NULL = NULL
  AwsRegions = {"r1", "r2"}
  HomeRegion = "r1"
  ScanAllRegions = TRUE
  MAX_SECURITY_GROUPS_PER_REGION = 1
  Scenarios <- MCScenarios
SPECIFICATION AnalysisSpec
INVARIANTS
  NoDuplicateFinding
  RetryIdempotent
  FaultContained
  UnknownNotReported
  PublicDatabaseReported
  MigrationAgrees
  StableIdentity
CHECK_DEADLOCK FALSE
