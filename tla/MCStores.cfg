CONSTANTS
  StoreParts = {"watchdog", "hk", "shadow", "policy", "finalizer", "rollback", "promotion",
                "pinned", "pm", "origin", "review", "deeds", "github", "multica", "migration"}
  SlotCount = 2
  LastDay = 1
  MaxGaps = 2
  MaxRecords = 1
  MaxDeaths = 1
  GradeOverlaps = FALSE
  MaxHkJobs = 4
  MaxHkDeaths = 2
  ShadowRuns = {1}
  Ladders = {"model", "no_agent"}
  ReviewLadders = {"model"}
  Instants = {1, 2}
  MaxAudits = 2
  MaxShadows = 1
  MaxShadowFaults = 1
  PolicyModels = {1, 2}
  MaxCalls = 2
  LedgerTickets = {"t1", "t2"}
  LedgerRuns = {1, 2}
  MaxProofs = 1
  RollbackSurfaces = {"schedules", "scout"}
  Packages = {"p1", "p2"}
  EvidenceFiles = {"state"}
  MaxBaselines = 2
  MaxRollbackDeaths = 2
  Promotions = {"p1", "p2"}
  Original = "old"
  MaxPromoDeaths = 1
  MayOverlap = TRUE
  Executions = {"e1", "e2"}
  PinnedArtifacts = {"prompt", "output"}
  LastVersion = 3
  MaxCanaryDeaths = 2
  PmInvocations = {1, 2}
  PmTickets = {1, 2}
  PmActors = {"w", "r"}
  ProofsAreStamped = FALSE
  MaxBoardChanges = 1
  PmRuns <- MCRuns
  PmReports <- MCReports
  OriginRoots = {"p", "q"}
  OriginKeys = {1, 2}
  MaxOriginWrites = 2
  Reviewers = {1, 2}
  ReviewRequests <- MCRequests
  MaxReviewChanges = 1
  ToolUses = {"t1", "t2"}
  FollowUpItems = {"a", "b"}
  MaxDeedCalls = 2
  LastDeedDay = 2
  MaxDeedDeaths = 1
  MaxFollowUps = 2
  GhClients = {"c1", "c2"}
  GhActions = {"a"}
  MaxIssues = 2
  MaxGhCalls = 3
  MaxPeopleEdits = 1
  McClients = {"c1", "c2"}
  McActions = {"a"}
  MaxMcIssues = 2
  MaxMcCalls = 3
  MaxPeopleActs = 1
  Migrators = {"m1"}
  MigrationsOverlap = FALSE
  MaxEditions = 3
  MaxMigrationFaults = 3
SPECIFICATION StoresSpec
INVARIANTS
  StoresTypeOK
  
  CycleReceiptIsEarned
  SignedByPublishedKey
  AuditsHold
  PolicyIsLeastCost
  PassIsProved
  WayBack
  CanaryIsAtomic
  PmReceiptsHold
  OriginIsOne
  ReportIsBacked
  DeedsAreAccountedFor
  BackendsKeepTheirWord
  OriginalKept
 
CHECK_DEADLOCK FALSE
