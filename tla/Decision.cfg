SPECIFICATION Spec
CONSTANTS
  None = None
  EnabledAgents <- MCAgents
  Threshold = 3
  Snapshots <- MCSnapshots
  Windows <- MCWindows
  Histories <- MCHistories
  Alike <- MCAlike
  Libraries <- MCLibraries
  Limit = 2
  MaxSetup = 3
  BiasBars <- MCBars
  BiasConfigs <- MCConfigs
  CrtCandles <- MCCrtCandles
  CrtHistories <- MCCrtHistories
  CrtAtrs = {10, 20}
  CrtVwaps <- MCVwaps
  MaxBars = 4
  RuleSnapshots <- MCRuleSnapshots
  Handles <- MCHandles
  Tweets = {1, 2, 3, 4}
  Author <- MCAuthor
  Broken = {"suspended"}
  Malformed = {2}
  PageSize = 2
  MaxAttempts = 2
CHECK_DEADLOCK FALSE
INVARIANTS TypeOK PlanIsBacked SentimentKeepsItsLimits BiasIsBalanced ProvidersKeepTheirRules
  NothingIsLost
PROPERTIES EveryCallReturns PollingGoesOn
