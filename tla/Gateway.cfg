SPECIFICATION Spec
CONSTANTS
  MaxTime = 7
  MaxStep = 3
  MaxStreak = 6
  AlertCount = 3
  FreezeTime = 3
  MaxRiskPct = 2
  MinRR = 2
  MinStopMille = 3
  StopAtrPct = 15
  MaxExposurePct = 30
  MaxDrawdownPct = 6
  PdtEquity = 250
  PdtTrades = 3
  AlertSizePct = 50
  AlertStopPct = 150
  Plans <- MCPlans
  Accounts <- MCAccounts
  Markets <- MCMarkets
INVARIANTS TypeOK WithinAllCaps LongStreakIsFrozen
PROPERTY FreezeHolds
