SPECIFICATION Spec
CONSTANTS
  Runs = {r1}
  Symbols = {gold, tech}
  Plans <- BothPlans
  Markets <- MCMarkets
  Equities = {140, 150}
  AlertCount = 3
  FreezeTime = 3
  MaxRiskPct = 2
  MinRR = 2
  MinStopMille = 3
  StopAtrPct = 15
  MaxExposurePct = 30
  MaxDrawdownPct = 6
  PdtEquity = 25
  PdtTrades = 3
  AlertSizePct = 50
  AlertStopPct = 150
INVARIANT GrossWithinCap
