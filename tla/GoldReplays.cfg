SPECIFICATION Spec
CONSTANTS
  MaxHold = 2
  Spread = 1
  Slip = 1
  Lookback = 2
  CrtPrices = {1, 2, 3, 4}
  CrtBuffer = 1
  CrtMinRR = 0
  V2Prices = {1, 2, 4, 6, 7}
  V2Buffer = 0
  V2MinRR = 1
  Prices = {1, 2, 4}
  Buffer = 1
  RR = 2
  Breach = 0
  BreachHtf = 1
  MaxSweep = 2
  StructRR = 1
  TfmCandles <- MCTfmCandles
  MaxBars = 5
  PerH4 = 2
  Left = 1
  Right = 1
  Context = 2
  Stride = 2
  Horizon = 6
  MinMove = 2
  Forecast <- MCForecast
  Tol = 3
  TfmBuffer = 6
  TfmRR = 1
  TrendCandles <- MCTrendCandles
  MinAsia = 2
  TargetR = 2
CHECK_DEADLOCK FALSE
INVARIANTS TypeOK OneTradePerSetup TradesStayInBracket LookAheadIsBounded
PROPERTIES ImplementsV1 TradesFollowTheirSetup
