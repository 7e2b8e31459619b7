SPECIFICATION Spec
CONSTANTS
  ScanPrices = {1, 2, 3, 4, 5, 6, 7, 8}
  ScanCandles <- MCScanCandles
  MaxBars = 2
  Extra = 6
  Mid = 9
  OneR = 2
  Targets = {1, 3, 5}
  Middles = {0, 1, 2}
  Moves <- MCMoves
  MaxHold = 3
  Spread = 1
  Slippage = 1
  Prices = {1, 2, 3, 4, 5, 6}
  Orders <- MCOrders
  Slip = 1
  Trail = 2
  MinGap = 2
  Nfi5Candles <- MCNfi5Candles
  Nfi5Rates = {990, 1020, 1060, 1110, 1130, 1200, 1350}
  Nfi5Ages = {0, 15, 61}
  ArcaneCandles <- MCArcaneCandles
  ArcaneRates = {5, 990, 1020, 1060, 1110, 1220}
  ArcaneAges = {0, 130, 330}
  NasosCandles <- MCNasosCandles
  NasosRates = {680, 830, 990, 1021, 1040, 1070, 1120, 1500}
  NasosAges = {0}
  SignalCandles <- MCSignalCandles
  SignalRates = {790, 900, 1005, 1012, 1022, 1040, 1110, 1230}
  SignalAges = {0, 45, 90, 150, 210}
  BuyPrices = {1000, 1001, 1002, 1003, 1004, 1005, 1006, 1007, 1008, 1009, 1010, 1011, 1012, 1013, 1014}
  Offset = 5
  Universes <- MCUniverses
  Markets <- MCMarkets
  Shut = Shut
  FirstDay = 3
  LastDay = 4
  LeastGap = 3
  MinRvol = 2
  MinAtr = 2
  MinPrevDays = 2
  MaxPerDay = 1
  MinTrades = 3
  MinSymbols = 2
CHECK_DEADLOCK FALSE
INVARIANTS TypeOK EnginesAgree PartsKeepTheirWorth GuardedExitsHold GuardedEntriesHold SignalTradesKeepTheirStops TrailingBuysLow UniverseRunsRepeat
PROPERTY StepsOnlyTighten
