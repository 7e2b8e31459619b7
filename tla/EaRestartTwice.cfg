SPECIFICATION Spec
CONSTANTS
  Ticket = {k1, k2}
  MaxTime = 7
  MaxStep = 1
  DayLen = 4
  BarLen = 2
  Cooldown = 1
  EntryWindow = 2
  RetryGap = 1
  MaxHold = 2
  MaxLossPct = 4
  HardKillPct = 5
  EquityLevel = {100}
  FridayTime = {}
  Lot = {10}
  Target = {3}
  Excursion = {0}
  Fault = {}
  Restarts = TRUE
INVARIANT OnePositionPerTrigger
