SPECIFICATION Spec
CONSTANTS
  Ticket = {k1}
  MaxTime = 6
  MaxStep = 1
  DayLen = 4
  BarLen = 2
  Cooldown = 1
  EntryWindow = 2
  RetryGap = 1
  MaxHold = 2
  MaxLossPct = 4
  HardKillPct = 5
  EquityLevel = {100}
  FridayTime = {}
  Lot = {3, 10}
  Target = {1, 3}
  Excursion = {0, 1, 2}
  Fault = {"crash", "delete", "modify1", "modify2"}
  Restarts = TRUE
INVARIANT PartialsLeaveAPosition
PROPERTY ClockNeverRestarts
