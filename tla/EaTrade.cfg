SPECIFICATION Spec
CONSTANTS
  Ticket = {k1, k2}
  MaxTime = 7
  MaxStep = 1
  DayLen = 4
  BarLen = 2
  Cooldown = 1
  EntryWindow = 2
  RetryGap = 1
  MaxHold = 1
  MaxLossPct = 4
  HardKillPct = 5
  EquityLevel = {100}
  FridayTime = {}
  Lot = {10}
  Target = {3}
  Excursion = {0, 1, 2, 3}
  Fault = {"partial1", "partial2", "final"}
  Restarts = FALSE
SYMMETRY Symmetry
INVARIANTS NothingOutlivesItsTime LedgerMatchesBroker
PROPERTIES ImplementsContract StopNeverLoosens
