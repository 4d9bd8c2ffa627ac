SPECIFICATION BatterySpec
CONSTANTS
  MaxStores = 2
  Batteries <- MCBatteries
  WithData <- Emus
  Returns = "int"
  Calls = FALSE
INVARIANTS RunsStartFresh NoFalseAlarm FinalMemoryCompared BatteryLeavesNothing
