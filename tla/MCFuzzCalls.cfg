SPECIFICATION BatterySpec
CONSTANTS
  MaxStores = 1
  Batteries <- OneVector
  WithData <- Emus
  Returns = "int"
  Calls = TRUE
INVARIANTS NoFalseAlarm
