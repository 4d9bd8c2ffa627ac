SPECIFICATION Spec
CONSTANTS
  Second = 3
  Rates = {1, 3}
  U16 = 3
  NumCallbacks = 2
  NumRequests = 2
  NumEntries = 2
  Transfers = {t1, t2}
  Lists = {l1}
  Divisors = {0, 2}
  MaxWait = 2
  MaxTasks = 3
  Prompts = {TRUE, FALSE}
INVARIANTS TypeOK
PROPERTIES DropsReported DrawsWholeScene TransfersMade SkipsDivisorFrames FramesGoOn
CHECK_DEADLOCK FALSE
