SPECIFICATION MCSpec
CONSTANTS
  c1 = c1
  c2 = c2
  Calls = {c1, c2}
  ChatOf <- MCChatOf
  ChatLimit = 1
  ProjectLimit = 2
  Budgets <- MCBudgets
  Jobs = {"j1", "j2"}
  Delay <- MCDelay
  Every <- MCEvery
  OnTool = {"j2"}
  Sleeps = {"j1"}
  MaxTime = 3
  Limits <- MCLimits
  Windows = {}
CHECK_DEADLOCK FALSE
INVARIANTS WorkIsApart AtMostOnce LeasesInBounds OccurrencesInOrder CancelledStaysQuiet
PROPERTIES OutcomeIsFinal FailsForItsRun EndsCleanly
