SPECIFICATION FairSpec
CONSTANTS
  Chats = {"a", "b"}
  HistoryBudget = 9
  Recent = 3
  Ceiling = 11
  System = 1
  Slack = 1
  Reference = 1
  Summaries = {2}
  Large = 4
  Sizes = {1, 4}
  Limits <- MCLimits
  Windows = {}
CHECK_DEADLOCK FALSE
INVARIANTS ShowsThisChat EvidenceRemains ExchangesAreWhole
PROPERTIES TurnsEnd
