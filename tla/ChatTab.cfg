SPECIFICATION FairSpec
CONSTANTS
  Attempts = 1
  Events = 1
  Limits <- MCLimits
  Windows = {}
CHECK_DEADLOCK FALSE
INVARIANTS AnswersAreTheirs ReadyIsQuiet FollowUpsFit
PROPERTIES PromptsAreKept TabRests
