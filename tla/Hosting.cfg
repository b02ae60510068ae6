\* Two deletions, one addition between them, two faults and a crash.
SPECIFICATION FairSpec
CONSTANTS
  MaxActive = 2
  Budget <- MCBudget
  Windows = {}
CHECK_DEADLOCK FALSE
INVARIANTS DeletedStaysDeleted WipedAlone RefusedIsKept
PROPERTIES DeleteReturns
