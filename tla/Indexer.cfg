\* Two files and three changes, one fault, one kill and one stop at any time.
SPECIFICATION FairSpec
CONSTANTS
  f1 = f1
  f2 = f2
  Files = {f1, f2}
  Texts = {1, 2}
  EventsMax = 1
  Budget <- MCBudget
CHECK_DEADLOCK FALSE
INVARIANTS CaughtUp Recoverable
PROPERTIES CatchesUp
