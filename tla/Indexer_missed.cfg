\* One file, one change and one stop: the baseline of a clean stop hides a missed change.
SPECIFICATION Spec
CONSTANTS
  f1 = f1
  f2 = f2
  Files = {f1}
  Texts = {1}
  EventsMax = 1
  Budget <- MCBudgetStop
CHECK_DEADLOCK FALSE
PROPERTIES Reconciled
