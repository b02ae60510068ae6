\* Three users of the pool and one CLI, two tabs, two elements.
SPECIFICATION TurnsFair
CONSTANTS
  Leases = {"l1", "l2", "l3"}
  Revisions <- MCRevisions
  MaxGens = 3
  Turns = {"l1", "l2", "l3", "cli"}
  Outside = {"cli"}
  Tabs = {"t1", "t2"}
  Elements = {"x", "y"}
  Arrows = {"y"}
  MaxConflicts = 1
  Budgets <- MCBudgets
CHECK_DEADLOCK FALSE
INVARIANTS UsedIsOpen NoLostEdit EditsAreKept
PROPERTIES DisabledIsKept Converges
