\* Two events, with two crashes, pauses or recoveries that overlap a run.
SPECIFICATION FairSpec
CONSTANTS
  Asks = {a1, a2}
  MaxAttempts = 2
  MaxMishaps = 2
CHECK_DEADLOCK FALSE
INVARIANTS NoLostRequest
PROPERTIES QueueDrains
