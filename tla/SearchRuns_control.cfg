\* Stop and close against two submissions of one request, a silent provider,
\* one storage call that fails, and one restart.
SPECIFICATION FairSpec
CONSTANTS
  Posts = {p1, p2}
  Requests = {r1}
  NoRun = NoRun
  Clients = {"stop", "close"}
  Provided = {"text"}
  MaxChunks = 1
  MaxRestarts = 1
  MaxFaults = 1
  Windows = {}
CHECK_DEADLOCK FALSE
INVARIANTS StopIsFinal CloseQuiesces
PROPERTIES RequestsEnd
