\* A poll's read of a journal may be served after the run was admitted.
SPECIFICATION Spec
CONSTANTS
  Posts = {p1, p2}
  Requests = {r1, r2}
  NoRun = NoRun
  Clients = {"poll"}
  Provided = {"text", "finish"}
  MaxChunks = 2
  MaxRestarts = 0
  MaxFaults = 0
  Windows = {"poll"}
SYMMETRY Interchangeable
CHECK_DEADLOCK FALSE
INVARIANTS LoadedHasNoOwner
