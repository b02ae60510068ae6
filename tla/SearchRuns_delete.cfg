\* A chat may be deleted while one of its submissions is being admitted.
SPECIFICATION Spec
CONSTANTS
  Posts = {p1, p2}
  Requests = {r1, r2}
  NoRun = NoRun
  Clients = {"delete"}
  Provided = {"text", "finish"}
  MaxChunks = 2
  MaxRestarts = 0
  MaxFaults = 0
  Windows = {"delete"}
SYMMETRY Interchangeable
CHECK_DEADLOCK FALSE
INVARIANTS DeletedStaysDeleted
