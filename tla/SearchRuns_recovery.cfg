\* Everything a restart can meet: two submissions, tools, browser saves, polls
\* and a deletion, with one restart at any
\* point; the submissions race for the chat, repeated and regenerated ones among them.
SPECIFICATION Spec
CONSTANTS
  Posts = {p1, p2}
  Requests = {r1, r2}
  NoRun = NoRun
  Clients = {"put", "poll", "delete"}
  Provided = {"call", "result", "finish", "error", "abort"}
  MaxChunks = 3
  MaxRestarts = 1
  MaxFaults = 0
  Windows = {}
SYMMETRY Interchangeable
CHECK_DEADLOCK FALSE
INVARIANTS OneOwner OneExecution EffectsAreRecorded SettledTranscript
PROPERTIES HistoryKept OutcomesAreKept
