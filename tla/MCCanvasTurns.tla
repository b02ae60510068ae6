---------------------------- MODULE MCCanvasTurns ----------------------------
(* Small instances of CanvasTurns for TLC.  Each initial state has bounds of  *)
(* its own, which let one kind of disturbance happen in depth.                *)
EXTENDS CanvasTurns

MCRevisions == BOOLEAN

Zero == [turns |-> 0, jobs |-> 0, closes |-> 0, tabs |-> {}, calls |-> 0, edits |-> 0,
         redraws |-> 0, reloads |-> 0, drops |-> 0, faults |-> 0, toggles |-> 0,
         forks |-> 0, clis |-> 0, kills |-> 0]

MCBudgets == {
  [Zero EXCEPT !.turns = 2, !.jobs = 1, !.toggles = 2],
  [Zero EXCEPT !.turns = 2, !.jobs = 1, !.toggles = 1, !.closes = 1],
  [Zero EXCEPT !.forks = 1, !.edits = 2, !.tabs = {"t1","t2"}],
  [Zero EXCEPT !.forks = 1, !.edits = 2, !.tabs = {"t1"}, !.drops = 1, !.redraws = 1, !.reloads = 1],
  [Zero EXCEPT !.clis = 1, !.calls = 2, !.tabs = {"t1"}, !.edits = 1, !.redraws = 1, !.reloads = 1],
  [Zero EXCEPT !.clis = 1, !.calls = 2, !.tabs = {"t1"}, !.edits = 1, !.kills = 1],
  [Zero EXCEPT !.turns = 1, !.calls = 2, !.tabs = {"t1"}, !.edits = 1],
  [Zero EXCEPT !.turns = 2, !.calls = 4],
  [Zero EXCEPT !.turns = 1, !.clis = 1, !.calls = 2, !.toggles = 1],
  [Zero EXCEPT !.forks = 1, !.tabs = {"t1"}, !.edits = 1, !.toggles = 2],
  [Zero EXCEPT !.forks = 1, !.tabs = {"t1"}, !.edits = 2, !.faults = 1],
  [Zero EXCEPT !.forks = 1, !.clis = 1, !.calls = 2, !.faults = 1] }
=============================================================================
