--------------------------- MODULE MCChatContext ---------------------------
(* Small instances of ChatContext for TLC.                                  *)
EXTENDS ChatContext, TLC

\* Each initial state has bounds of its own.
None == [messages |-> 4, begun |-> {"a"}, edits |-> 0, branches |-> 0, stops |-> 0, faults |-> 0]
MCLimits == {
  [None EXCEPT !.messages = 6], [None EXCEPT !.messages = 5, !.edits = 1],
  [None EXCEPT !.branches = 1], [None EXCEPT !.faults = 1, !.stops = 1] }
=============================================================================
