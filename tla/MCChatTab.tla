----------------------------- MODULE MCChatTab -----------------------------
(* Small instances of ChatTab for TLC.                                      *)
EXTENDS ChatTab

\* Each initial state has bounds of its own.
None == [asked |-> 2, others |-> 0, stops |-> 0, again |-> 0, lost |-> 0, reloads |-> 0,
         restarts |-> 0]
MCLimits == {
  [None EXCEPT !.stops = 2, !.again = 1],
  [None EXCEPT !.stops = 1, !.lost = 1, !.again = 1],
  [None EXCEPT !.lost = 2, !.again = 1],
  [None EXCEPT !.asked = 1, !.lost = 3, !.again = 2],
  [None EXCEPT !.others = 1, !.reloads = 1], [None EXCEPT !.others = 1, !.reloads = 1, !.stops = 1],
  [None EXCEPT !.asked = 1, !.others = 1, !.reloads = 1, !.lost = 1, !.again = 1],
  [None EXCEPT !.restarts = 1, !.again = 1],
  [None EXCEPT !.asked = 1, !.restarts = 1, !.again = 1, !.stops = 1, !.lost = 1] }
=============================================================================
