------------------------------- MODULE MCWork -------------------------------
(* Small instances of Work for TLC.  Each initial state has bounds of its    *)
(* own, which let one kind of disturbance happen in depth; the parts and      *)
(* what couples them are the same in all of them.                             *)
EXTENDS Work
CONSTANTS c1, c2

MCChatOf == [c \in Calls |-> "chat"]
MCDelay == [j \in Jobs |-> 1]
MCEvery == [j \in Jobs |-> IF j = "j1" THEN 1 ELSE 0]

Tools0(stops) == [starts |-> 0, cancels |-> 0, reports |-> 0, faults |-> 0, stops |-> stops]
Runs0(posts, writes) ==
  [creates |-> 1, posts |-> posts, cancels |-> 0, faults |-> 0, stops |-> 0,
   writes |-> writes, cleans |-> 0]

Bounds == {
  \* a restart; a person who competes; a cancellation; a fault; a clean-up
  <<Tools0(1), [Runs0(1, 1) EXCEPT !.stops = 1]>>,
  <<Tools0(0), Runs0(2, 2)>>,
  <<Tools0(0), [Runs0(1, 1) EXCEPT !.cancels = 1]>>,
  <<Tools0(1), [Runs0(1, 1) EXCEPT !.faults = 1, !.stops = 1]>>,
  <<Tools0(0), [Runs0(1, 1) EXCEPT !.cleans = 1]>>,
  \* two tools; one started twice over a restart; one that is cancelled and fails
  <<[Tools0(0) EXCEPT !.starts = 2, !.cancels = 1], [Runs0(1, 1) EXCEPT !.creates = 0]>>,
  <<[Tools0(1) EXCEPT !.starts = 2], [Runs0(1, 1) EXCEPT !.creates = 0, !.stops = 1]>>,
  <<[starts |-> 1, cancels |-> 1, reports |-> 0, faults |-> 1, stops |-> 1],
    [Runs0(1, 1) EXCEPT !.creates = 0, !.stops = 1]>>,
  \* a person and a tool beside a deletion
  <<[Tools0(0) EXCEPT !.starts = 1], [Runs0(2, 2) EXCEPT !.creates = 0]>>,
  \* a tool beside a clean-up
  <<[Tools0(0) EXCEPT !.starts = 1, !.reports = 1, !.faults = 1], [Runs0(1, 1) EXCEPT !.creates = 0, !.cleans = 1]>> }

MCBudgets == {b[1] : b \in Bounds}
MCLimits == {b[2] : b \in Bounds}
MCInit == Init /\ <<budget, limit>> \in Bounds
MCSpec == MCInit /\ [][Next]_vars /\ Fairness
=============================================================================
