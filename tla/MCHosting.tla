----------------------------- MODULE MCHosting -----------------------------
(* A small instance of Hosting for TLC.                                     *)
EXTENDS Hosting
MCBudget == [deletes |-> 2, adds |-> 1, faults |-> 2, timeouts |-> 1, crashes |-> 1, reads |-> 1]
=============================================================================
