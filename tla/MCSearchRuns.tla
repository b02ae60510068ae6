---------------------------- MODULE MCSearchRuns ----------------------------
(* Small instances of SearchRuns for TLC.                                   *)
EXTENDS SearchRuns, TLC

\* Submissions and request ids are interchangeable.
Interchangeable == Permutations(Posts) \cup Permutations(Requests)
=============================================================================
