----------------------------- MODULE MCIndexer -----------------------------
(* Small instances of Indexer for TLC.                                      *)
EXTENDS Indexer, TLC
CONSTANTS f1, f2
MCBudget == [writes |-> 3, faults |-> 1, kills |-> 1, stops |-> 1]
MCBudgetStop == [writes |-> 1, faults |-> 0, kills |-> 0, stops |-> 1]
Symmetry == Permutations(Files)
=============================================================================
