------------------------ MODULE MCPerformanceBudget ------------------------
(* TLC instances of PerformanceBudget.                                     *)
EXTENDS PerformanceBudget
=============================================================================
