--------------------------- MODULE MCFactoryLoop ---------------------------
(* TLC instances of FactoryLoop.                                           *)
EXTENDS FactoryLoop, TLC

FailureSymmetry == Permutations(Failures)
=============================================================================
