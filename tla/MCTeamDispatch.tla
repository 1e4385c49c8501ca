--------------------------- MODULE MCTeamDispatch ---------------------------
(* TLC instances of TeamDispatch.                                          *)
EXTENDS TeamDispatch, TLC

CONSTANTS w1, w2, d1, d2

(* A plan for w1 behind the held gate; a plan for w2 with the gate open;   *)
(* and a plan for w1, the gate open, whose work the registry has retired.  *)
HeldPlan == [plan |-> w1, ready |-> {w1, w2}, held |-> TRUE]
OpenPlan == [plan |-> w2, ready |-> {w1, w2}, held |-> FALSE]
RetiredPlan == [plan |-> w1, ready |-> {w2}, held |-> FALSE]
MCContents == {HeldPlan, OpenPlan, RetiredPlan}

Interchangeable == Permutations(Dispatchers)
=============================================================================
