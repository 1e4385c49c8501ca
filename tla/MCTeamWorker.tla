---------------------------- MODULE MCTeamWorker ----------------------------
(* TLC instances of TeamWorker.                                            *)
EXTENDS TeamWorker

CONSTANTS w1, w2

(* A plan for w1, one for w2, and one without a lawful lease; the gate is  *)
(* open.                                                                   *)
FirstPlan == [plan |-> w1, ready |-> {w1, w2}, held |-> FALSE]
NextPlan == [plan |-> w2, ready |-> {w1, w2}, held |-> FALSE]
NoPlan == [plan |-> NoWork, ready |-> {w1, w2}, held |-> FALSE]
MCContents == {FirstPlan, NextPlan, NoPlan}
=============================================================================
