------------------------ MODULE MCConstructionEngine ------------------------
(* TLC instances of ConstructionEngine and the faults its properties catch. *)
EXTENDS ConstructionEngine

(* Every tool may answer anything the engine can tell apart.               *)
AnyAnswer == AnswersOf
=============================================================================
