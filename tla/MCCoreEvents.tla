---------------------------- MODULE MCCoreEvents ----------------------------
(* CoreEvents with two knowledge engines and one listener from outside.    *)
EXTENDS CoreEvents
CONSTANTS k1, k2, o1
MCKnowledgeEngines == {k1, k2}
MCOutsiders == {o1}
=============================================================================
