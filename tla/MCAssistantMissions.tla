------------------------ MODULE MCAssistantMissions ------------------------
(* AssistantMissions with three overlapping calls or pieces of feedback.    *)
EXTENDS AssistantMissions
CONSTANTS c1
MCCapabilities == {c1}
=============================================================================
