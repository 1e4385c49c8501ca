--------------------------- MODULE AssistantFaces ---------------------------
(***************************************************************************)
(* Which face of the assistant answers an input.  An input is the set of   *)
(* the words of interest its lower-case text includes.                     *)
(***************************************************************************)

(* FaceRegistry: the faces it makes.                                       *)
Faces ==
    {"ExecutiveFace", "FinancialFace", "AccountingFace", "TaxFace", "AuditFace",
     "DecisionFace", "RiskFace", "StrategyFace", "OperationsFace", "KnowledgeFace",
     "AssistantFace", "AutonomousFace"}

Taxing == {"tax", "vat", "irs", "tax in Persian"}
Financial == {"financial", "finance", "money", "financial in Persian"}
Words == Taxing \cup Financial \cup {"risk", "strategy", "decision"}

(* AssistantOrchestrator.route: the first group that is mentioned. (The    *)
(* text matches inside other words as well: private mentions vat.)         *)
Route(input) ==
    CASE input \cap Taxing # {} -> "TaxFace"
      [] input \cap Taxing = {} /\ input \cap Financial # {} -> "FinancialFace"
      [] input \cap (Taxing \cup Financial) = {} /\ "risk" \in input -> "RiskFace"
      [] input \cap (Taxing \cup Financial \cup {"risk"}) = {} /\ "strategy" \in input ->
            "StrategyFace"
      [] input \subseteq {"decision"} /\ "decision" \in input -> "DecisionFace"
      [] OTHER -> "AssistantFace"

(* FaceRegistry.route                                                      *)
Respond(face) == IF face \in Faces THEN face ELSE "FACE_NOT_FOUND"

(* AssistantOrchestrator.execute                                           *)
ExecuteInput(input) == [face |-> Route(input), result |-> Respond(Route(input))]
=============================================================================
