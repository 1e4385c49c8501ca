--------------------------- MODULE MCBuildDaemon ---------------------------
(* TLC instances of BuildDaemon.                                           *)
EXTENDS BuildDaemon

CONSTANTS k1, k2, k3, x1, gate, f1

(* k1 rests on k2, which the backlog lists after it: the order of weaving  *)
(* comes from the dependencies.  The agent has the text of both, and of    *)
(* the others writes scaffolds: k3 of the backlog; x1, a product of the    *)
(* roadmap that rests on k1; the gate.  Somebody else pushes f1, their own *)
(* implementation of k3.                                                   *)
MCKnots == {k1, k2, k3, x1, gate}
MCDeps == [k \in MCKnots |->
    CASE k = k1 -> {k2} [] k = x1 -> {k1, k2} [] OTHER -> {}]
MCForeign == {f1}
MCProvides == [f \in MCForeign |-> {k3}]
MCBacklog == <<k1, k2, k3>>
MCExtensions == <<x1>>

(* The architecture tool always agrees, and nothing repairs.               *)
ShippedAnswers ==
    [s \in Stages |->
        CASE s = "GENERATE" -> {"produced", "noop", "failed"}
          [] s = "VERIFY"   -> {"proven", "unproven", "failed"}
          [] s = "FINALIZE" -> {"ok", "nochange", "failed"}
          [] OTHER          -> {"ok"}]
=============================================================================
