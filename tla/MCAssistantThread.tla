-------------------------- MODULE MCAssistantThread --------------------------
(* Instances of AssistantThread for TLC.                                       *)
EXTENDS AssistantThread, TLC

CONSTANTS r1, r2, r3

MCRequests == {r1, r2, r3}

(* Two submissions may be asked for side by side.                              *)
MCActions == {"review", "submit", "submit again"}

MCScope == [a \in MCActions |-> IF a = "review" THEN "report:review" ELSE "report:submit"]

(* One write is pending, two with one scope, or two with different scopes.     *)
MCStopSets == {{"review"}, {"submit"}, {"submit", "submit again"}, {"review", "submit"}}

(* A reviewer, a submitter, and an operator with every scope.                  *)
MCScopeSets == {{"report:review"},
                {"report:submit"},
                {"report:review", "report:submit", "assistant:review"}}

Symmetry == Permutations(MCRequests)
=============================================================================
