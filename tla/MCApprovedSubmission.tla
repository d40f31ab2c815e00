------------------------- MODULE MCApprovedSubmission -------------------------
(* Instances of ApprovedSubmission for TLC.                                    *)
EXTENDS ApprovedSubmission, TLC

CONSTANTS d1, d2, c1, c2, c3, e1, e2

MCDirect == {d1, d2}

MCConversations == {c1, c2, c3}

MCEmployees == {e1, e2}

(* A submission is pending, or both actions are.                               *)
MCStopSets == {{"submit_report"}, {"review_report", "submit_report"}}

(* A submitter, and an operator with every scope.                              *)
MCScopeSets == {{"report:submit"},
                {"report:review", "report:submit", "assistant:review"}}

Symmetry == Permutations(MCDirect)
              \cup Permutations(MCConversations)
              \cup Permutations(MCEmployees)
=============================================================================
