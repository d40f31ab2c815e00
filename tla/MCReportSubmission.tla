-------------------------- MODULE MCReportSubmission --------------------------
(* Instances of ReportSubmission for TLC.                                      *)
EXTENDS ReportSubmission, TLC

CONSTANTS r1, r2, r3, r4, e1, e2

MCRequests == {r1, r2, r3, r4}

MCEmployees == {e1, e2}

Symmetry == Permutations(MCRequests) \cup Permutations(MCEmployees)
=============================================================================
