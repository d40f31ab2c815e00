--------------------------- MODULE MCMeetingMinutes ---------------------------
(* Instances of MeetingMinutes for TLC.                                        *)
EXTENDS MeetingMinutes, TLC

CONSTANTS r1, r2, r3

MCRequests == {r1, r2, r3}

Symmetry == Permutations(MCRequests)
=============================================================================
