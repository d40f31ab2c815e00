---------------------------- MODULE MinutesOutcome ----------------------------
(* What becomes of the minutes of one meeting, without rows, copies and steps: *)
(* contents get approved; one approved content is mailed, once and for good;   *)
(* and work reports may quote, from time to time, an approved content or none. *)
EXTENDS Naturals

VARIABLES
    approved,      \* the contents an audited review approved
    mailed,        \* the content that was mailed, 0 if none
    quotable       \* the content work reports may quote, 0 if none

vars == <<approved, mailed, quotable>>

Init == approved = {} /\ mailed = 0 /\ quotable = 0

Approve ==
    /\ \E content \in approved' \ {0} : approved' = approved \cup {content}
    /\ UNCHANGED <<mailed, quotable>>

Mail ==
    /\ mailed = 0
    /\ mailed' \in approved
    /\ UNCHANGED <<approved, quotable>>

Publish ==
    /\ quotable' \in approved \cup {0}
    /\ UNCHANGED <<approved, mailed>>

Next == Approve \/ Mail \/ Publish

Spec == Init /\ [][Next]_vars
=============================================================================
