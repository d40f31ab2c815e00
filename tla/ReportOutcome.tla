---------------------------- MODULE ReportOutcome ----------------------------
(* What becomes of one report in the end, without statuses, copies and steps:  *)
(* an approving review is logged; then the report system gets the report,      *)
(* possibly of several employees; then a submission is logged; one of those    *)
(* the report system holds is settled on, for good; and every client that is   *)
(* told of a submission is told that one.                                      *)
CONSTANTS
    Clients,
    Employees,
    None

VARIABLES
    logged,        \* of "review" (one that approved) and "submit", those that were
    held,          \* the employees in whose name the report system has the report
    settled,       \* the submission that counts, or None
    told           \* what each client was told, or None

vars == <<logged, held, settled, told>>

Init ==
    /\ logged = {}
    /\ held = {}
    /\ settled = None
    /\ told = [c \in Clients |-> None]

Log(what) ==
    /\ what = "submit" => held # {}
    /\ logged' = logged \cup {what}
    /\ UNCHANGED <<held, settled, told>>

Submit(e) ==
    /\ "review" \in logged
    /\ held' = held \cup {e}
    /\ UNCHANGED <<logged, settled, told>>

(* The first client to be told of a submission settles which one it is.        *)
Settle(c) ==
    /\ settled = None
    /\ "submit" \in logged
    /\ settled' \in held
    /\ told' = [told EXCEPT ![c] = settled']
    /\ UNCHANGED <<logged, held>>

Tell(c) ==
    /\ settled # None
    /\ told' = [told EXCEPT ![c] = settled]
    /\ UNCHANGED <<logged, held, settled>>

Next ==
    \/ \E what \in {"review", "submit"} : Log(what)
    \/ \E e \in Employees : Submit(e)
    \/ \E c \in Clients : Settle(c) \/ Tell(c)

Spec == Init /\ [][Next]_vars
=============================================================================
