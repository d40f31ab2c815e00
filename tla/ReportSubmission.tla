--------------------------- MODULE ReportSubmission ---------------------------
(* Review and submission of one generated report.  A report is a row the whole *)
(* tenant shares; every request works on its own copy of it and writes the     *)
(* copy back whole.  A submission goes through four stores in four separate    *)
(* steps: the report system, the report row, the audit log and the             *)
(* idempotency record.                                                         *)
(*                                                                             *)
(* The report system is external: it keeps one record per idempotency key.     *)
(* The key names tenant, employee, date and report, so for one report it is    *)
(* the employee; the record's submission_id is identified with its key.        *)
(* Requests that lack their scope end before they touch any of this and are    *)
(* left out.                                                                   *)
EXTENDS Naturals, FiniteSets

CONSTANTS
    Requests,     \* the review and submit requests clients may send, each once
    Employees,    \* the employees they come from
    None

Statuses == {"draft", "approved", "rejected", "submitted"}

ASSUME ReportSubmissionAssumption ==
    None \notin Employees \cup Statuses \cup {"review", "submit"}

VARIABLES
    status,       \* column status of the report
    records,      \* the report system: the keys it holds a record for
    remembered,   \* the idempotency record: the submission_id it stores, or None
    audit,        \* the audit log: the requests that wrote to it
    req,          \* the requests
    calm          \* history: no requests overlapped and none was cut short

vars == <<status, records, remembered, audit, req, calm>>

\* Mutant: the review is saved before it is audited.
ReviewSavesFirst == [get |-> "save", save |-> "audit", audit |-> "done"]

\* Mutant: the result is remembered before the submission is audited.
SubmitRemembersFirst ==
    [get |-> "lookup", lookup |-> "connect", connect |-> "save", save |-> "remember",
     remember |-> "audit", audit |-> "done"]

\* Mutant: the result is not remembered.
SubmitForgets ==
    [get |-> "lookup", lookup |-> "connect", connect |-> "save", save |-> "audit",
     audit |-> "done"]

(* The calls of ReportService.review and ReportService.submit: what comes      *)
(* after each.                                                                 *)
ReviewSteps == [get |-> "audit", audit |-> "save", save |-> "done"]

SubmitSteps ==
    [get |-> "lookup", lookup |-> "connect", connect |-> "save", save |-> "audit",
     audit |-> "remember", remember |-> "done"]

After(kind, l) == IF kind = "review" THEN ReviewSteps[l] ELSE SubmitSteps[l]

Steps == {"get", "lookup", "connect", "save", "audit", "remember"}

Active(r) == req[r].pc \in Steps

Unused == [pc |-> "unused", kind |-> None, employee |-> None, approved |-> FALSE,
           copy |-> None,     \* the status in the request's copy of the report
           answer |-> None]   \* the submission_id its client was told

Goto(r, l) == req' = [req EXCEPT ![r].pc = l]

Proceed(r) == Goto(r, After(req[r].kind, req[r].pc))

-----------------------------------------------------------------------------
(* The report as generate_daily left it.                                       *)
Init ==
    /\ status = "draft"
    /\ records = {}
    /\ remembered = None
    /\ audit = {}
    /\ req = [r \in Requests |-> Unused]
    /\ calm = TRUE

(* A request comes: from an HTTP route, or from a resumed agent run.           *)
Begin(r, kind, employee, yes) ==
    /\ req[r].pc = "unused"
    /\ req' = [req EXCEPT ![r] = [@ EXCEPT !.pc = "get", !.kind = kind,
                                           !.employee = employee,
                                           !.approved = (kind = "review" /\ yes)]]
    /\ calm' = (calm /\ \A q \in Requests : ~Active(q))
    /\ UNCHANGED <<status, records, remembered, audit>>

Start(r) ==
    \E kind \in {"review", "submit"}, employee \in Employees, yes \in BOOLEAN :
        Begin(r, kind, employee, yes)

Get(r) ==
    /\ req[r].pc = "get"
    /\ req' = [req EXCEPT ![r] = [@ EXCEPT !.copy = status,
                                           !.pc = After(req[r].kind, "get")]]
    /\ UNCHANGED <<status, records, remembered, audit, calm>>

\* Mutant: a remembered submission is answered with the report's status.
ReplayedStatus(r) ==
    /\ req[r].pc = "lookup"
    /\ remembered # None
    /\ req' = [req EXCEPT ![r] = [@ EXCEPT !.pc = "done", !.answer = req[r].copy]]
    /\ UNCHANGED <<status, records, remembered, audit, calm>>

(* A remembered submission is answered as it was; ...                          *)
Replayed(r) ==
    /\ req[r].pc = "lookup"
    /\ remembered # None
    /\ req' = [req EXCEPT ![r] = [@ EXCEPT !.pc = "done", !.answer = remembered]]
    /\ UNCHANGED <<status, records, remembered, audit, calm>>

\* Mutant: only the status of the report guards against a second submission.
ClearedByStatus(r) ==
    /\ req[r].pc = "lookup"
    /\ req[r].copy = "approved"
    /\ Proceed(r)
    /\ UNCHANGED <<status, records, remembered, audit, calm>>

(* ... otherwise the copy must be approved ...                                 *)
Cleared(r) ==
    /\ req[r].pc = "lookup"
    /\ remembered = None
    /\ req[r].copy = "approved"
    /\ Proceed(r)
    /\ UNCHANGED <<status, records, remembered, audit, calm>>

(* ... and the sensitive-data check must let it pass.                          *)
Refused(r) ==
    /\ req[r].pc = "lookup"
    /\ remembered = None
    /\ Goto(r, "failed")
    /\ UNCHANGED <<status, records, remembered, audit, calm>>

(* submit_report of the connector makes the record for the key, ...            *)
Submitted(r) ==
    /\ req[r].pc = "connect"
    /\ records' = records \cup {req[r].employee}
    /\ Proceed(r)
    /\ UNCHANGED <<status, remembered, audit, calm>>

(* ... is unavailable, ...                                                     *)
Unavailable(r) ==
    /\ req[r].pc = "connect"
    /\ Goto(r, "failed")
    /\ UNCHANGED <<status, records, remembered, audit, calm>>

(* ... or makes the record and its answer is lost.                             *)
AnswerLost(r) ==
    /\ req[r].pc = "connect"
    /\ records' = records \cup {req[r].employee}
    /\ Goto(r, "failed")
    /\ calm' = FALSE
    /\ UNCHANGED <<status, remembered, audit>>

(* The copy is written back, over whatever the row has become.                 *)
Save(r) ==
    /\ req[r].pc = "save"
    /\ status' = IF req[r].kind = "submit" THEN "submitted"
                 ELSE IF req[r].approved THEN "approved"
                 ELSE "rejected"
    /\ Proceed(r)
    /\ UNCHANGED <<records, remembered, audit, calm>>

Audit(r) ==
    /\ req[r].pc = "audit"
    /\ audit' = audit \cup {r}
    /\ Proceed(r)
    /\ UNCHANGED <<status, records, remembered, calm>>

\* Mutant: on a conflict the request's own result is answered.
RememberOwn(r) ==
    /\ req[r].pc = "remember"
    /\ remembered' = IF remembered = None THEN req[r].employee ELSE remembered
    /\ req' = [req EXCEPT ![r] = [@ EXCEPT !.pc = SubmitSteps["remember"],
                                           !.answer = req[r].employee]]
    /\ UNCHANGED <<status, records, audit, calm>>

(* The unique constraint lets the first result in; whoever comes later takes   *)
(* the stored one for its answer.                                              *)
Remember(r) ==
    /\ req[r].pc = "remember"
    /\ remembered' = IF remembered = None THEN req[r].employee ELSE remembered
    /\ req' = [req EXCEPT ![r] = [@ EXCEPT !.pc = SubmitSteps["remember"],
                                           !.answer = remembered']]
    /\ UNCHANGED <<status, records, audit, calm>>

(* The process ends, or one of the stores cannot be written.                   *)
Crash(r) ==
    /\ Active(r)
    /\ Goto(r, "failed")
    /\ calm' = FALSE
    /\ UNCHANGED <<status, records, remembered, audit>>

Step(r) ==
    \/ Start(r)
    \/ Get(r)
    \/ Replayed(r)
    \/ Cleared(r)
    \/ Refused(r)
    \/ Submitted(r)
    \/ Unavailable(r)
    \/ AnswerLost(r)
    \/ Save(r)
    \/ Audit(r)
    \/ Remember(r)
    \/ Crash(r)

Next == \E r \in Requests : Step(r)

Spec == Init /\ [][Next]_vars

-----------------------------------------------------------------------------
(* Types: statuses, steps and answers keep their domains; the audit log names  *)
(* requests that were sent, the idempotency record an employee's key.          *)
TypeOK ==
    /\ status \in Statuses
    /\ records \subseteq Employees
    /\ remembered \in Employees \cup {None}
    /\ audit \subseteq {r \in Requests : req[r].kind # None}
    /\ \A r \in Requests :
          /\ req[r].pc \in Steps \cup {"unused", "done", "failed"}
          /\ req[r].kind \in {None, "review", "submit"}
          /\ req[r].employee \in Employees \cup {None}
          /\ req[r].approved \in BOOLEAN
          /\ req[r].copy \in Statuses \cup {None}
          /\ req[r].answer \in Employees \cup {None}
    /\ calm \in BOOLEAN

Reviewed == \E q \in audit : req[q].kind = "review" /\ req[q].approved

(* Nothing leaves the house unreviewed: whatever overlaps and crashes, the     *)
(* report system gets a report only after the audit log names a review that    *)
(* approved it.                                                                *)
SubmittedWasReviewed == records # {} => Reviewed

(* Every client that is told a submission_id is told the same one, also when   *)
(* several submitted at once or a retry made a second record, and the report   *)
(* system knows it.                                                            *)
AnswersAgree ==
    \A r \in Requests :
        req[r].answer # None => /\ req[r].answer = remembered
                                /\ remembered \in records

(* A submission that would be answered from the idempotency record has left    *)
(* its trace in the audit log: no replay can hide that it is missing.          *)
RememberedWasAudited ==
    remembered # None => \E q \in audit : req[q].kind = "submit"

(* One submission per report: the report system never holds two records of it. *)
SingleSubmission == Cardinality(records) <= 1

(* While requests come one at a time and none is cut short, a report is        *)
(* submitted once, whoever submits it and however often it is reviewed again.  *)
CalmSingleSubmission == calm => SingleSubmission

(* While requests come one at a time and none is cut short, a submitted report *)
(* can be submitted again: its result is remembered.  (A submission cut short  *)
(* before that leaves a report of which every repetition is refused as not     *)
(* approved, until somebody reviews it again.)                                 *)
CalmSubmittedIsRemembered ==
    calm /\ status = "submitted" /\ (\A r \in Requests : ~Active(r)) => remembered # None

-----------------------------------------------------------------------------
(* What the audit log tells of the report: that a review approved it, that it  *)
(* was submitted.                                                              *)
Logged == {what \in {"review", "submit"} :
             \E q \in audit : req[q].kind = what /\ (what = "review" => req[q].approved)}

Outcome == INSTANCE ReportOutcome WITH
    Clients <- Requests, logged <- Logged, held <- records, settled <- remembered,
    told <- [r \in Requests |-> req[r].answer]

(* The service implements ReportOutcome: seen through the report system, the   *)
(* idempotency record, the audit log and the answers, overlapping, repeated    *)
(* and interrupted requests do what one careful clerk would.                   *)
ImplementsOutcome == Outcome!Spec

=============================================================================
