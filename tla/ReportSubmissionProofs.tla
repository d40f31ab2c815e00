------------------------ MODULE ReportSubmissionProofs ------------------------
(* Proofs about ReportSubmission, for any number of requests and employees:    *)
(* what is submitted was reviewed, what is answered agrees, what is remembered *)
(* was audited, however requests overlap and wherever they are cut short.      *)
(* Requests that come one at a time submit the report once.                    *)
EXTENDS ReportSubmission, FiniteSetTheorems, TLAPS

RequestType ==
    [pc : Steps \cup {"unused", "done", "failed"}, kind : {None, "review", "submit"},
     employee : Employees \cup {None}, approved : BOOLEAN, copy : Statuses \cup {None},
     answer : Employees \cup {None}]

Typed == req \in [Requests -> RequestType]

(* A request that was sent has a kind and an employee, and keeps to the steps  *)
(* of its kind.                                                                *)
StepsOfKind ==
    \A r \in Requests :
        /\ req[r].pc = "unused" <=> req[r].kind = None
        /\ req[r].pc # "unused" => req[r].employee \in Employees
        /\ req[r].pc \in {"lookup", "connect", "remember"} => req[r].kind = "submit"

(* Wherever "approved" is read, and past the check that reads it, a review     *)
(* that approved is in the audit log.                                          *)
ApprovalsReviewed ==
    /\ status = "approved" => Reviewed
    /\ \A r \in Requests :
          /\ req[r].copy = "approved" => Reviewed
          /\ req[r].pc = "connect" => Reviewed
          /\ req[r].pc = "save" /\ req[r].kind = "review" => r \in audit

(* A submission past the report system has its record there.                   *)
RecordsMade ==
    /\ remembered # None => remembered \in records
    /\ \A r \in Requests :
          /\ req[r].kind = "submit" /\ req[r].pc \in {"save", "audit", "remember"}
                => req[r].employee \in records
          /\ req[r].pc = "remember" => r \in audit

IInv == /\ Typed
        /\ TypeOK
        /\ StepsOfKind
        /\ ApprovalsReviewed
        /\ RecordsMade
        /\ SubmittedWasReviewed
        /\ AnswersAgree
        /\ RememberedWasAudited

(* Requests that come one at a time.                                           *)
Alone == \A r, q \in Requests : Active(r) /\ Active(q) => r = q

(* The submission is past the report system and not yet remembered.            *)
OnTheWay(x) == x.kind = "submit" /\ x.pc \in {"save", "audit", "remember"}

(* A record is remembered, or its submission is on the way there; so none is   *)
(* there when a submission connects.                                           *)
CalmInv ==
    calm => /\ Alone
            /\ \A x, y \in records : x = y
            /\ records # {} => \/ remembered # None
                              \/ \E r \in Requests : OnTheWay(req[r])
            /\ \A r \in Requests : req[r].pc = "connect" => remembered = None /\ records = {}
            /\ status = "submitted" => records # {}

-----------------------------------------------------------------------------
(* The order of the steps, read off the two records.                           *)
LEMMA StepOrder ==
    /\ After("review", "get") = "audit"
    /\ After("review", "audit") = "save"
    /\ After("review", "save") = "done"
    /\ After("submit", "get") = "lookup"
    /\ After("submit", "lookup") = "connect"
    /\ After("submit", "connect") = "save"
    /\ After("submit", "save") = "audit"
    /\ After("submit", "audit") = "remember"
    /\ SubmitSteps["remember"] = "done"
  BY DEF After, ReviewSteps, SubmitSteps

LEMMA InitIInv == Init => IInv
  <1> SUFFICES ASSUME Init PROVE IInv
    OBVIOUS
  <1>1. Typed
    BY DEF Init, Unused, Typed, RequestType
  <1>2. TypeOK
    BY DEF Init, Unused, TypeOK, Statuses
  <1> QED
    BY <1>1, <1>2, ReportSubmissionAssumption
    DEF Init, Unused, IInv, StepsOfKind, ApprovalsReviewed, RecordsMade,
        SubmittedWasReviewed, AnswersAgree, RememberedWasAudited, Statuses

(* Reviewed stays true: the log grows, and requests in it keep what they are.  *)
LEMMA ReviewedStays ==
    ASSUME IInv, Reviewed, audit \subseteq audit',
           \A q \in audit : /\ req'[q].kind = req[q].kind
                           /\ req'[q].approved = req[q].approved
    PROVE  Reviewed'
  BY DEF Reviewed

(* One request replaced by another of the type leaves every request typed.     *)
LEMMA Replaced ==
    ASSUME Typed, NEW r \in Requests, NEW x \in RequestType,
           req' = [req EXCEPT ![r] = x]
    PROVE  Typed'
  BY DEF Typed

LEMMA GotoTyped ==
    ASSUME Typed, NEW r \in Requests, NEW l \in Steps \cup {"done", "failed"}, Goto(r, l)
    PROVE  Typed'
  <1>1. PICK x : x = [req[r] EXCEPT !.pc = l]
    OBVIOUS
  <1>2. l \in Steps \cup {"unused", "done", "failed"} /\ req[r] \in RequestType
    BY DEF Typed
  <1>3. x \in RequestType
    BY <1>1, <1>2 DEF RequestType
  <1>4. req' = [req EXCEPT ![r] = x]
    BY <1>1 DEF Goto
  <1> QED
    BY <1>3, <1>4, Replaced

(* A step of one request that touches no store and moves it to where nothing   *)
(* is claimed of it, or nothing that does not hold already.                    *)
LEMMA MoveOn ==
    ASSUME IInv, NEW r \in Requests,
           NEW l \in {"done", "failed", "connect", "save"}, Goto(r, l),
           l = "connect" => req[r].kind = "submit" /\ Reviewed,
           l = "save" => req[r].kind = "submit" /\ req[r].employee \in records',
           req[r].pc # "unused",
           UNCHANGED <<status, remembered, audit>>,
           records \subseteq records', records' \subseteq Employees,
           records' # {} => Reviewed,
           calm' \in BOOLEAN
    PROVE  IInv'
  <1>1. Typed'
    <2>1. l \in Steps \cup {"done", "failed"}
      BY DEF Steps
    <2> QED
      BY <2>1, GotoTyped DEF IInv
  <1>2. TypeOK'
    BY <1>1 DEF IInv, Typed, RequestType, TypeOK, Goto
  <1>3. StepsOfKind'
    BY DEF IInv, Typed, RequestType, StepsOfKind, Goto
  <1>4. /\ \A q \in Requests : /\ req'[q].kind = req[q].kind
                               /\ req'[q].approved = req[q].approved
                               /\ req'[q].copy = req[q].copy
                               /\ req'[q].answer = req[q].answer
                               /\ req'[q].employee = req[q].employee
        /\ audit \subseteq Requests
    BY DEF IInv, Typed, RequestType, Goto, TypeOK
  <1>5. Reviewed => Reviewed'
    BY <1>4, ReviewedStays
  <1>6. ApprovalsReviewed'
    BY <1>4, <1>5 DEF IInv, Typed, RequestType, ApprovalsReviewed, Goto
  <1>7. RecordsMade'
    BY <1>4 DEF IInv, Typed, RequestType, RecordsMade, Goto
  <1>8. SubmittedWasReviewed'
    BY <1>5 DEF IInv, SubmittedWasReviewed
  <1>9. AnswersAgree' /\ RememberedWasAudited'
    BY <1>4 DEF IInv, AnswersAgree, RememberedWasAudited
  <1> QED
    BY <1>1, <1>2, <1>3, <1>6, <1>7, <1>8, <1>9 DEF IInv

LEMMA StartIInv ==
    ASSUME IInv, NEW r \in Requests, Start(r) PROVE IInv'
  <1>1. PICK kind \in {"review", "submit"}, employee \in Employees, yes \in BOOLEAN :
           Begin(r, kind, employee, yes)
    BY DEF Start
  <1>2. /\ req' = [req EXCEPT ![r] = [@ EXCEPT !.pc = "get", !.kind = kind,
                                               !.employee = employee,
                                               !.approved = (kind = "review" /\ yes)]]
        /\ UNCHANGED <<status, records, remembered, audit>>
        /\ calm' \in BOOLEAN
        /\ req[r].pc = "unused"
    BY <1>1 DEF Begin, IInv, TypeOK
  <1>3. r \notin audit
    BY <1>2 DEF IInv, TypeOK, StepsOfKind
  <1>4. Typed'
    <2>1. PICK x : x = [req[r] EXCEPT !.pc = "get", !.kind = kind,
                                      !.employee = employee,
                                      !.approved = (kind = "review" /\ yes)]
      OBVIOUS
    <2>2. "get" \in Steps /\ req[r] \in RequestType
      BY DEF Steps, IInv, Typed
    <2>3. (kind = "review" /\ yes) \in BOOLEAN
      OBVIOUS
    <2>4. x \in RequestType
      BY <2>1, <2>2, <2>3 DEF RequestType
    <2>5. req' = [req EXCEPT ![r] = x]
      BY <1>2, <2>1
    <2> QED
      BY <2>4, <2>5, Replaced DEF IInv
  <1>5. /\ \A q \in Requests \ {r} : req'[q] = req[q]
        /\ req'[r].pc = "get" /\ req'[r].kind = kind /\ req'[r].employee = employee
        /\ req'[r].copy = req[r].copy /\ req'[r].answer = req[r].answer
    BY <1>2 DEF IInv, Typed, RequestType
  <1>6. TypeOK'
    BY <1>2, <1>3, <1>4, <1>5 DEF IInv, Typed, RequestType, TypeOK
  <1>7. StepsOfKind'
    BY <1>5, ReportSubmissionAssumption DEF IInv, StepsOfKind
  <1>8. Reviewed => Reviewed'
    BY <1>2, <1>3, <1>5, ReviewedStays DEF IInv, TypeOK
  <1>9. ApprovalsReviewed' /\ SubmittedWasReviewed'
    BY <1>2, <1>5, <1>8 DEF IInv, ApprovalsReviewed, SubmittedWasReviewed
  <1>10. RecordsMade' /\ AnswersAgree'
    BY <1>2, <1>5 DEF IInv, RecordsMade, AnswersAgree
  <1>11. RememberedWasAudited'
    BY <1>2, <1>3, <1>5 DEF IInv, TypeOK, RememberedWasAudited
  <1> QED
    BY <1>4, <1>6, <1>7, <1>9, <1>10, <1>11 DEF IInv

LEMMA GetIInv ==
    ASSUME IInv, NEW r \in Requests, Get(r) PROVE IInv'
  <1>1. /\ req[r].pc = "get" /\ req[r].kind \in {"review", "submit"}
        /\ UNCHANGED <<status, records, remembered, audit, calm>>
        /\ status \in Statuses
    BY DEF Get, IInv, TypeOK, StepsOfKind
  <1>2. PICK l \in {"audit", "lookup"} :
           /\ req' = [req EXCEPT ![r] = [@ EXCEPT !.copy = status, !.pc = l]]
           /\ l = "lookup" <=> req[r].kind = "submit"
    BY <1>1, StepOrder DEF Get
  <1>3. Typed'
    <2>1. PICK x : x = [req[r] EXCEPT !.copy = status, !.pc = l]
      OBVIOUS
    <2>2. l \in Steps /\ req[r] \in RequestType
      BY DEF Steps, IInv, Typed
    <2>3. x \in RequestType
      BY <1>1, <2>1, <2>2 DEF RequestType
    <2>4. req' = [req EXCEPT ![r] = x]
      BY <1>2, <2>1
    <2> QED
      BY <2>3, <2>4, Replaced DEF IInv
  <1>4. /\ \A q \in Requests : /\ req'[q].kind = req[q].kind
                               /\ req'[q].approved = req[q].approved
                               /\ req'[q].answer = req[q].answer
                               /\ req'[q].employee = req[q].employee
        /\ \A q \in Requests \ {r} : req'[q] = req[q]
        /\ req'[r].pc = l /\ req'[r].copy = status
        /\ audit \subseteq Requests
    BY <1>2 DEF IInv, Typed, RequestType, TypeOK
  <1>5. TypeOK'
    BY <1>1, <1>3, <1>4 DEF IInv, Typed, RequestType, TypeOK
  <1>6. StepsOfKind'
    BY <1>1, <1>2, <1>4 DEF IInv, StepsOfKind
  <1>7. Reviewed => Reviewed'
    BY <1>1, <1>4, ReviewedStays
  <1>8. ApprovalsReviewed' /\ SubmittedWasReviewed'
    BY <1>1, <1>4, <1>7 DEF IInv, ApprovalsReviewed, SubmittedWasReviewed
  <1>9. RecordsMade'
    BY <1>1, <1>2, <1>4 DEF IInv, RecordsMade
  <1>10. AnswersAgree' /\ RememberedWasAudited'
    BY <1>1, <1>4 DEF IInv, AnswersAgree, RememberedWasAudited
  <1> QED
    BY <1>3, <1>5, <1>6, <1>8, <1>9, <1>10 DEF IInv

(* The two steps that answer: what is answered is what is remembered, and the  *)
(* report system knows it.                                                     *)
LEMMA AnswerIInv ==
    ASSUME IInv, NEW r \in Requests,
           req' = [req EXCEPT ![r] = [@ EXCEPT !.pc = "done", !.answer = remembered']],
           req[r].pc # "unused",
           remembered = None \/ remembered' = remembered,
           remembered' # None,
           remembered' \in records,
           \E q \in audit : req[q].kind = "submit",
           UNCHANGED <<status, records, audit, calm>>
    PROVE  IInv'
  <1>1. remembered' \in Employees
    BY DEF IInv, TypeOK
  <1>2. Typed'
    <2>1. PICK x : x = [req[r] EXCEPT !.pc = "done", !.answer = remembered']
      OBVIOUS
    <2>2. req[r] \in RequestType
      BY DEF IInv, Typed
    <2>3. x \in RequestType
      BY <1>1, <2>1, <2>2 DEF RequestType
    <2>4. req' = [req EXCEPT ![r] = x]
      BY <2>1
    <2> QED
      BY <2>3, <2>4, Replaced DEF IInv
  <1>3. /\ \A q \in Requests : /\ req'[q].kind = req[q].kind
                               /\ req'[q].approved = req[q].approved
                               /\ req'[q].copy = req[q].copy
                               /\ req'[q].employee = req[q].employee
        /\ \A q \in Requests \ {r} : req'[q] = req[q]
        /\ req'[r].pc = "done" /\ req'[r].answer = remembered'
        /\ audit \subseteq Requests
    BY <1>1 DEF IInv, Typed, RequestType, TypeOK
  <1>4. TypeOK'
    BY <1>1, <1>2, <1>3 DEF IInv, Typed, RequestType, TypeOK
  <1>5. StepsOfKind'
    BY <1>3 DEF IInv, StepsOfKind
  <1>6. Reviewed => Reviewed'
    BY <1>3, ReviewedStays
  <1>7. ApprovalsReviewed' /\ SubmittedWasReviewed'
    BY <1>3, <1>6 DEF IInv, ApprovalsReviewed, SubmittedWasReviewed
  <1>8. RecordsMade'
    BY <1>3 DEF IInv, RecordsMade
  <1>9. AnswersAgree'
    BY <1>3 DEF IInv, AnswersAgree
  <1>10. RememberedWasAudited'
    BY <1>3 DEF RememberedWasAudited
  <1> QED
    BY <1>2, <1>4, <1>5, <1>7, <1>8, <1>9, <1>10 DEF IInv

LEMMA SaveIInv ==
    ASSUME IInv, NEW r \in Requests, Save(r) PROVE IInv'
  <1>1. /\ req[r].pc = "save" /\ req[r].kind \in {"review", "submit"}
        /\ UNCHANGED <<records, remembered, audit, calm>>
        /\ status' \in Statuses
        /\ status' = "approved" => req[r].kind = "review" /\ req[r].approved
    BY DEF Save, IInv, TypeOK, StepsOfKind, Statuses
  <1>2. PICK l \in {"audit", "done"} :
           Goto(r, l) /\ (l = "audit" => req[r].kind = "submit")
    BY <1>1, StepOrder DEF Save, Proceed
  <1>3. Typed'
    <2>1. l \in Steps \cup {"done", "failed"}
      BY DEF Steps
    <2> QED
      BY <1>2, <2>1, GotoTyped DEF IInv
  <1>4. /\ \A q \in Requests : /\ req'[q].kind = req[q].kind
                               /\ req'[q].approved = req[q].approved
                               /\ req'[q].copy = req[q].copy
                               /\ req'[q].answer = req[q].answer
                               /\ req'[q].employee = req[q].employee
        /\ \A q \in Requests \ {r} : req'[q] = req[q]
        /\ req'[r].pc = l
        /\ audit \subseteq Requests
    BY <1>2 DEF IInv, Typed, RequestType, TypeOK, Goto
  <1>5. TypeOK'
    BY <1>1, <1>3, <1>4 DEF IInv, Typed, RequestType, TypeOK
  <1>6. StepsOfKind'
    BY <1>1, <1>2, <1>4 DEF IInv, StepsOfKind
  <1>7. Reviewed => Reviewed'
    BY <1>1, <1>4, ReviewedStays
  <1>8. status' = "approved" => Reviewed
    BY <1>1 DEF IInv, ApprovalsReviewed, Reviewed
  <1>9. ApprovalsReviewed' /\ SubmittedWasReviewed'
    BY <1>1, <1>4, <1>7, <1>8 DEF IInv, ApprovalsReviewed, SubmittedWasReviewed
  <1>10. RecordsMade'
    BY <1>1, <1>2, <1>4 DEF IInv, RecordsMade
  <1>11. AnswersAgree' /\ RememberedWasAudited'
    BY <1>1, <1>4 DEF IInv, AnswersAgree, RememberedWasAudited
  <1> QED
    BY <1>3, <1>5, <1>6, <1>9, <1>10, <1>11 DEF IInv

LEMMA AuditIInv ==
    ASSUME IInv, NEW r \in Requests, Audit(r) PROVE IInv'
  <1>1. /\ req[r].pc = "audit" /\ req[r].kind \in {"review", "submit"}
        /\ audit' = audit \cup {r}
        /\ UNCHANGED <<status, records, remembered, calm>>
    BY DEF Audit, IInv, TypeOK, StepsOfKind
  <1>2. PICK l \in {"save", "remember"} :
           Goto(r, l) /\ (l = "save" <=> req[r].kind = "review")
    BY <1>1, StepOrder DEF Audit, Proceed
  <1>3. Typed'
    <2>1. l \in Steps \cup {"done", "failed"}
      BY DEF Steps
    <2> QED
      BY <1>2, <2>1, GotoTyped DEF IInv
  <1>4. /\ \A q \in Requests : /\ req'[q].kind = req[q].kind
                               /\ req'[q].approved = req[q].approved
                               /\ req'[q].copy = req[q].copy
                               /\ req'[q].answer = req[q].answer
                               /\ req'[q].employee = req[q].employee
        /\ \A q \in Requests \ {r} : req'[q] = req[q]
        /\ req'[r].pc = l
        /\ audit \subseteq Requests
    BY <1>2 DEF IInv, Typed, RequestType, TypeOK, Goto
  <1>5. TypeOK'
    BY <1>1, <1>3, <1>4, ReportSubmissionAssumption
    DEF IInv, Typed, RequestType, TypeOK
  <1>6. StepsOfKind'
    BY <1>1, <1>2, <1>4 DEF IInv, StepsOfKind
  <1>7. Reviewed => Reviewed'
    BY <1>1, <1>4, ReviewedStays
  <1>8. ApprovalsReviewed' /\ SubmittedWasReviewed'
    BY <1>1, <1>2, <1>4, <1>7 DEF IInv, ApprovalsReviewed, SubmittedWasReviewed
  <1>9. RecordsMade'
    BY <1>1, <1>2, <1>4 DEF IInv, RecordsMade
  <1>10. AnswersAgree' /\ RememberedWasAudited'
    BY <1>1, <1>4 DEF IInv, AnswersAgree, RememberedWasAudited
  <1> QED
    BY <1>3, <1>5, <1>6, <1>8, <1>9, <1>10 DEF IInv

(* Every step keeps the invariant.                                             *)
LEMMA NextIInv == IInv /\ [Next]_vars => IInv'
  <1> SUFFICES ASSUME IInv, [Next]_vars PROVE IInv'
    OBVIOUS
  <1>1. CASE UNCHANGED vars
    BY <1>1 DEF vars, IInv, Typed, TypeOK, StepsOfKind, ApprovalsReviewed, RecordsMade,
                SubmittedWasReviewed, AnswersAgree, RememberedWasAudited, Reviewed
  <1>2. ASSUME NEW r \in Requests, Replayed(r) PROVE IInv'
    <2>1. /\ remembered' = remembered /\ remembered' \in records
          /\ \E q \in audit : req[q].kind = "submit"
      BY <1>2 DEF Replayed, IInv, RecordsMade, RememberedWasAudited
    <2> QED
      BY <1>2, <2>1, AnswerIInv DEF Replayed
  <1>3. ASSUME NEW r \in Requests, Cleared(r) PROVE IInv'
    <2>1. /\ req[r].kind = "submit" /\ Reviewed
          /\ Goto(r, "connect")
      BY <1>3, StepOrder DEF Cleared, Proceed, IInv, StepsOfKind, ApprovalsReviewed
    <2> QED
      BY <1>3, <2>1, MoveOn DEF Cleared, IInv, TypeOK, SubmittedWasReviewed
  <1>4. ASSUME NEW r \in Requests, Refused(r) \/ Unavailable(r) PROVE IInv'
    BY <1>4, MoveOn DEF Refused, Unavailable, IInv, TypeOK, SubmittedWasReviewed
  <1>5. ASSUME NEW r \in Requests, Submitted(r) \/ AnswerLost(r) PROVE IInv'
    <2>1. /\ req[r].kind = "submit" /\ Reviewed /\ req[r].employee \in Employees
          /\ records' = records \cup {req[r].employee}
          /\ Goto(r, "save") \/ Goto(r, "failed")
      BY <1>5, StepOrder DEF Submitted, AnswerLost, Proceed, IInv, StepsOfKind,
                             ApprovalsReviewed
    <2> QED
      BY <1>5, <2>1, MoveOn DEF Submitted, AnswerLost, IInv, TypeOK
  <1>6. ASSUME NEW r \in Requests, Remember(r) PROVE IInv'
    <2>1. /\ req[r].kind = "submit" /\ r \in audit /\ req[r].employee \in records
          /\ remembered # None => remembered \in records
          /\ records \subseteq Employees
      BY <1>6 DEF Remember, IInv, TypeOK, StepsOfKind, RecordsMade
    <2>2. /\ remembered = None \/ remembered' = remembered
          /\ remembered' # None /\ remembered' \in records
      BY <1>6, <2>1, ReportSubmissionAssumption DEF Remember
    <2> QED
      BY <1>6, <2>1, <2>2, AnswerIInv, StepOrder DEF Remember
  <1>7. ASSUME NEW r \in Requests, Crash(r) PROVE IInv'
    BY <1>7, MoveOn DEF Crash, Active, Steps, IInv, TypeOK, SubmittedWasReviewed
  <1> QED
    BY <1>1, <1>2, <1>3, <1>4, <1>5, <1>6, <1>7, StartIInv, GetIInv, SaveIInv, AuditIInv
    DEF Next, Step

LEMMA InvariantHolds == Spec => []IInv
  BY InitIInv, NextIInv, PTL DEF Spec

-----------------------------------------------------------------------------
(* The stores and the requests keep their types; the audit log names requests  *)
(* that were sent.                                                             *)
THEOREM TypeCorrect == Spec => []TypeOK
  <1>1. IInv => TypeOK
    BY DEF IInv
  <1> QED
    BY <1>1, InvariantHolds, PTL

(* Nothing is submitted that no audited review approved, however reviews and   *)
(* submissions overlap and wherever they are cut short.                        *)
THEOREM SubmissionsAreReviewed == Spec => []SubmittedWasReviewed
  <1>1. IInv => SubmittedWasReviewed
    BY DEF IInv
  <1> QED
    BY <1>1, InvariantHolds, PTL

(* All clients are told one submission_id, and the report system knows it.     *)
THEOREM AnswersAlwaysAgree == Spec => []AnswersAgree
  <1>1. IInv => AnswersAgree
    BY DEF IInv
  <1> QED
    BY <1>1, InvariantHolds, PTL

(* A submission that replays are answered from is in the audit log.            *)
THEOREM ReplaysAreAudited == Spec => []RememberedWasAudited
  <1>1. IInv => RememberedWasAudited
    BY DEF IInv
  <1> QED
    BY <1>1, InvariantHolds, PTL

-----------------------------------------------------------------------------
(* A step of the one active request: the others are at no step.                *)
LEMMA CalmStep ==
    ASSUME IInv, CalmInv, NEW r \in Requests, NEW new,
           req' = [req EXCEPT ![r] = new],
           calm' => /\ \A q \in Requests \ {r} : ~Active(q)
                    /\ \A x, y \in records' : x = y
                    /\ records' # {} => remembered' # None \/ OnTheWay(new)
                    /\ new.pc = "connect" => remembered' = None /\ records' = {}
                    /\ status' = "submitted" => records' # {}
    PROVE  CalmInv'
  <1>1. /\ req'[r] = new
        /\ \A q \in Requests \ {r} : req'[q] = req[q]
    BY DEF IInv, Typed
  <1> QED
    BY <1>1 DEF CalmInv, Alone, Active, Steps, OnTheWay

(* What an active request knows while requests come one at a time.             *)
LEMMA CalmFacts ==
    ASSUME IInv, CalmInv, calm, NEW r \in Requests, Active(r)
    PROVE  /\ \A q \in Requests \ {r} : ~Active(q)
           /\ \A x, y \in records : x = y
           /\ records # {} => remembered # None \/ OnTheWay(req[r])
           /\ req[r].pc = "connect" => remembered = None /\ records = {}
           /\ status = "submitted" => records # {}
  BY DEF CalmInv, Alone, OnTheWay, Active, Steps

LEMMA GotoIs ==
    ASSUME IInv, NEW r \in Requests, NEW l, Goto(r, l)
    PROVE  \E new : /\ req' = [req EXCEPT ![r] = new]
                    /\ new.pc = l /\ new.kind = req[r].kind
  <1>1. PICK new : new = [req[r] EXCEPT !.pc = l]
    OBVIOUS
  <1>2. new.pc = l /\ new.kind = req[r].kind
    BY <1>1 DEF IInv, Typed, RequestType
  <1>3. req' = [req EXCEPT ![r] = new]
    BY <1>1 DEF Goto
  <1> QED
    BY <1>2, <1>3

LEMMA StartCalm ==
    ASSUME IInv, CalmInv, NEW r \in Requests, Start(r) PROVE CalmInv'
  <1>1. PICK kind \in {"review", "submit"}, employee \in Employees, yes \in BOOLEAN :
           Begin(r, kind, employee, yes)
    BY DEF Start
  <1>2. /\ UNCHANGED <<status, records, remembered>>
        /\ calm' => calm /\ \A q \in Requests : ~Active(q)
    BY <1>1 DEF Begin
  <1>3. PICK new : new = [req[r] EXCEPT !.pc = "get", !.kind = kind, !.employee = employee,
                                        !.approved = (kind = "review" /\ yes)]
    OBVIOUS
  <1>4. new.pc = "get"
    BY <1>3 DEF IInv, Typed, RequestType
  <1>5. req' = [req EXCEPT ![r] = new]
    BY <1>1, <1>3 DEF Begin
  <1>6. calm' => /\ \A x, y \in records : x = y
                 /\ records # {} => remembered # None
                 /\ status = "submitted" => records # {}
    BY <1>2 DEF CalmInv, OnTheWay, Active, Steps
  <1> QED
    BY <1>2, <1>4, <1>5, <1>6, CalmStep

(* Get and Replayed move a submission on that is not past the report system.   *)
LEMMA GetCalm ==
    ASSUME IInv, CalmInv, NEW r \in Requests, Get(r) \/ Replayed(r) PROVE CalmInv'
  <1>1. /\ req[r].pc \in {"get", "lookup"} /\ Active(r)
        /\ UNCHANGED <<status, records, remembered, calm>>
    BY DEF Get, Replayed, Active, Steps
  <1>2. PICK new : req' = [req EXCEPT ![r] = new] /\ new.pc \in {"audit", "lookup", "done"}
    <2>1. req[r] \in RequestType
      BY DEF IInv, Typed
    <2>2. CASE Get(r)
      <3>1. PICK n : n = [req[r] EXCEPT !.copy = status, !.pc = After(req[r].kind, "get")]
        OBVIOUS
      <3>2. req[r].kind \in {"review", "submit"}
        BY <2>2 DEF Get, IInv, TypeOK, StepsOfKind
      <3>3. n.pc \in {"audit", "lookup"}
        BY <2>1, <3>1, <3>2, StepOrder DEF RequestType
      <3>4. req' = [req EXCEPT ![r] = n]
        BY <2>2, <3>1 DEF Get
      <3> QED
        BY <3>3, <3>4
    <2>3. CASE Replayed(r)
      <3>1. PICK n : n = [req[r] EXCEPT !.pc = "done", !.answer = remembered]
        OBVIOUS
      <3>2. n.pc = "done"
        BY <2>1, <3>1 DEF RequestType
      <3>3. req' = [req EXCEPT ![r] = n]
        BY <2>3, <3>1 DEF Replayed
      <3> QED
        BY <3>2, <3>3
    <2> QED
      BY <2>2, <2>3
  <1>3. ~OnTheWay(req[r])
    BY <1>1 DEF OnTheWay
  <1> QED
    BY <1>1, <1>2, <1>3, CalmFacts, CalmStep

(* A submission is cleared only when nothing is remembered; with none on the   *)
(* way, then there is no record.                                               *)
LEMMA ClearedCalm ==
    ASSUME IInv, CalmInv, NEW r \in Requests, Cleared(r) PROVE CalmInv'
  <1>1. /\ req[r].pc = "lookup" /\ Active(r) /\ remembered = None
        /\ UNCHANGED <<status, records, remembered, calm>>
        /\ ~OnTheWay(req[r])
    BY DEF Cleared, Active, Steps, OnTheWay
  <1>2. Goto(r, "connect")
    BY <1>1, StepOrder DEF Cleared, Proceed, IInv, StepsOfKind
  <1>3. PICK new : req' = [req EXCEPT ![r] = new] /\ new.pc = "connect"
    BY <1>2, GotoIs
  <1> QED
    BY <1>1, <1>3, CalmFacts, CalmStep

LEMMA FailedCalm ==
    ASSUME IInv, CalmInv, NEW r \in Requests, Refused(r) \/ Unavailable(r) PROVE CalmInv'
  <1>1. /\ Active(r) /\ ~OnTheWay(req[r]) /\ Goto(r, "failed")
        /\ UNCHANGED <<status, records, remembered, calm>>
    BY DEF Refused, Unavailable, Active, Steps, OnTheWay
  <1>2. PICK new : req' = [req EXCEPT ![r] = new] /\ new.pc = "failed"
    BY <1>1, GotoIs
  <1> QED
    BY <1>1, <1>2, CalmFacts, CalmStep

LEMMA SubmittedCalm ==
    ASSUME IInv, CalmInv, NEW r \in Requests, Submitted(r) PROVE CalmInv'
  <1>1. /\ req[r].pc = "connect" /\ Active(r) /\ req[r].kind = "submit"
        /\ records' = records \cup {req[r].employee}
        /\ UNCHANGED <<status, remembered, calm>>
    BY DEF Submitted, Active, Steps, IInv, StepsOfKind
  <1>2. Goto(r, "save")
    BY <1>1, StepOrder DEF Submitted, Proceed
  <1>3. PICK new : /\ req' = [req EXCEPT ![r] = new]
                   /\ new.pc = "save" /\ new.kind = "submit"
    BY <1>1, <1>2, GotoIs
  <1> QED
    BY <1>1, <1>3, CalmFacts, CalmStep DEF OnTheWay

LEMMA SaveCalm ==
    ASSUME IInv, CalmInv, NEW r \in Requests, Save(r) PROVE CalmInv'
  <1>1. /\ req[r].pc = "save" /\ Active(r) /\ req[r].kind \in {"review", "submit"}
        /\ req[r].kind = "submit" => req[r].employee \in records
        /\ UNCHANGED <<records, remembered, calm>>
        /\ status' = "submitted" => req[r].kind = "submit"
    BY DEF Save, Active, Steps, IInv, TypeOK, StepsOfKind, RecordsMade
  <1>2. PICK l : Goto(r, l) /\ l = IF req[r].kind = "submit" THEN "audit" ELSE "done"
    BY <1>1, StepOrder DEF Save, Proceed
  <1>3. PICK new : /\ req' = [req EXCEPT ![r] = new]
                   /\ new.pc = l /\ new.kind = req[r].kind
    BY <1>2, GotoIs
  <1> QED
    BY <1>1, <1>2, <1>3, CalmFacts, CalmStep DEF OnTheWay

LEMMA AuditCalm ==
    ASSUME IInv, CalmInv, NEW r \in Requests, Audit(r) PROVE CalmInv'
  <1>1. /\ req[r].pc = "audit" /\ Active(r) /\ req[r].kind \in {"review", "submit"}
        /\ UNCHANGED <<status, records, remembered, calm>>
    BY DEF Audit, Active, Steps, IInv, TypeOK, StepsOfKind
  <1>2. PICK l : Goto(r, l) /\ l = IF req[r].kind = "submit" THEN "remember" ELSE "save"
    BY <1>1, StepOrder DEF Audit, Proceed
  <1>3. PICK new : /\ req' = [req EXCEPT ![r] = new]
                   /\ new.pc = l /\ new.kind = req[r].kind
    BY <1>2, GotoIs
  <1> QED
    BY <1>1, <1>2, <1>3, CalmFacts, CalmStep DEF OnTheWay

LEMMA RememberCalm ==
    ASSUME IInv, CalmInv, NEW r \in Requests, Remember(r) PROVE CalmInv'
  <1>1. /\ req[r].pc = "remember" /\ Active(r)
        /\ UNCHANGED <<status, records, calm>>
        /\ req[r].employee \in Employees
    BY DEF Remember, Active, Steps, IInv, StepsOfKind
  <1>2. remembered' # None
    BY <1>1, ReportSubmissionAssumption DEF Remember
  <1>3. PICK new : new = [req[r] EXCEPT !.pc = SubmitSteps["remember"],
                                        !.answer = remembered']
    OBVIOUS
  <1>4. new.pc = "done"
    BY <1>3, StepOrder DEF IInv, Typed, RequestType
  <1>5. req' = [req EXCEPT ![r] = new]
    BY <1>3 DEF Remember
  <1> QED
    BY <1>1, <1>2, <1>4, <1>5, CalmFacts, CalmStep

LEMMA NextCalm == IInv /\ CalmInv /\ [Next]_vars => CalmInv'
  <1> SUFFICES ASSUME IInv, CalmInv, [Next]_vars PROVE CalmInv'
    OBVIOUS
  <1>1. CASE UNCHANGED vars
    BY <1>1 DEF vars, CalmInv, Alone, Active, OnTheWay
  <1>2. ASSUME NEW r \in Requests, AnswerLost(r) \/ Crash(r) PROVE CalmInv'
    BY <1>2 DEF AnswerLost, Crash, CalmInv
  <1> QED
    BY <1>1, <1>2, StartCalm, GetCalm, ClearedCalm, FailedCalm, SubmittedCalm, SaveCalm,
       AuditCalm, RememberCalm DEF Next, Step

LEMMA CalmInvariantHolds == Spec => []CalmInv
  <1>1. Init => CalmInv
    BY DEF Init, Unused, CalmInv, Alone, Active, Steps
  <1> QED
    BY <1>1, InvariantHolds, NextCalm, PTL DEF Spec

(* While requests come one at a time and none is cut short, a report is        *)
(* submitted once, whoever submits it and however often it is reviewed again.  *)
THEOREM ReportsAreSubmittedOnce == Spec => []CalmSingleSubmission
  <1>1. ASSUME CalmInv PROVE CalmSingleSubmission
    <2>1. ASSUME calm PROVE Cardinality(records) <= 1
      <3>1. CASE records = {}
        BY <3>1, FS_EmptySet
      <3>2. CASE records # {}
        <4>1. PICK x \in records : TRUE
          BY <3>2
        <4>2. records = {x}
          BY <1>1, <2>1, <4>1 DEF CalmInv
        <4>3. Cardinality({x}) = 1
          BY FS_Singleton
        <4> QED
          BY <4>2, <4>3
      <3> QED
        BY <3>1, <3>2
    <2> QED
      BY <2>1 DEF CalmSingleSubmission, SingleSubmission
  <1> QED
    BY <1>1, CalmInvariantHolds, PTL

(* While requests come one at a time and none is cut short, the result of a    *)
(* submitted report is remembered, so that it can be submitted again.          *)
THEOREM SubmissionsAreRemembered == Spec => []CalmSubmittedIsRemembered
  <1>1. CalmInv => CalmSubmittedIsRemembered
    BY DEF CalmInv, CalmSubmittedIsRemembered, OnTheWay, Active, Steps
  <1> QED
    BY <1>1, CalmInvariantHolds, PTL

-----------------------------------------------------------------------------
(* The refinement.                                                             *)
Told == [r \in Requests |-> req[r].answer]

(* A request in the log keeps what the log tells of it.                        *)
Keeps(q) == req'[q].kind = req[q].kind /\ req'[q].approved = req[q].approved

LEMMA LoggedStays ==
    ASSUME audit' = audit, \A q \in audit : Keeps(q)
    PROVE  Logged' = Logged
  <1>1. ASSUME NEW what \in {"review", "submit"}
        PROVE  (\E q \in audit : req[q].kind = what /\ (what = "review" => req[q].approved))'
               <=> \E q \in audit : req[q].kind = what /\ (what = "review" => req[q].approved)
    BY DEF Keeps
  <1> QED
    BY <1>1 DEF Logged

LEMMA ToldStays ==
    ASSUME \A q \in Requests : req'[q].answer = req[q].answer
    PROVE  Told' = Told
  BY DEF Told

LEMMA ToldOne ==
    ASSUME NEW r \in Requests, NEW e, req'[r].answer = e,
           \A q \in Requests \ {r} : req'[q].answer = req[q].answer
    PROVE  Told' = [Told EXCEPT ![r] = e]
  BY DEF Told

(* A step that moves a request on.                                             *)
LEMMA GotoKeeps ==
    ASSUME IInv, NEW r \in Requests, NEW l, Goto(r, l)
    PROVE  \A q \in Requests : Keeps(q) /\ req'[q].answer = req[q].answer
  BY DEF IInv, Typed, RequestType, Goto, Keeps

LEMMA InitOutcome == Init => Outcome!Init
  BY DEF Init, Unused, Outcome!Init, Logged

(* The steps that only read, or write what nobody else is told of.             *)
LEMMA QuietSteps ==
    ASSUME IInv, NEW r \in Requests,
           Start(r) \/ Get(r) \/ Cleared(r) \/ Refused(r) \/ Unavailable(r) \/ Save(r) \/ Crash(r)
    PROVE  UNCHANGED Outcome!vars
  <1>1. UNCHANGED <<records, remembered, audit>> /\ audit \subseteq Requests
    BY DEF Start, Begin, Get, Cleared, Refused, Unavailable, Save, Crash, IInv, TypeOK
  <1>2. /\ \A q \in audit : Keeps(q)
        /\ \A q \in Requests : req'[q].answer = req[q].answer
    <2>1. CASE Start(r)
      <3>1. PICK kind \in {"review", "submit"}, employee \in Employees, yes \in BOOLEAN :
               Begin(r, kind, employee, yes)
        BY <2>1 DEF Start
      <3>2. /\ req' = [req EXCEPT ![r] = [@ EXCEPT !.pc = "get", !.kind = kind,
                                                   !.employee = employee,
                                                   !.approved = (kind = "review" /\ yes)]]
            /\ r \notin audit
        BY <3>1 DEF Begin, IInv, TypeOK, StepsOfKind
      <3>3. /\ \A q \in Requests \ {r} : req'[q] = req[q]
            /\ req'[r].answer = req[r].answer
        BY <3>2 DEF IInv, Typed, RequestType
      <3> QED
        BY <1>1, <3>2, <3>3 DEF Keeps
    <2>2. CASE Get(r)
      BY <1>1, <2>2 DEF Get, IInv, Typed, RequestType, Keeps
    <2>3. CASE Cleared(r) \/ Refused(r) \/ Unavailable(r) \/ Save(r) \/ Crash(r)
      BY <1>1, <2>3, GotoKeeps DEF Cleared, Refused, Unavailable, Save, Crash, Proceed
    <2> QED
      BY <2>1, <2>2, <2>3
  <1>3. Logged' = Logged /\ Told' = Told
    BY <1>1, <1>2, LoggedStays, ToldStays
  <1> QED
    BY <1>1, <1>3 DEF Outcome!vars, Told

(* The report system gets the report, in the name of who submits.              *)
LEMMA SubmitStep ==
    ASSUME IInv, NEW r \in Requests, Submitted(r) \/ AnswerLost(r)
    PROVE  \E e \in Employees : Outcome!Submit(e)
  <1>1. /\ records' = records \cup {req[r].employee}
        /\ UNCHANGED <<remembered, audit>>
        /\ req[r].pc = "connect"
    BY DEF Submitted, AnswerLost
  <1>2. req[r].employee \in Employees /\ Reviewed /\ audit \subseteq Requests
    BY <1>1 DEF IInv, StepsOfKind, ApprovalsReviewed, TypeOK
  <1>3. \A q \in Requests : Keeps(q) /\ req'[q].answer = req[q].answer
    BY GotoKeeps DEF Submitted, AnswerLost, Proceed
  <1>4. Logged' = Logged /\ Told' = Told
    BY <1>1, <1>2, <1>3, LoggedStays, ToldStays
  <1>5. "review" \in Logged
    BY <1>2 DEF Reviewed, Logged
  <1> QED
    BY <1>1, <1>2, <1>4, <1>5 DEF Outcome!Submit, Told

(* The audit log tells of the approval or of the submission, or nothing new.   *)
LEMMA AuditStep ==
    ASSUME IInv, NEW r \in Requests, Audit(r)
    PROVE  UNCHANGED Outcome!vars \/ \E what \in {"review", "submit"} : Outcome!Log(what)
  <1>1. /\ audit' = audit \cup {r} /\ req[r].pc = "audit"
        /\ UNCHANGED <<records, remembered>>
        /\ audit \subseteq Requests
        /\ req[r].kind \in {"review", "submit"}
    BY DEF Audit, IInv, TypeOK, StepsOfKind
  <1>2. \A q \in Requests : Keeps(q) /\ req'[q].answer = req[q].answer
    BY GotoKeeps DEF Audit, Proceed
  <1>3. Told' = Told
    BY <1>2, ToldStays
  <1> DEFINE News == {what \in {"review", "submit"} :
                        req[r].kind = what /\ (what = "review" => req[r].approved)}
  <1>4. Logged' = Logged \cup News
    <2>1. ASSUME NEW what \in {"review", "submit"}
          PROVE  what \in Logged' <=> what \in Logged \/ what \in News
      <3>1. what \in Logged' <=> \E q \in audit \cup {r} :
                                   req'[q].kind = what /\ (what = "review" => req'[q].approved)
        BY <1>1 DEF Logged
      <3>2. \A q \in audit \cup {r} :
               (req'[q].kind = what /\ (what = "review" => req'[q].approved))
               <=> (req[q].kind = what /\ (what = "review" => req[q].approved))
        BY <1>1, <1>2 DEF Keeps
      <3> QED
        BY <3>1, <3>2 DEF Logged
    <2>2. Logged' \subseteq {"review", "submit"} /\ Logged \subseteq {"review", "submit"}
      BY DEF Logged
    <2>3. News \subseteq {"review", "submit"}
      OBVIOUS
    <2> HIDE DEF News
    <2> QED
      BY <2>1, <2>2, <2>3
  <1>5. CASE News = {}
    BY <1>1, <1>3, <1>4, <1>5 DEF Outcome!vars, Told
  <1>6. CASE News # {}
    <2>1. News = {req[r].kind}
      BY <1>6
    <2>2. req[r].kind = "submit" => records # {}
      BY <1>1 DEF IInv, RecordsMade
    <2> HIDE DEF News
    <2>3. Outcome!Log(req[r].kind)
      BY <1>1, <1>3, <1>4, <2>1, <2>2 DEF Outcome!Log, Told
    <2> QED
      BY <1>1, <2>3
  <1> QED
    BY <1>5, <1>6

(* The idempotency record settles which submission it is, or tells it.         *)
LEMMA AnswerStep ==
    ASSUME IInv, NEW r \in Requests, Replayed(r) \/ Remember(r)
    PROVE  Outcome!Settle(r) \/ Outcome!Tell(r)
  <1>1. /\ UNCHANGED <<records, audit>>
        /\ audit \subseteq Requests
    BY DEF Replayed, Remember, IInv, TypeOK
  <1>2. PICK l, e : /\ e = remembered'
                    /\ req' = [req EXCEPT ![r] = [@ EXCEPT !.pc = l, !.answer = e]]
    BY DEF Replayed, Remember
  <1>3. /\ \A q \in Requests : Keeps(q)
        /\ req'[r].answer = e
        /\ \A q \in Requests \ {r} : req'[q].answer = req[q].answer
    BY <1>2 DEF IInv, Typed, RequestType, Keeps
  <1>4. Told' = [Told EXCEPT ![r] = remembered']
    <2>1. Told' = [Told EXCEPT ![r] = e]
      BY <1>3, ToldOne
    <2> QED
      BY <1>2, <2>1
  <1>5. Logged' = Logged
    BY <1>1, <1>3, LoggedStays
  <1>6. CASE remembered # None
    <2>1. remembered' = remembered
      BY <1>6 DEF Replayed, Remember
    <2> QED
      BY <1>1, <1>4, <1>5, <1>6, <2>1 DEF Outcome!Tell, Told
  <1>7. CASE remembered = None
    <2>1. req[r].pc = "remember" /\ remembered' = req[r].employee
      BY <1>7 DEF Replayed, Remember
    <2>2. /\ req[r].kind = "submit" /\ r \in audit /\ req[r].employee \in records
      BY <2>1 DEF IInv, StepsOfKind, RecordsMade
    <2>3. "submit" \in Logged
      BY <2>2 DEF Logged
    <2> QED
      BY <1>1, <1>4, <1>5, <1>7, <2>1, <2>2, <2>3 DEF Outcome!Settle, Told
  <1> QED
    BY <1>6, <1>7

LEMMA NextOutcome == IInv /\ [Next]_vars => [Outcome!Next]_(Outcome!vars)
  <1> SUFFICES ASSUME IInv, [Next]_vars PROVE Outcome!Next \/ UNCHANGED Outcome!vars
    OBVIOUS
  <1>1. CASE UNCHANGED vars
    BY <1>1 DEF vars, Outcome!vars, Logged
  <1>2. CASE Next
    BY <1>2, QuietSteps, SubmitStep, AuditStep, AnswerStep DEF Next, Step, Outcome!Next
  <1> QED
    BY <1>1, <1>2

(* Whatever overlaps, is repeated or cut short: a report is held by the report *)
(* system only after an approval was logged, one submission is settled on only *)
(* after it was logged, for good, and clients are told no other.               *)
THEOREM ServiceImplementsOutcome == Spec => ImplementsOutcome
  BY InitOutcome, NextOutcome, InvariantHolds, PTL DEF Spec, ImplementsOutcome, Outcome!Spec
=============================================================================
