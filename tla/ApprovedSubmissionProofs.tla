----------------------- MODULE ApprovedSubmissionProofs -----------------------
(* Proofs about ApprovedSubmission, for any requests, employees and scopes:    *)
(* the composition implements both of its parts, and what was proved of each   *)
(* part alone holds of it.                                                     *)
EXTENDS ApprovedSubmission, Sequences, TLAPS

ThreadFacts == INSTANCE AssistantThreadProofs WITH
                   Requests <- Conversations, req <- talk, calm <- talkCalm

ReportFacts == INSTANCE ReportSubmissionProofs WITH
                   Requests <- Direct \cup Calls

-----------------------------------------------------------------------------
(* A step of the composition is a step of the thread or leaves it alone.       *)
LEMMA ThreadNext == [Next]_vars => [Thread!Next]_Thread!vars
  <1> SUFFICES ASSUME [Next]_vars PROVE [Thread!Next]_Thread!vars
    OBVIOUS
  <1>1. CASE UNCHANGED vars
    BY <1>1 DEF vars, threadVars, Thread!vars
  <1>2. ASSUME NEW r \in Direct, DirectStep(r) PROVE UNCHANGED Thread!vars
    BY <1>2 DEF DirectStep, threadVars, Thread!vars
  <1>3. ASSUME NEW c \in Conversations, NEW a \in Actions,
               Call(c, a) \/ Quiet(c, a) \/ Cancelled(c, a)
        PROVE  UNCHANGED Thread!vars
    BY <1>3 DEF Call, Quiet, Cancelled, threadVars, Thread!vars
  <1>4. ASSUME NEW c \in Conversations, ThreadStep(c) PROVE Thread!Next
    BY <1>4 DEF ThreadStep, Thread!Next
  <1>5. ASSUME NEW c \in Conversations, NEW a \in Actions,
               NotPermitted(c, a) \/ NoEffect(c, a)
        PROVE  Thread!Next
    <2>1. Thread!Raised(c)
      BY <1>5 DEF NotPermitted, NoEffect
    <2> QED
      BY <2>1 DEF Thread!Next
  <1>6. ASSUME NEW c \in Conversations, NEW a \in Actions, Effect(c, a) PROVE Thread!Next
    <2>1. Thread!Written(c, a) \/ Thread!WrittenRaised(c, a)
      BY <1>6 DEF Effect
    <2> QED
      BY <2>1 DEF Thread!Next
  <1>7. ASSUME NEW c \in Conversations, NotResumed(c) PROVE Thread!Next
    BY <1>7 DEF NotResumed, Thread!Next
  <1>8. ASSUME NEW c \in Conversations, Commit(c) \/ CutShort(c)
        PROVE  Thread!Next
    BY <1>8 DEF Commit, CutShort, Thread!Next
  <1> QED
    BY <1>1, <1>2, <1>3, <1>4, <1>5, <1>6, <1>7, <1>8 DEF Next

(* What the run of a conversation does with a call is a step of it.            *)
LEMMA CallSteps ==
    ASSUME NEW c \in Conversations, NEW a \in Actions,
           Call(c, a) \/ Quiet(c, a) \/ Effect(c, a) \/ NoEffect(c, a) \/ Cancelled(c, a)
    PROVE  Reports!Step(<<c, a>>)
  <1>1. CASE Call(c, a)
    <2>1. Kind(a) \in {"review", "submit"}
      BY DEF Kind
    <2> QED
      BY <1>1, <2>1 DEF Call, Reports!Step, Reports!Start
  <1>2. CASE Quiet(c, a)
    BY <1>2 DEF Quiet, Reports!Step
  <1>3. CASE Effect(c, a)
    BY <1>3 DEF Effect, Reports!Step
  <1>4. CASE NoEffect(c, a)
    BY <1>4 DEF NoEffect, Reports!Step
  <1>5. CASE Cancelled(c, a)
    BY <1>5 DEF Cancelled, Reports!Step
  <1> QED
    BY <1>1, <1>2, <1>3, <1>4, <1>5

(* A step of the composition is a step of one report request or leaves the     *)
(* reports alone.                                                              *)
LEMMA ReportsNext == [Next]_vars => [Reports!Next]_Reports!vars
  <1> SUFFICES ASSUME [Next]_vars PROVE [Reports!Next]_Reports!vars
    OBVIOUS
  <1>1. CASE UNCHANGED vars
    BY <1>1 DEF vars, reportVars, Reports!vars
  <1>2. ASSUME NEW r \in Direct, DirectStep(r) PROVE Reports!Next
    BY <1>2 DEF DirectStep, Reports!Next
  <1>3. ASSUME NEW c \in Conversations,
               ThreadStep(c) \/ NotResumed(c) \/ Commit(c) \/ CutShort(c)
        PROVE  UNCHANGED Reports!vars
    BY <1>3 DEF ThreadStep, NotResumed, Commit, CutShort, reportVars, Reports!vars
  <1>4. ASSUME NEW c \in Conversations, NEW a \in Actions, NotPermitted(c, a)
        PROVE  UNCHANGED Reports!vars
    BY <1>4 DEF NotPermitted, reportVars, Reports!vars
  <1>5. ASSUME NEW c \in Conversations, NEW a \in Actions,
               Call(c, a) \/ Quiet(c, a) \/ Effect(c, a) \/ NoEffect(c, a) \/ Cancelled(c, a)
        PROVE  Reports!Next
    <2>1. <<c, a>> \in Direct \cup Calls
      BY DEF Calls
    <2>2. Reports!Step(<<c, a>>)
      BY <1>5, CallSteps
    <2> QED
      BY <2>1, <2>2 DEF Reports!Next
  <1> QED
    BY <1>1, <1>2, <1>3, <1>4, <1>5 DEF Next

(* Whatever a call does between the stores, the thread sees a node that wrote, *)
(* wrote nothing or raised: the approval flow is that of AssistantThread.      *)
THEOREM CompositionImplementsThread == Spec => ImplementsThread
  <1>1. Init => Thread!Init
    BY DEF Init
  <1> QED
    BY <1>1, ThreadNext, PTL DEF Spec, ImplementsThread, Thread!Spec

(* Whatever becomes of the run that made it, a call of the service is one more *)
(* request of ReportSubmission.                                                *)
THEOREM CompositionImplementsReports == Spec => ImplementsReports
  <1>1. Init => Reports!Init
    BY DEF Init
  <1> QED
    BY <1>1, ReportsNext, PTL DEF Spec, ImplementsReports, Reports!Spec

(* The parts' assumptions about their constants.                               *)
LEMMA ThreadAssumption == ThreadFacts!AssistantThreadAssumption
  BY ApprovedSubmissionAssumption
  DEF ThreadFacts!AssistantThreadAssumption, Actions, Scope, AnyScope

LEMMA ReportAssumption == ReportFacts!ReportSubmissionAssumption
  BY ApprovedSubmissionAssumption
  DEF ReportFacts!ReportSubmissionAssumption, ReportFacts!Statuses

(* The instances of the theorem modules speak of the same parts: the           *)
(* definitions are the same text.                                              *)
LEMMA SameThread ==
    /\ Thread!Init <=> ThreadFacts!Init
    /\ [Thread!Next]_Thread!vars <=> [ThreadFacts!Next]_ThreadFacts!vars
    /\ Thread!WritesAuthorised <=> ThreadFacts!WritesAuthorised
  <1>1. Thread!Init <=> ThreadFacts!Init
    BY DEF Thread!Init, ThreadFacts!Init, Thread!Unused, ThreadFacts!Unused
  <1>2. Thread!Next <=> ThreadFacts!Next
    <2>1. ASSUME NEW c \in Conversations
          PROVE  /\ Thread!Start(c) <=> ThreadFacts!Start(c)
                 /\ Thread!Gate(c) <=> ThreadFacts!Gate(c)
                 /\ Thread!CheckScope(c) <=> ThreadFacts!CheckScope(c)
      BY DEF Thread!Start, ThreadFacts!Start, Thread!Gate,
             ThreadFacts!Gate, Thread!CheckScope,
             ThreadFacts!CheckScope, Thread!Goto, ThreadFacts!Goto,
             Thread!Active, ThreadFacts!Active, Thread!Steps,
             ThreadFacts!Steps, Thread!Pending, ThreadFacts!Pending,
             Thread!OnePending, ThreadFacts!OnePending,
             Thread!RequiredScope, ThreadFacts!RequiredScope
    <2>2. ASSUME NEW c \in Conversations
          PROVE  /\ Thread!Load(c) <=> ThreadFacts!Load(c)
                 /\ Thread!Rejected(c) <=> ThreadFacts!Rejected(c)
                 /\ Thread!Raised(c) <=> ThreadFacts!Raised(c)
                 /\ Thread!Commit(c) <=> ThreadFacts!Commit(c)
                 /\ Thread!Timeout(c) <=> ThreadFacts!Timeout(c)
      BY DEF Thread!Load, ThreadFacts!Load, Thread!Rejected,
             ThreadFacts!Rejected, Thread!Raised, ThreadFacts!Raised,
             Thread!Several, ThreadFacts!Several, Thread!Commit,
             ThreadFacts!Commit, Thread!Timeout, ThreadFacts!Timeout,
             Thread!Goto, ThreadFacts!Goto
    <2>3. ASSUME NEW c \in Conversations
          PROVE  /\ Thread!Decide(c) <=> ThreadFacts!Decide(c)
                 /\ Thread!Close(c) <=> ThreadFacts!Close(c)
                 /\ Thread!Look(c) <=> ThreadFacts!Look(c)
                 /\ Thread!Insert(c) <=> ThreadFacts!Insert(c)
                 /\ Thread!Crash(c) <=> ThreadFacts!Crash(c)
      BY DEF Thread!Decide, ThreadFacts!Decide, Thread!Close,
             ThreadFacts!Close, Thread!Look, ThreadFacts!Look,
             Thread!Insert, ThreadFacts!Insert, Thread!Crash,
             ThreadFacts!Crash, Thread!Goto, ThreadFacts!Goto,
             Thread!Active, ThreadFacts!Active, Thread!Steps,
             ThreadFacts!Steps, Thread!Pending, ThreadFacts!Pending,
             Thread!OnePending, ThreadFacts!OnePending
    <2>4. ASSUME NEW c \in Conversations, NEW a \in Actions
          PROVE  /\ Thread!Written(c, a) <=> ThreadFacts!Written(c, a)
                 /\ Thread!WrittenRaised(c, a) <=> ThreadFacts!WrittenRaised(c, a)
      BY DEF Thread!Written, ThreadFacts!Written, Thread!WrittenRaised,
             ThreadFacts!WrittenRaised, Thread!Goto, ThreadFacts!Goto,
             Thread!Write, ThreadFacts!Write, Thread!Finish,
             ThreadFacts!Finish
    <2> QED
      BY <2>1, <2>2, <2>3, <2>4 DEF Thread!Next, ThreadFacts!Next
  <1>3. [Thread!Next]_Thread!vars <=> [ThreadFacts!Next]_ThreadFacts!vars
    BY <1>2 DEF Thread!vars, ThreadFacts!vars
  <1>4. Thread!WritesAuthorised <=> ThreadFacts!WritesAuthorised
    BY DEF Thread!WritesAuthorised, ThreadFacts!WritesAuthorised
  <1> QED
    BY <1>1, <1>3, <1>4

LEMMA SameReports ==
    /\ Reports!Init <=> ReportFacts!Init
    /\ [Reports!Next]_Reports!vars <=> [ReportFacts!Next]_ReportFacts!vars
    /\ Reports!SubmittedWasReviewed <=> ReportFacts!SubmittedWasReviewed
    /\ Reports!AnswersAgree <=> ReportFacts!AnswersAgree
  <1>1. Reports!Init <=> ReportFacts!Init
    BY DEF Reports!Init, ReportFacts!Init, Reports!Unused, ReportFacts!Unused
  <1>2. Reports!Next <=> ReportFacts!Next
    BY DEF Reports!Next, ReportFacts!Next, Reports!Step, ReportFacts!Step,
           Reports!Start, ReportFacts!Start, Reports!Begin, ReportFacts!Begin,
           Reports!Get, ReportFacts!Get, Reports!Replayed, ReportFacts!Replayed,
           Reports!Cleared, ReportFacts!Cleared, Reports!Refused,
           ReportFacts!Refused, Reports!Submitted, ReportFacts!Submitted,
           Reports!Unavailable, ReportFacts!Unavailable, Reports!AnswerLost,
           ReportFacts!AnswerLost, Reports!Save, ReportFacts!Save, Reports!Audit,
           ReportFacts!Audit, Reports!Remember, ReportFacts!Remember, Reports!Crash,
           ReportFacts!Crash, Reports!Goto, ReportFacts!Goto, Reports!Proceed,
           ReportFacts!Proceed, Reports!After, ReportFacts!After,
           Reports!ReviewSteps, ReportFacts!ReviewSteps, Reports!SubmitSteps,
           ReportFacts!SubmitSteps, Reports!Active, ReportFacts!Active,
           Reports!Steps, ReportFacts!Steps
  <1>3. [Reports!Next]_Reports!vars <=> [ReportFacts!Next]_ReportFacts!vars
    BY <1>2 DEF Reports!vars, ReportFacts!vars
  <1>4. Reports!SubmittedWasReviewed <=> ReportFacts!SubmittedWasReviewed
    BY DEF Reports!SubmittedWasReviewed, ReportFacts!SubmittedWasReviewed,
           Reports!Reviewed, ReportFacts!Reviewed
  <1>5. Reports!AnswersAgree <=> ReportFacts!AnswersAgree
    BY DEF Reports!AnswersAgree, ReportFacts!AnswersAgree
  <1> QED
    BY <1>1, <1>3, <1>4, <1>5

(* The controlled writes of the report agent are authorised: what was proved   *)
(* of the approval flow alone holds of it with the service inside.             *)
THEOREM CallsAreAuthorised == Spec => []Thread!WritesAuthorised
  <1>1. ThreadFacts!Spec => []ThreadFacts!WritesAuthorised
    BY ThreadFacts!WritesAreAuthorised, ThreadAssumption, PTL
  <1>2. Spec => ThreadFacts!Spec
    BY CompositionImplementsThread, SameThread, PTL
    DEF ImplementsThread, Thread!Spec, ThreadFacts!Spec
  <1> QED
    BY <1>1, <1>2, SameThread, PTL

(* Also with conversations, timeouts of their runs and approvals beside the    *)
(* HTTP routes, nothing is submitted that no audited review approved, and all  *)
(* who are answered are told the same submission.                              *)
THEOREM SubmissionsStayReviewed ==
    Spec => [](Reports!SubmittedWasReviewed /\ Reports!AnswersAgree)
  <1>1. ReportFacts!Spec => []ReportFacts!SubmittedWasReviewed
    BY ReportFacts!SubmissionsAreReviewed, ReportAssumption, PTL
  <1>2. ReportFacts!Spec => []ReportFacts!AnswersAgree
    BY ReportFacts!AnswersAlwaysAgree, ReportAssumption, PTL
  <1>3. Spec => ReportFacts!Spec
    BY CompositionImplementsReports, SameReports, PTL
    DEF ImplementsReports, Reports!Spec, ReportFacts!Spec
  <1> QED
    BY <1>1, <1>2, <1>3, SameReports, PTL

(* Seen through the stores of the report and the answers, conversations and    *)
(* HTTP requests together are one service that does what ReportOutcome says.   *)
THEOREM CompositionImplementsOutcome == Spec => ReportFacts!Outcome!Spec
  <1>1. ReportFacts!Spec => ReportFacts!Outcome!Spec
    BY ReportFacts!ServiceImplementsOutcome, ReportAssumption, PTL
    DEF ReportFacts!ImplementsOutcome
  <1>2. Spec => ReportFacts!Spec
    BY CompositionImplementsReports, SameReports, PTL
    DEF ImplementsReports, Reports!Spec, ReportFacts!Spec
  <1> QED
    BY <1>1, <1>2, PTL

-----------------------------------------------------------------------------
(* Where a conversation has not been through the gate and to its node yet.     *)
Early == {"unused", "gate", "scope", "load"}

(* What the approval flow and the service know of each other: a conversation   *)
(* has a call of the service only once its run was resumed with a yes on a     *)
(* record found pending, for an action that was pending, and with its scope.   *)
Linked ==
    \A c \in Conversations, a \in Actions : req[<<c, a>>].pc # "unused" =>
        /\ talk[c].pc \notin Early
        /\ talk[c].approved
        /\ talk[c].record > 0
        /\ a \in talk[c].at
        /\ req[<<c, a>>].kind = Kind(a)
        /\ Scope[a] \in talk[c].scopes

(* A write on record was made by a call.                                       *)
Backed == \A w \in writes : req[<<w.by, w.action>>].pc # "unused"

(* What stands behind a record in the report system.                           *)
Behind(employee) ==
    \/ \E r \in Direct : req[r].kind = "submit" /\ req[r].employee = employee
    \/ \E w \in writes : /\ w.action = "submit_report"
                         /\ req[<<w.by, w.action>>].employee = employee

Links == Linked /\ Backed /\ \A employee \in records : Behind(employee)

Parts == ThreadFacts!IInv /\ ReportFacts!IInv

ThreadMove(c) ==
    \/ Thread!Start(c) \/ Thread!Gate(c) \/ Thread!CheckScope(c) \/ Thread!Load(c)
    \/ Thread!Rejected(c) \/ Thread!Raised(c)
    \/ \E a \in Actions : Thread!Written(c, a) \/ Thread!WrittenRaised(c, a)
    \/ Thread!Commit(c) \/ Thread!Timeout(c) \/ Thread!Decide(c) \/ Thread!Close(c)
    \/ Thread!Look(c) \/ Thread!Insert(c) \/ Thread!Crash(c)

LEMMA TalkTyped ==
    ASSUME Parts
    PROVE  /\ talk \in [Conversations -> ThreadFacts!RequestType]
           /\ \A c \in Conversations : talk[c].pc = "node" => talk[c].record > 0
           /\ \A c \in Conversations : talk[c].left \subseteq talk[c].at
           /\ \A w \in writes : w.by \in Conversations /\ w.action \in Actions
  BY DEF Parts, ThreadFacts!IInv, ThreadFacts!TypeOK, ThreadFacts!Typed, ThreadFacts!Authority

LEMMA ReqTyped ==
    ASSUME Parts
    PROVE  /\ req \in [Direct \cup Calls -> ReportFacts!RequestType]
           /\ \A r \in Direct \cup Calls :
                 /\ req[r].pc = "unused" <=> req[r].kind = None
                 /\ req[r].pc = "connect" => req[r].kind = "submit"
  BY DEF Parts, ReportFacts!IInv, ReportFacts!Typed, ReportFacts!StepsOfKind

LEMMA CallsAreCalls ==
    /\ \A c \in Conversations, a \in Actions : <<c, a>> \in Calls
    /\ \A r \in Direct : r \notin Calls
  BY ApprovedSubmissionAssumption DEF Calls

(* The conversation a write moves on, and nothing else about it.               *)
LEMMA FinishTalk ==
    ASSUME Parts, NEW c \in Conversations, NEW a \in Actions, Thread!Finish(c, a)
    PROVE  /\ talk'[c].pc = IF talk[c].left = {a} THEN "commit" ELSE "node"
           /\ talk'[c].left = talk[c].left \ {a}
           /\ talk'[c].approved = talk[c].approved /\ talk'[c].record = talk[c].record
           /\ talk'[c].at = talk[c].at /\ talk'[c].scopes = talk[c].scopes
           /\ talk'[c].closes = talk[c].closes
           /\ \A d \in Conversations \ {c} : talk'[d] = talk[d]
  <1>1. PICK l, m : /\ l = (IF talk[c].left = {a} THEN "commit" ELSE "node")
                    /\ m = talk[c].left \ {a}
    OBVIOUS
  <1>2. talk' = [talk EXCEPT ![c] = [@ EXCEPT !.left = m, !.pc = l]]
    BY <1>1 DEF Thread!Finish
  <1>3. talk[c] \in ThreadFacts!RequestType /\ talk \in [Conversations -> ThreadFacts!RequestType]
    BY TalkTyped
  <1>4. PICK n : n = [talk[c] EXCEPT !.left = m, !.pc = l]
    OBVIOUS
  <1>5. /\ n.pc = l /\ n.left = m /\ n.approved = talk[c].approved
        /\ n.record = talk[c].record /\ n.at = talk[c].at /\ n.scopes = talk[c].scopes
        /\ n.closes = talk[c].closes
    BY <1>3, <1>4 DEF ThreadFacts!RequestType
  <1>6. talk' = [talk EXCEPT ![c] = n]
    BY <1>2, <1>4
  <1>7. talk'[c] = n /\ \A d \in Conversations \ {c} : talk'[d] = talk[d]
    BY <1>3, <1>6
  <1> QED
    BY <1>1, <1>5, <1>7

(* A step of a thread leaves the other requests alone, and of its own what was *)
(* settled before the node.                                                    *)
LEMMA ThreadMoveKeeps ==
    ASSUME Parts, NEW c \in Conversations, ThreadMove(c)
    PROVE  /\ \A d \in Conversations \ {c} : talk'[d] = talk[d]
           /\ writes \subseteq writes'
           /\ talk[c].pc \notin Early => /\ talk'[c].pc \notin Early
                                         /\ talk'[c].approved = talk[c].approved
                                         /\ talk'[c].record = talk[c].record
                                         /\ talk'[c].at = talk[c].at
                                         /\ talk'[c].scopes = talk[c].scopes
  <1> USE TalkTyped DEF ThreadFacts!RequestType, Early, Thread!Goto
  <1>1. CASE Thread!Start(c)
    BY <1>1 DEF Thread!Start
  <1>2. CASE Thread!Gate(c)
    BY <1>2 DEF Thread!Gate
  <1>3. CASE Thread!CheckScope(c) \/ Thread!Load(c)
    BY <1>3 DEF Thread!CheckScope, Thread!Load
  <1>4. CASE Thread!Rejected(c) \/ Thread!Raised(c)
    BY <1>4 DEF Thread!Rejected, Thread!Raised
  <1>5. ASSUME NEW a \in Actions, Thread!Written(c, a) \/ Thread!WrittenRaised(c, a)
        PROVE  /\ \A d \in Conversations \ {c} : talk'[d] = talk[d]
               /\ writes \subseteq writes'
               /\ talk'[c].pc \notin Early
               /\ talk'[c].approved = talk[c].approved
               /\ talk'[c].record = talk[c].record
               /\ talk'[c].at = talk[c].at
               /\ talk'[c].scopes = talk[c].scopes
    <2>1. CASE Thread!WrittenRaised(c, a)
      BY <2>1 DEF Thread!WrittenRaised
    <2>2. CASE Thread!Written(c, a)
      BY <2>2, FinishTalk DEF Thread!Written
    <2> QED
      BY <1>5, <2>1, <2>2
  <1>6. CASE Thread!Commit(c)
    <2>1. PICK l \in {"decide", "look", "done"}, b \in BOOLEAN :
             talk' = [talk EXCEPT ![c] = [@ EXCEPT !.pc = l, !.interrupted = b]]
      <3>1. ASSUME NEW l, Thread!Goto(c, l)
            PROVE  talk' = [talk EXCEPT ![c] =
                              [@ EXCEPT !.pc = l, !.interrupted = talk[c].interrupted]]
        BY <3>1
      <3>2. \/ Thread!Goto(c, "decide") \/ Thread!Goto(c, "done")
            \/ \E l \in {"decide", "look"} :
                  talk' = [talk EXCEPT ![c] = [@ EXCEPT !.pc = l, !.interrupted = TRUE]]
        BY <1>6 DEF Thread!Commit
      <3>3. talk[c].interrupted \in BOOLEAN
        OBVIOUS
      <3> QED
        BY <3>1, <3>2, <3>3
    <2> QED
      BY <1>6, <2>1 DEF Thread!Commit
  <1>7. CASE Thread!Timeout(c) \/ Thread!Crash(c)
    BY <1>7 DEF Thread!Timeout, Thread!Crash
  <1>8. CASE Thread!Decide(c)
    <2>1. CASE Thread!Goto(c, "done")
      BY <1>8, <2>1 DEF Thread!Decide
    <2>2. CASE \E i \in Thread!Pending :
                  talk' = [talk EXCEPT ![c] = [@ EXCEPT !.pc = "close", !.closes = i]]
      <3>1. PICK i :
                  talk' = [talk EXCEPT ![c] = [@ EXCEPT !.pc = "close", !.closes = i]]
        BY <2>2
      <3>2. UNCHANGED writes
        BY <1>8 DEF Thread!Decide
      <3> QED
        BY <3>1, <3>2
    <2> QED
      BY <1>8, <2>1, <2>2 DEF Thread!Decide
  <1>9. CASE Thread!Close(c) \/ Thread!Look(c) \/ Thread!Insert(c)
    BY <1>9 DEF Thread!Close, Thread!Look, Thread!Insert
  <1> QED
    BY <1>1, <1>2, <1>3, <1>4, <1>5, <1>6, <1>7, <1>8, <1>9 DEF ThreadMove

(* A step of a report request leaves the others alone and keeps what the       *)
(* request is; only a submission adds a record, its employee's.                *)
LEMMA ReportStepKeeps ==
    ASSUME Parts, NEW r \in Direct \cup Calls, Reports!Step(r)
    PROVE  /\ \A q \in (Direct \cup Calls) \ {r} : req'[q] = req[q]
           /\ req[r].pc # "unused" => /\ req'[r].pc # "unused"
                                      /\ req'[r].kind = req[r].kind
                                      /\ req'[r].employee = req[r].employee
           /\ \/ records' = records
              \/ /\ records' = records \cup {req[r].employee}
                 /\ req[r].pc = "connect"
                 /\ req[r].kind = "submit"
  <1> USE ReqTyped DEF ReportFacts!RequestType, Reports!Goto, Reports!Proceed
  <1>1. CASE Reports!Start(r)
    <2>1. PICK kind \in {"review", "submit"}, employee \in Employees, yes \in BOOLEAN :
             Reports!Begin(r, kind, employee, yes)
      BY <1>1 DEF Reports!Start
    <2> QED
      BY <2>1 DEF Reports!Begin
  <1>2. CASE Reports!Get(r)
    BY <1>2 DEF Reports!Get, Reports!After, Reports!ReviewSteps, Reports!SubmitSteps
  <1>3. CASE Reports!Replayed(r)
    BY <1>3 DEF Reports!Replayed
  <1>9. CASE Reports!Refused(r) \/ Reports!Unavailable(r)
    BY <1>9 DEF Reports!Refused, Reports!Unavailable
  <1>4. CASE Reports!Cleared(r)
    <2>1. req[r].kind = "submit"
      BY <1>4 DEF Reports!Cleared, Parts, ReportFacts!IInv, ReportFacts!StepsOfKind
    <2> QED
      BY <1>4, <2>1 DEF Reports!Cleared, Reports!After, Reports!SubmitSteps
  <1>5. CASE Reports!Submitted(r) \/ Reports!AnswerLost(r)
    BY <1>5 DEF Reports!Submitted, Reports!AnswerLost, Reports!After, Reports!SubmitSteps
  <1>6. CASE Reports!Save(r) \/ Reports!Audit(r)
    BY <1>6 DEF Reports!Save, Reports!Audit, Reports!After, Reports!ReviewSteps,
                Reports!SubmitSteps
  <1>7. CASE Reports!Remember(r)
    BY <1>7 DEF Reports!Remember, Reports!SubmitSteps
  <1>8. CASE Reports!Crash(r)
    BY <1>8 DEF Reports!Crash, Reports!Active, Reports!Steps
  <1> QED
    BY <1>1, <1>2, <1>3, <1>4, <1>5, <1>6, <1>7, <1>8, <1>9 DEF Reports!Step

(* The steps of a conversation that move a call on, and those that leave the   *)
(* service alone.                                                              *)
Moves(c) ==
    /\ ThreadMove(c) \/ UNCHANGED <<talk, writes>>
    /\ \/ \E a \in Actions : Reports!Step(<<c, a>>) /\ req[<<c, a>>].pc # "unused"
       \/ UNCHANGED <<req, records>>

(* A call that has come goes on being what it is.                              *)
LEMMA MovesKeepCalls ==
    ASSUME Parts, NEW c \in Conversations, Moves(c), NEW q \in Direct \cup Calls
    PROVE  /\ req'[q].pc # "unused" <=> req[q].pc # "unused"
           /\ req[q].pc # "unused" => /\ req'[q].kind = req[q].kind
                                      /\ req'[q].employee = req[q].employee
  <1>1. CASE UNCHANGED <<req, records>>
    BY <1>1
  <1>2. ASSUME NEW a \in Actions, Reports!Step(<<c, a>>), req[<<c, a>>].pc # "unused"
        PROVE  /\ req'[q].pc # "unused" <=> req[q].pc # "unused"
               /\ req[q].pc # "unused" => /\ req'[q].kind = req[q].kind
                                          /\ req'[q].employee = req[q].employee
    <2>1. PICK r \in Direct \cup Calls : r = <<c, a>>
      BY CallsAreCalls
    <2>2. Reports!Step(r) /\ req[r].pc # "unused"
      BY <1>2, <2>1
    <2> QED
      BY <2>2, ReportStepKeeps
  <1> QED
    BY <1>1, <1>2 DEF Moves

LEMMA MovesKeepLinked ==
    ASSUME Parts, Linked, NEW c \in Conversations, Moves(c) PROVE Linked'
  <1> SUFFICES ASSUME NEW d \in Conversations, NEW a \in Actions, req'[<<d, a>>].pc # "unused"
               PROVE  /\ talk'[d].pc \notin Early
                      /\ talk'[d].approved
                      /\ talk'[d].record > 0
                      /\ a \in talk'[d].at
                      /\ req'[<<d, a>>].kind = Kind(a)
                      /\ Scope[a] \in talk'[d].scopes
    BY DEF Linked, Kind, Scope
  <1>1. req[<<d, a>>].pc # "unused" /\ req'[<<d, a>>].kind = req[<<d, a>>].kind
    <2>1. PICK q \in Direct \cup Calls : q = <<d, a>>
      BY CallsAreCalls
    <2> QED
      BY <2>1, MovesKeepCalls
  <1>2. /\ talk[d].pc \notin Early
        /\ talk[d].approved
        /\ talk[d].record > 0
        /\ a \in talk[d].at
        /\ req[<<d, a>>].kind = Kind(a)
        /\ Scope[a] \in talk[d].scopes
    BY <1>1 DEF Linked
  <1>3. /\ talk'[d].pc \notin Early
        /\ talk'[d].approved = talk[d].approved
        /\ talk'[d].record = talk[d].record
        /\ talk'[d].at = talk[d].at
        /\ talk'[d].scopes = talk[d].scopes
    <2>1. CASE UNCHANGED <<talk, writes>>
      BY <2>1, <1>2
    <2>2. CASE ThreadMove(c)
      BY <2>2, <1>2, ThreadMoveKeeps
    <2> QED
      BY <2>1, <2>2 DEF Moves
  <1> QED
    BY <1>1, <1>2, <1>3

(* What stands behind a record goes on doing so.                               *)
LEMMA MovesKeepBehind ==
    ASSUME Parts, Backed, NEW c \in Conversations, Moves(c), NEW employee \in Employees,
           Behind(employee)
    PROVE  Behind(employee)'
  <1>1. ASSUME NEW r \in Direct, req[r].kind = "submit", req[r].employee = employee
        PROVE  req'[r].kind = "submit" /\ req'[r].employee = employee
    <2>1. req[r].pc # "unused"
      BY <1>1, ReqTyped, ApprovedSubmissionAssumption
    <2> QED
      BY <1>1, <2>1, MovesKeepCalls
  <1>2. ASSUME NEW w \in writes, req[<<w.by, w.action>>].employee = employee
        PROVE  w \in writes' /\ req'[<<w.by, w.action>>].employee = employee
    <2>1. PICK q \in Direct \cup Calls : q = <<w.by, w.action>>
      BY TalkTyped, CallsAreCalls
    <2>2. req[q].pc # "unused"
      BY <2>1 DEF Backed
    <2>3. req'[q].employee = employee
      BY <1>2, <2>1, <2>2, MovesKeepCalls
    <2>4. w \in writes'
      BY ThreadMoveKeeps DEF Moves
    <2> QED
      BY <2>1, <2>3, <2>4
  <1> QED
    BY <1>1, <1>2 DEF Behind

(* A write is made by a call that has come.                                    *)
LEMMA WritesAreBacked ==
    ASSUME Parts, Backed, NEW c \in Conversations, Moves(c),
           \A w \in writes' \ writes : \E a \in Actions :
               /\ w = Thread!Write(c, a)
               /\ req[<<c, a>>].pc # "unused"
    PROVE  Backed'
  <1> SUFFICES ASSUME NEW w \in writes' PROVE req'[<<w.by, w.action>>].pc # "unused"
    BY DEF Backed
  <1>1. CASE w \in writes
    <2>1. PICK q \in Direct \cup Calls : q = <<w.by, w.action>>
      BY <1>1, TalkTyped, CallsAreCalls
    <2>2. req[q].pc # "unused"
      BY <1>1, <2>1 DEF Backed
    <2> QED
      BY <2>1, <2>2, MovesKeepCalls
  <1>2. CASE w \notin writes
    <2>1. PICK a \in Actions : w = Thread!Write(c, a) /\ req[<<c, a>>].pc # "unused"
      BY <1>2
    <2>2. w.by = c /\ w.action = a
      BY <2>1 DEF Thread!Write
    <2>3. PICK q \in Direct \cup Calls : q = <<c, a>>
      BY CallsAreCalls
    <2> QED
      BY <2>1, <2>2, <2>3, MovesKeepCalls
  <1> QED
    BY <1>1, <1>2

(* An effect is the step of a call that has come, with its write.              *)
LEMMA EffectIs ==
    ASSUME Parts, Linked, NEW c \in Conversations, NEW a \in Actions, Effect(c, a)
    PROVE  /\ Reports!Step(<<c, a>>) /\ req[<<c, a>>].pc # "unused"
           /\ ThreadMove(c) /\ writes' = writes \cup {Thread!Write(c, a)}
           /\ records' # records => a = "submit_report"
  <1>1. Reports!Step(<<c, a>>)
    BY CallSteps
  <1>2. req[<<c, a>>].pc # "unused"
    BY DEF Effect, Reports!Submitted, Reports!AnswerLost, Reports!Save, Reports!Replayed
  <1>3. Thread!Written(c, a) \/ Thread!WrittenRaised(c, a)
    BY DEF Effect
  <1>4. ThreadMove(c) /\ writes' = writes \cup {Thread!Write(c, a)}
    BY <1>3 DEF ThreadMove, Thread!Written, Thread!WrittenRaised
  <1>5. ASSUME a # "submit_report" PROVE records' = records
    <2>1. req[<<c, a>>].kind # "submit"
      BY <1>2, <1>5 DEF Linked, Kind, Actions
    <2>2. PICK q \in Direct \cup Calls : q = <<c, a>>
      BY CallsAreCalls
    <2> QED
      BY <1>1, <2>1, <2>2, ReportStepKeeps
  <1> QED
    BY <1>1, <1>2, <1>4, <1>5

(* Which actions are such steps.                                               *)
LEMMA MostActionsMove ==
    ASSUME Parts, Linked, NEW c \in Conversations, NEW a \in Actions,
           \/ ThreadStep(c) \/ NotResumed(c) \/ Commit(c) \/ CutShort(c)
           \/ NotPermitted(c, a) \/ Quiet(c, a) \/ Effect(c, a) \/ NoEffect(c, a)
           \/ Cancelled(c, a)
    PROVE  Moves(c)
  <1>1. CASE ThreadStep(c) \/ NotResumed(c) \/ Commit(c) \/ CutShort(c)
    BY <1>1 DEF ThreadStep, NotResumed, Commit, CutShort, reportVars, Moves, ThreadMove
  <1>2. CASE NotPermitted(c, a)
    BY <1>2 DEF NotPermitted, reportVars, Moves, ThreadMove
  <1>3. CASE Quiet(c, a)
    <2>1. Reports!Step(<<c, a>>)
      BY <1>3, CallSteps
    <2>2. req[<<c, a>>].pc # "unused"
      BY <1>3 DEF Quiet, Reports!Get, Reports!Cleared, Reports!Audit, Reports!Save,
                  Reports!Remember
    <2> QED
      BY <1>3, <2>1, <2>2 DEF Quiet, threadVars, Moves
  <1>4. CASE Effect(c, a)
    BY <1>4, EffectIs DEF Moves
  <1>5. CASE NoEffect(c, a)
    <2>1. Reports!Step(<<c, a>>)
      BY <1>5, CallSteps
    <2>2. req[<<c, a>>].pc # "unused" /\ ThreadMove(c)
      BY <1>5 DEF NoEffect, Reports!Refused, Reports!Unavailable, ThreadMove
    <2> QED
      BY <2>1, <2>2 DEF Moves
  <1>6. CASE Cancelled(c, a)
    <2>1. Reports!Step(<<c, a>>)
      BY <1>6, CallSteps
    <2>2. req[<<c, a>>].pc # "unused"
      BY <1>6 DEF Cancelled, Reports!Crash, Reports!Active, Reports!Steps
    <2> QED
      BY <1>6, <2>1, <2>2 DEF Cancelled, threadVars, Moves
  <1> QED
    BY <1>1, <1>2, <1>3, <1>4, <1>5, <1>6

(* Only a submission by a route and an Effect make records and writes.         *)
LEMMA RecordsGrow ==
    ASSUME Parts, NEW c \in Conversations, NEW a \in Actions,
           \/ ThreadStep(c) \/ NotResumed(c) \/ Commit(c) \/ CutShort(c)
           \/ NotPermitted(c, a) \/ Quiet(c, a) \/ NoEffect(c, a) \/ Cancelled(c, a)
    PROVE  records' = records /\ writes' = writes
  <1>1. CASE ThreadStep(c)
    BY <1>1 DEF ThreadStep, reportVars, Thread!Start, Thread!Gate, Thread!CheckScope,
                Thread!Load, Thread!Rejected, Thread!Decide, Thread!Close, Thread!Look,
                Thread!Insert
  <1>2. CASE NotResumed(c) \/ Commit(c) \/ CutShort(c)
    BY <1>2 DEF NotResumed, Commit, CutShort, reportVars, Thread!Raised, Thread!Commit,
                Thread!Timeout, Thread!Crash
  <1>3. CASE NotPermitted(c, a) \/ NoEffect(c, a)
    BY <1>3 DEF NotPermitted, NoEffect, reportVars, Thread!Raised, Reports!Refused,
                Reports!Unavailable
  <1>4. CASE Quiet(c, a) \/ Cancelled(c, a)
    BY <1>4 DEF Quiet, Cancelled, threadVars, Reports!Get, Reports!Cleared, Reports!Audit,
                Reports!Save, Reports!Remember, Reports!Crash
  <1> QED
    BY <1>1, <1>2, <1>3, <1>4

LEMMA CallKeeps ==
    ASSUME Parts, Links, NEW c \in Conversations, NEW a \in Actions, Call(c, a)
    PROVE  Links'
  <1>1. PICK employee \in Employees, yes \in BOOLEAN :
           Reports!Begin(<<c, a>>, Kind(a), employee, yes)
    BY DEF Call
  <1>2. talk' = talk /\ writes' = writes /\ records' = records
    BY <1>1 DEF Call, threadVars, Reports!Begin
  <1>3. PICK r \in Direct \cup Calls : r = <<c, a>>
    BY CallsAreCalls
  <1>4. /\ req'[r].kind = Kind(a) /\ req'[r].pc # "unused" /\ req[r].pc = "unused"
        /\ \A q \in (Direct \cup Calls) \ {r} : req'[q] = req[q]
    BY <1>1, <1>3, ReqTyped DEF Reports!Begin, ReportFacts!RequestType
  <1>5. /\ talk[c].pc \notin Early /\ talk[c].approved /\ talk[c].record > 0
        /\ a \in talk[c].at /\ Scope[a] \in talk[c].scopes
    BY TalkTyped DEF Call, Early
  <1>6. Linked'
    <2> SUFFICES ASSUME NEW d \in Conversations, NEW b \in Actions,
                        req'[<<d, b>>].pc # "unused"
                 PROVE  /\ talk[d].pc \notin Early
                        /\ talk[d].approved
                        /\ talk[d].record > 0
                        /\ b \in talk[d].at
                        /\ req'[<<d, b>>].kind = Kind(b)
                        /\ Scope[b] \in talk[d].scopes
      BY <1>2 DEF Linked, Kind, Scope
    <2>1. CASE d = c /\ b = a
      BY <1>3, <1>4, <1>5, <2>1
    <2>2. CASE ~(d = c /\ b = a)
      <3>1. PICK q \in (Direct \cup Calls) \ {r} : q = <<d, b>>
        BY <1>3, <2>2, CallsAreCalls
      <3>2. req'[<<d, b>>] = req[<<d, b>>]
        BY <1>4, <3>1
      <3> QED
        BY <3>2 DEF Links, Linked
    <2> QED
      BY <2>1, <2>2
  <1>7. Backed'
    <2> SUFFICES ASSUME NEW w \in writes PROVE req'[<<w.by, w.action>>].pc # "unused"
      BY <1>2 DEF Backed
    <2>1. PICK q \in Direct \cup Calls : q = <<w.by, w.action>>
      BY TalkTyped, CallsAreCalls
    <2>2. req[q].pc # "unused"
      BY <2>1 DEF Links, Backed
    <2> QED
      BY <1>4, <2>1, <2>2
  <1>8. ASSUME NEW e \in records PROVE Behind(e)'
    <2>1. Behind(e)
      BY <1>8 DEF Links
    <2>2. ASSUME NEW q \in Direct, req[q].kind = "submit", req[q].employee = e
          PROVE  Behind(e)'
      <3>1. q # r
        BY <1>3, CallsAreCalls
      <3> QED
        BY <1>4, <2>2, <3>1 DEF Behind
    <2>3. ASSUME NEW w \in writes, w.action = "submit_report",
                 req[<<w.by, w.action>>].employee = e
          PROVE  Behind(e)'
      <3>1. PICK q \in Direct \cup Calls : q = <<w.by, w.action>>
        BY TalkTyped, CallsAreCalls
      <3>2. req[q].pc # "unused"
        BY <3>1 DEF Links, Backed
      <3>3. req'[<<w.by, w.action>>].employee = e
        BY <1>4, <2>3, <3>1, <3>2
      <3> QED
        BY <1>2, <2>3, <3>3 DEF Behind
    <2> QED
      BY <2>1, <2>2, <2>3 DEF Behind
  <1> QED
    BY <1>2, <1>6, <1>7, <1>8 DEF Links

LEMMA DirectKeeps ==
    ASSUME Parts, Links, NEW r \in Direct, DirectStep(r)
    PROVE  Links'
  <1>1. talk' = talk /\ writes' = writes /\ Reports!Step(r)
    BY DEF DirectStep, threadVars
  <1>2. \A q \in Calls : req'[q] = req[q]
    BY <1>1, CallsAreCalls, ReportStepKeeps
  <1>3. \A d \in Conversations, b \in Actions : req'[<<d, b>>] = req[<<d, b>>]
    BY <1>2, CallsAreCalls
  <1>4. Linked'
    BY <1>1, <1>3 DEF Links, Linked, Kind, Scope
  <1>5. Backed'
    BY <1>1, <1>3, TalkTyped DEF Links, Backed
  <1>6. ASSUME NEW e \in records PROVE Behind(e)'
    <2>1. Behind(e) /\ e # None
      BY <1>6, ApprovedSubmissionAssumption
      DEF Links, Parts, ReportFacts!IInv, ReportFacts!TypeOK
    <2>2. ASSUME NEW q \in Direct, req[q].kind = "submit", req[q].employee = e
          PROVE  Behind(e)'
      <3>1. req[q].pc # "unused"
        BY <2>2, ReqTyped, ApprovedSubmissionAssumption
      <3>2. req'[q].kind = "submit" /\ req'[q].employee = e
        BY <1>1, <2>2, <3>1, ReportStepKeeps
      <3> QED
        BY <3>2 DEF Behind
    <2>3. ASSUME NEW w \in writes, w.action = "submit_report",
                 req[<<w.by, w.action>>].employee = e
          PROVE  Behind(e)'
      BY <1>1, <1>3, <2>3, TalkTyped DEF Behind
    <2> QED
      BY <2>1, <2>2, <2>3 DEF Behind
  <1>7. ASSUME NEW e \in records', e \notin records PROVE Behind(e)'
    <2>1. e = req[r].employee /\ req[r].pc = "connect" /\ req[r].kind = "submit"
      BY <1>1, <1>7, ReportStepKeeps
    <2>2. req'[r].kind = "submit" /\ req'[r].employee = e
      BY <1>1, <2>1, ReportStepKeeps
    <2> QED
      BY <2>2 DEF Behind
  <1> QED
    BY <1>4, <1>5, <1>6, <1>7 DEF Links

LEMMA MovesKeep ==
    ASSUME Parts, Links, NEW c \in Conversations, NEW a \in Actions,
           \/ ThreadStep(c) \/ NotResumed(c) \/ Commit(c) \/ CutShort(c)
           \/ NotPermitted(c, a) \/ Quiet(c, a) \/ Effect(c, a) \/ NoEffect(c, a)
           \/ Cancelled(c, a)
    PROVE  Links'
  <1>1. Moves(c)
    BY MostActionsMove DEF Links
  <1>2. Linked'
    BY <1>1, MovesKeepLinked DEF Links
  <1>3. Effect(c, a) \/ (records' = records /\ writes' = writes)
    BY RecordsGrow
  <1>4. Backed'
    BY <1>1, <1>3, EffectIs, WritesAreBacked DEF Links
  <1>5. ASSUME NEW e \in records PROVE Behind(e)'
    BY <1>1, <1>5, MovesKeepBehind DEF Links, Parts, ReportFacts!IInv, ReportFacts!TypeOK
  <1>6. ASSUME NEW e \in records', e \notin records PROVE Behind(e)'
    <2>1. Effect(c, a)
      BY <1>3, <1>6
    <2>2. PICK r \in Direct \cup Calls : r = <<c, a>>
      BY CallsAreCalls
    <2>3. /\ Reports!Step(r) /\ req[r].pc # "unused" /\ a = "submit_report"
          /\ writes' = writes \cup {Thread!Write(c, a)}
      BY <1>6, <2>1, <2>2, EffectIs DEF Links
    <2>4. e = req[r].employee /\ req'[r].employee = e
      BY <1>6, <2>3, ReportStepKeeps
    <2>5. Thread!Write(c, a).by = c /\ Thread!Write(c, a).action = a
      BY DEF Thread!Write
    <2> QED
      BY <2>2, <2>3, <2>4, <2>5 DEF Behind
  <1> QED
    BY <1>2, <1>4, <1>5, <1>6 DEF Links

LEMMA NextKeeps ==
    ASSUME Parts, Links, [Next]_vars
    PROVE  Links'
  <1>1. CASE UNCHANGED vars
    BY <1>1 DEF vars, reportVars, threadVars, Links, Linked, Backed, Behind, Kind, Scope
  <1>2. ASSUME NEW r \in Direct, DirectStep(r) PROVE Links'
    BY <1>2, DirectKeeps
  <1>3. ASSUME NEW c \in Conversations, NEW a \in Actions, Call(c, a) PROVE Links'
    BY <1>3, CallKeeps
  <1>4. "submit_report" \in Actions
    BY DEF Actions
  <1> QED
    BY <1>1, <1>2, <1>3, <1>4, MovesKeep DEF Next

LEMMA PartsHold == Spec => []Parts
  <1>1. Spec => ThreadFacts!Spec /\ ReportFacts!Spec
    BY CompositionImplementsThread, CompositionImplementsReports, SameThread,
       SameReports, PTL
    DEF ImplementsThread, ImplementsReports, Thread!Spec, ThreadFacts!Spec,
        Reports!Spec, ReportFacts!Spec
  <1>2. ThreadFacts!Spec => []ThreadFacts!IInv
    BY ThreadFacts!InvariantHolds, ThreadAssumption, PTL
  <1>3. ReportFacts!Spec => []ReportFacts!IInv
    BY ReportFacts!InvariantHolds, ReportAssumption, PTL
  <1> QED
    BY <1>1, <1>2, <1>3, PTL DEF Parts

LEMMA LinksHold == Spec => []Links
  <1>1. Init => Links
    BY DEF Init, Reports!Init, Reports!Unused, Thread!Init, Links, Linked, Backed, Calls
  <1>2. Parts /\ Links /\ [Next]_vars => Links'
    BY NextKeeps
  <1> QED
    BY <1>1, <1>2, PartsHold, PTL DEF Spec

(* Every record of the report system is accounted for: by a submission over    *)
(* HTTP, or by a write of a conversation that found its approval pending and   *)
(* whose operator may submit, also if its run timed out, crashed or lost the   *)
(* answer.                                                                     *)
THEOREM RecordsAreAccountedFor == Spec => []RecordsAccountedFor
  <1>1. Parts /\ Links => RecordsAccountedFor
    <2> SUFFICES ASSUME Parts, Links, NEW e \in records
                 PROVE  \/ \E r \in Direct : req[r].kind = "submit" /\ req[r].employee = e
                        \/ \E w \in writes :
                              /\ w.action = "submit_report"
                              /\ req[<<w.by, w.action>>].employee = e
                              /\ talk[w.by].approved /\ talk[w.by].record > 0
                              /\ "report:submit" \in talk[w.by].scopes
      BY DEF RecordsAccountedFor
    <2>1. ASSUME NEW w \in writes, w.action = "submit_report"
          PROVE  /\ talk[w.by].approved /\ talk[w.by].record > 0
                 /\ "report:submit" \in talk[w.by].scopes
      BY <2>1, TalkTyped DEF Links, Backed, Linked, Scope, Actions
    <2> QED
      BY <2>1 DEF Links, Behind
  <1> QED
    BY <1>1, PartsHold, LinksHold, PTL


-----------------------------------------------------------------------------
(* What the service has done for a conversation, of one of the writes that     *)
(* were pending, ...                                                           *)
Complete(c, a) ==
    /\ req[<<c, a>>].pc = "done"
    /\ a = "submit_report" => remembered # None
    /\ a = "review_report" => <<c, a>> \in audit

(* ... or is about to have, when its controlled write is made.                 *)
UnderWay(c, a) ==
    \/ a = "submit_report" /\ req[<<c, a>>].pc \in {"save", "audit", "remember"}
    \/ Complete(c, a)

(* A conversation whose operator said yes goes on from its node only when the  *)
(* service has done what was asked.                                            *)
AnswersFor(c, a) ==
    talk[c].approved /\ a \in talk[c].at =>
        /\ talk[c].pc = "node" => a \in talk[c].left \/ UnderWay(c, a)
        /\ talk[c].pc = "commit" => UnderWay(c, a)
        /\ talk[c].pc = "decide" \/ talk[c].closes > 0 => Complete(c, a)

(* It closes its record last, with its decision.                               *)
TruthOf(c) ==
    /\ talk[c].pc \in Early => talk[c].at = {}
    /\ talk[c].closes > 0 => talk[c].pc \in {"close", "look", "insert", "done"}
    /\ talk[c].closes > 0 /\ talk[c].pc # "close" =>
          approvals[talk[c].closes] = IF talk[c].approved THEN "approved" ELSE "rejected"
    /\ \A a \in Actions : AnswersFor(c, a)

Truth == talkCalm => \A c \in Conversations : TruthOf(c)

(* What the service has done stays done: the audit log and the idempotency     *)
(* record keep what they have.                                                 *)
LEMMA ServiceKeepsWhatIsDone ==
    ASSUME [Next]_vars
    PROVE  /\ audit \subseteq audit'
           /\ remembered # None => remembered' # None
  <1>1. CASE UNCHANGED Reports!vars
    BY <1>1 DEF Reports!vars
  <1>2. ASSUME NEW r \in Direct \cup Calls, Reports!Step(r)
        PROVE  /\ audit \subseteq audit'
               /\ remembered # None => remembered' # None
    <2>1. CASE Reports!Start(r)
      BY <2>1, Zenon DEF Reports!Start, Reports!Begin
    <2>2. CASE Reports!Get(r) \/ Reports!Replayed(r) \/ Reports!Cleared(r)
      BY <2>2 DEF Reports!Get, Reports!Replayed, Reports!Cleared
    <2>3. CASE Reports!Refused(r) \/ Reports!Unavailable(r)
      BY <2>3 DEF Reports!Refused, Reports!Unavailable
    <2>4. CASE Reports!Submitted(r) \/ Reports!AnswerLost(r)
      BY <2>4 DEF Reports!Submitted, Reports!AnswerLost
    <2>5. CASE Reports!Save(r) \/ Reports!Audit(r)
      BY <2>5 DEF Reports!Save, Reports!Audit
    <2>6. CASE Reports!Remember(r)
      BY <2>6 DEF Reports!Remember
    <2>7. CASE Reports!Crash(r)
      BY <2>7 DEF Reports!Crash
    <2> QED
      BY <1>2, <2>1, <2>2, <2>3, <2>4, <2>5, <2>6, <2>7 DEF Reports!Step
  <1> QED
    BY <1>1, <1>2, ReportsNext DEF Reports!Next

LEMMA StaysDone ==
    ASSUME [Next]_vars, NEW c \in Conversations, NEW a \in Actions,
           req'[<<c, a>>] = req[<<c, a>>]
    PROVE  /\ Complete(c, a) => Complete(c, a)'
           /\ UnderWay(c, a) => UnderWay(c, a)'
  BY ServiceKeepsWhatIsDone DEF Complete, UnderWay

(* Another conversation is not disturbed by what one does: its closed record   *)
(* is there and stays as it is, its calls do.                                  *)
LEMMA OthersKeepTruth ==
    ASSUME Parts, [Next]_vars, NEW d \in Conversations, TruthOf(d),
           talk'[d] = talk[d], \A a \in Actions : req'[<<d, a>>] = req[<<d, a>>],
           \A i \in 1..Len(approvals) :
               approvals[i] # "pending" => approvals'[i] = approvals[i]
    PROVE  TruthOf(d)'
  <1>1. talk[d].closes \in 0..Len(approvals) /\ Len(approvals) \in Nat
    BY DEF Parts, ThreadFacts!IInv, ThreadFacts!TypeOK
  <1>2. talk[d].closes > 0 => talk[d].closes \in 1..Len(approvals)
    BY <1>1
  <1>3. talk[d].closes > 0 /\ talk[d].pc # "close" =>
           approvals'[talk[d].closes] = approvals[talk[d].closes]
    BY <1>2 DEF TruthOf
  <1>4. ASSUME NEW a \in Actions PROVE AnswersFor(d, a)'
    <2>1. AnswersFor(d, a)
      BY DEF TruthOf
    <2> QED
      BY <2>1, StaysDone DEF AnswersFor
  <1> QED
    BY <1>3, <1>4 DEF TruthOf

(* The conversation a step of the thread moves on, and nothing else about it.  *)
LEMMA GotoTalk ==
    ASSUME Parts, NEW c \in Conversations, NEW l, Thread!Goto(c, l)
    PROVE  /\ talk'[c].pc = l
           /\ talk'[c].approved = talk[c].approved
           /\ talk'[c].at = talk[c].at /\ talk'[c].left = talk[c].left
           /\ talk'[c].closes = talk[c].closes
  BY TalkTyped DEF Thread!Goto, ThreadFacts!RequestType

(* A conversation on its way to the node has nothing to answer for.            *)
LEMMA EarlySteps ==
    ASSUME Parts, NEW c \in Conversations,
           Thread!Start(c) \/ Thread!Gate(c) \/ Thread!CheckScope(c) \/ Thread!Load(c)
    PROVE  /\ talk[c].pc \in Early
           /\ talk'[c].closes = talk[c].closes
           /\ \/ talk'[c].at = talk[c].at
              \/ talk'[c].pc = "node" /\ talk'[c].left = talk'[c].at
  <1> USE TalkTyped DEF ThreadFacts!RequestType, Early, Thread!Goto
  <1>1. CASE Thread!Start(c)
    <2>1. talk[c].pc = "unused"
      BY <1>1 DEF Thread!Start
    <2>2. CASE talk' = [talk EXCEPT ![c] = [@ EXCEPT !.pc = "load", !.kind = "invoke"]]
      BY <2>1, <2>2
    <2>3. CASE \E yes \in BOOLEAN, s \in ScopeSets :
                  talk' = [talk EXCEPT ![c] = [@ EXCEPT !.pc = "gate", !.kind = "resume",
                                                      !.approved = yes, !.scopes = s]]
      BY <2>1, <2>3
    <2> QED
      BY <1>1, <2>2, <2>3 DEF Thread!Start
  <1>2. CASE Thread!Gate(c)
    <2>1. talk[c].pc = "gate"
      BY <1>2 DEF Thread!Gate
    <2>2. CASE Thread!Goto(c, "done")
      BY <2>1, <2>2
    <2>3. CASE \E i \in Thread!Pending :
                  talk' = [talk EXCEPT ![c] = [@ EXCEPT !.pc = "scope", !.record = i]]
      BY <2>1, <2>3
    <2> QED
      BY <1>2, <2>2, <2>3 DEF Thread!Gate
  <1>3. CASE Thread!CheckScope(c)
    BY <1>3 DEF Thread!CheckScope
  <1>4. CASE Thread!Load(c)
    <2>1. talk[c].pc = "load"
      BY <1>4 DEF Thread!Load
    <2>2. CASE Thread!Goto(c, "commit") \/ Thread!Goto(c, "decide")
      BY <2>1, <2>2
    <2>3. CASE talk' = [talk EXCEPT ![c] = [@ EXCEPT !.pc = "node", !.at = graph.at,
                                                   !.left = graph.at, !.stop = graph.stop]]
      BY <2>1, <2>3
    <2> QED
      BY <1>4, <2>2, <2>3 DEF Thread!Load
  <1> QED
    BY <1>1, <1>2, <1>3, <1>4

LEMMA EarlyTruth ==
    ASSUME Parts, NEW c \in Conversations, TruthOf(c),
           Thread!Start(c) \/ Thread!Gate(c) \/ Thread!CheckScope(c) \/ Thread!Load(c)
    PROVE  TruthOf(c)'
  <1>1. talk[c].pc \in Early /\ talk[c].at = {} /\ ~(talk[c].closes > 0)
    BY EarlySteps DEF TruthOf, Early
  <1>2. ~(talk'[c].closes > 0)
    BY <1>1, EarlySteps
  <1>3. CASE talk'[c].at = {}
    BY <1>2, <1>3 DEF TruthOf, AnswersFor
  <1>4. CASE talk'[c].pc = "node" /\ talk'[c].left = talk'[c].at
    BY <1>2, <1>4 DEF TruthOf, AnswersFor, Early
  <1> QED
    BY <1>1, <1>3, <1>4, EarlySteps

(* Nothing makes a history calm again.                                         *)
LEMMA ThreadMoveCalm ==
    ASSUME NEW c \in Conversations, ThreadMove(c)
    PROVE  talkCalm' => talkCalm
  BY Zenon DEF ThreadMove, Thread!Start, Thread!Gate, Thread!CheckScope, Thread!Load,
     Thread!Rejected, Thread!Written, Thread!Raised, Thread!WrittenRaised,
     Thread!Commit, Thread!Timeout, Thread!Decide, Thread!Close, Thread!Look,
     Thread!Insert, Thread!Crash

(* While the history is calm the record a conversation is about to close is    *)
(* the pending one, ...                                                        *)
LEMMA ClosesPending ==
    ASSUME Parts, ThreadFacts!CalmInv, talkCalm, NEW c \in Conversations,
           talk[c].pc = "close"
    PROVE  /\ talk[c].closes \in 1..Len(approvals)
           /\ approvals[talk[c].closes] = "pending"
  <1>1. ThreadFacts!Pending = {talk[c].closes}
    BY DEF ThreadFacts!CalmInv, ThreadFacts!AtStep
  <1>2. talk[c].closes \in DOMAIN approvals /\ approvals[talk[c].closes] = "pending"
    BY <1>1 DEF ThreadFacts!Pending
  <1>3. approvals \in Seq({"pending", "approved", "rejected"})
    BY DEF Parts, ThreadFacts!IInv, ThreadFacts!TypeOK
  <1> QED
    BY <1>2, <1>3

(* ... so that what is decided stays decided.                                  *)
LEMMA DecisionsStay ==
    ASSUME Parts, ThreadFacts!CalmInv, talkCalm, NEW c \in Conversations,
           ThreadMove(c)
    PROVE  \A i \in 1..Len(approvals) :
               approvals[i] # "pending" => approvals'[i] = approvals[i]
  <1>1. approvals \in Seq({"pending", "approved", "rejected"})
    BY DEF Parts, ThreadFacts!IInv, ThreadFacts!TypeOK
  <1>2. CASE Thread!Close(c)
    <2>1. approvals[talk[c].closes] = "pending"
      BY <1>2, ClosesPending DEF Thread!Close
    <2> QED
      BY <1>1, <1>2, <2>1 DEF Thread!Close
  <1>3. CASE Thread!Insert(c)
    BY <1>1, <1>3 DEF Thread!Insert
  <1>4. CASE approvals' = approvals
    BY <1>4
  <1> QED
    BY <1>2, <1>3, <1>4
    DEF ThreadMove, Thread!Start, Thread!Gate, Thread!CheckScope, Thread!Load,
        Thread!Rejected, Thread!Written, Thread!Raised, Thread!WrittenRaised,
        Thread!Commit, Thread!Timeout, Thread!Decide, Thread!Look, Thread!Crash

-----------------------------------------------------------------------------
(* A conversation that is past its run has had its answer.                     *)
LEMMA AnsweredStays ==
    ASSUME NEW c \in Conversations, [Next]_vars, UNCHANGED req,
           talk'[c].approved = talk[c].approved, talk'[c].at = talk[c].at,
           talk'[c].pc \notin {"node", "commit"},
           talk[c].approved => \A a \in talk[c].at \cap Actions : Complete(c, a)
    PROVE  \A a \in Actions : AnswersFor(c, a)'
  <1> SUFFICES ASSUME NEW a \in Actions PROVE AnswersFor(c, a)'
    OBVIOUS
  <1>1. talk[c].approved /\ a \in talk[c].at => Complete(c, a)'
    BY StaysDone
  <1> QED
    BY <1>1 DEF AnswersFor

(* The steps of the thread beside the service: an answer becomes due when the  *)
(* run goes on from its node, and is given when its record is closed.          *)
LEMMA ThreadStepTruth ==
    ASSUME Parts, ThreadFacts!CalmInv, talkCalm, NEW c \in Conversations, TruthOf(c),
           ThreadStep(c)
    PROVE  TruthOf(c)'
  <1>0. UNCHANGED <<remembered, audit, req>> /\ [Next]_vars
    BY DEF ThreadStep, reportVars, Next
  <1>1. CASE Thread!Start(c) \/ Thread!Gate(c) \/ Thread!CheckScope(c) \/ Thread!Load(c)
    BY <1>1, EarlyTruth
  <1>2. CASE Thread!Rejected(c)
    <2>1. talk[c].pc = "node" /\ ~talk[c].approved /\ Thread!Goto(c, "commit")
      BY <1>2 DEF Thread!Rejected
    <2>2. ~(talk[c].closes > 0)
      BY <2>1 DEF TruthOf
    <2>3. talk'[c].pc = "commit" /\ ~talk'[c].approved /\ ~(talk'[c].closes > 0)
      BY <2>1, <2>2, GotoTalk
    <2> QED
      BY <2>3 DEF TruthOf, AnswersFor, Early
  <1>3. CASE Thread!Decide(c)
    <2>1. talk[c].pc = "decide"
      BY <1>3 DEF Thread!Decide
    <2>2. ~(talk[c].closes > 0)
      BY <2>1 DEF TruthOf
    <2>3. talk[c].approved => \A a \in talk[c].at \cap Actions : Complete(c, a)
      BY <2>1 DEF TruthOf, AnswersFor
    <2>4. CASE Thread!Goto(c, "done")
      <3>1. talk'[c].pc = "done" /\ ~(talk'[c].closes > 0)
        BY <2>2, <2>4, GotoTalk
      <3> QED
        BY <3>1 DEF TruthOf, AnswersFor, Early
    <2>5. CASE \E i \in Thread!Pending :
                  talk' = [talk EXCEPT ![c] = [@ EXCEPT !.pc = "close", !.closes = i]]
      <3>1. /\ talk'[c].pc = "close" /\ talk'[c].at = talk[c].at
            /\ talk'[c].approved = talk[c].approved
        BY <2>5, TalkTyped DEF ThreadFacts!RequestType
      <3>2. \A a \in Actions : AnswersFor(c, a)'
        BY <1>0, <2>3, <3>1, AnsweredStays
      <3> QED
        BY <3>1, <3>2 DEF TruthOf, Early
    <2> QED
      BY <1>3, <2>4, <2>5 DEF Thread!Decide
  <1>4. CASE Thread!Close(c)
    <2>1. talk[c].pc = "close"
      BY <1>4 DEF Thread!Close
    <2>2. talk[c].closes \in 1..Len(approvals)
      BY <2>1, ClosesPending
    <2>3. approvals \in Seq({"pending", "approved", "rejected"})
      BY DEF Parts, ThreadFacts!IInv, ThreadFacts!TypeOK
    <2>4. talk[c].closes > 0
      BY <2>2, <2>3
    <2>5. approvals'[talk[c].closes] = IF talk[c].approved THEN "approved" ELSE "rejected"
      BY <1>4, <2>2, <2>3 DEF Thread!Close
    <2>6. PICK l \in {"look", "done"} : Thread!Goto(c, l)
      BY <1>4 DEF Thread!Close
    <2>7. /\ talk'[c].pc = l /\ talk'[c].at = talk[c].at
          /\ talk'[c].approved = talk[c].approved /\ talk'[c].closes = talk[c].closes
      BY <2>6, GotoTalk
    <2>8. talk[c].approved => \A a \in talk[c].at \cap Actions : Complete(c, a)
      BY <2>4 DEF TruthOf, AnswersFor
    <2>9. \A a \in Actions : AnswersFor(c, a)'
      BY <1>0, <2>7, <2>8, AnsweredStays
    <2> QED
      BY <2>5, <2>7, <2>9 DEF TruthOf, Early
  <1>5. CASE Thread!Look(c) \/ Thread!Insert(c)
    <2>1. talk[c].pc \in {"look", "insert"}
      BY <1>5 DEF Thread!Look, Thread!Insert
    <2>2. PICK l \in {"insert", "done"} : Thread!Goto(c, l)
      BY <1>5 DEF Thread!Look, Thread!Insert
    <2>3. /\ talk'[c].pc = l /\ talk'[c].at = talk[c].at
          /\ talk'[c].approved = talk[c].approved /\ talk'[c].closes = talk[c].closes
      BY <2>2, GotoTalk
    <2>4. talk[c].closes > 0 => approvals'[talk[c].closes] = approvals[talk[c].closes]
      <3>1. approvals \in Seq({"pending", "approved", "rejected"})
        BY DEF Parts, ThreadFacts!IInv, ThreadFacts!TypeOK
      <3>2. talk[c].closes \in 0..Len(approvals)
        BY DEF Parts, ThreadFacts!IInv, ThreadFacts!TypeOK
      <3>3. CASE Thread!Look(c)
        BY <3>3 DEF Thread!Look
      <3>4. CASE Thread!Insert(c)
        <4>1. approvals' = Append(approvals, "pending")
          BY <3>4 DEF Thread!Insert
        <4>2. talk[c].closes > 0 => talk[c].closes \in 1..Len(approvals)
          BY <3>1, <3>2
        <4> QED
          BY <3>1, <4>1, <4>2
      <3> QED
        BY <1>5, <3>3, <3>4
    <2>5. CASE talk[c].closes > 0
      <3>1. talk[c].approved => \A a \in talk[c].at \cap Actions : Complete(c, a)
        BY <2>5 DEF TruthOf, AnswersFor
      <3>2. \A a \in Actions : AnswersFor(c, a)'
        BY <1>0, <2>3, <3>1, AnsweredStays
      <3> QED
        BY <2>1, <2>3, <2>4, <3>2 DEF TruthOf, Early
    <2>6. CASE ~(talk[c].closes > 0)
      BY <2>3, <2>6 DEF TruthOf, AnswersFor, Early
    <2> QED
      BY <2>5, <2>6
  <1> QED
    BY <1>1, <1>2, <1>3, <1>4, <1>5 DEF ThreadStep

(* A step that a call takes for itself leaves its thread at the node, and what *)
(* the run waits for there of its other calls.                                 *)
LEMMA OneCallTruth ==
    ASSUME Parts, [Next]_vars, NEW c \in Conversations, NEW a \in Actions, TruthOf(c),
           UNCHANGED <<talk, approvals>>, AnswersFor(c, a)',
           \A b \in Actions \ {a} : req'[<<c, b>>] = req[<<c, b>>]
    PROVE  TruthOf(c)'
  <1>1. ASSUME NEW b \in Actions PROVE AnswersFor(c, b)'
    <2>1. CASE b = a
      BY <2>1
    <2>2. CASE b # a
      <3>1. AnswersFor(c, b)
        BY DEF TruthOf
      <3> QED
        BY <2>2, <3>1, StaysDone DEF AnswersFor
    <2> QED
      BY <2>1, <2>2
  <1> QED
    BY <1>1 DEF TruthOf

(* Calls do not disturb each other.                                            *)
LEMMA OtherCalls ==
    ASSUME Parts, NEW c \in Conversations, NEW a \in Actions,
           Reports!Step(<<c, a>>), NEW d \in Conversations, NEW b \in Actions,
           d # c \/ b # a
    PROVE  req'[<<d, b>>] = req[<<d, b>>]
  <1>1. PICK r \in Direct \cup Calls : r = <<c, a>>
    BY CallsAreCalls
  <1>2. PICK q \in Direct \cup Calls : q = <<d, b>>
    BY CallsAreCalls
  <1>3. Reports!Step(r) /\ q # r
    BY <1>1, <1>2
  <1>4. req'[q] = req[q]
    BY <1>3, ReportStepKeeps
  <1> QED
    BY <1>2, <1>4

(* A run that waits for the rest of a submission: the idempotency record       *)
(* follows the row and the audit.                                              *)
LEMMA QuietTruth ==
    ASSUME Parts, Linked, [Next]_vars, NEW c \in Conversations, NEW a \in Actions,
           TruthOf(c), Quiet(c, a)
    PROVE  TruthOf(c)'
  <1>1. UNCHANGED <<talk, approvals>> /\ talk[c].pc \in {"node", "commit"}
    BY DEF Quiet, threadVars
  <1>2. ~(talk[c].closes > 0)
    BY <1>1 DEF TruthOf
  <1>3. PICK r \in Direct \cup Calls : r = <<c, a>>
    BY CallsAreCalls
  <1>4. ASSUME UnderWay(c, a) PROVE UnderWay(c, a)'
    <2>1. req[r].pc # "unused" /\ req[r].pc # "get" /\ req[r].pc # "lookup"
      BY <1>3, <1>4 DEF UnderWay, Complete
    <2>2. \/ a = "submit_report" /\ Reports!Save(r)
          \/ Reports!Audit(r)
          \/ Reports!Remember(r)
      BY <1>3, <2>1 DEF Quiet, Reports!Get, Reports!Cleared
    <2>3. req[r].pc # "done"
      BY <2>2 DEF Reports!Save, Reports!Audit, Reports!Remember
    <2>4. a = "submit_report"
      BY <1>3, <1>4, <2>3 DEF UnderWay, Complete
    <2>5. req[r].kind = "submit"
      BY <1>3, <2>1, <2>4 DEF Linked, Kind
    <2>6. CASE Reports!Save(r) \/ Reports!Audit(r)
      <3>1. req'[r].pc \in {"audit", "remember"}
        BY <2>5, <2>6, ReqTyped
        DEF Reports!Save, Reports!Audit, Reports!Proceed, Reports!Goto, Reports!After,
            Reports!SubmitSteps, ReportFacts!RequestType
      <3> QED
        BY <1>3, <2>4, <3>1 DEF UnderWay
    <2>7. CASE Reports!Remember(r)
      <3>1. req'[r].pc = "done"
        BY <2>7, ReqTyped
        DEF Reports!Remember, Reports!SubmitSteps, ReportFacts!RequestType
      <3>2. req[r].employee \in Employees
        BY <2>1 DEF Parts, ReportFacts!IInv, ReportFacts!StepsOfKind
      <3>3. remembered' # None
        BY <2>7, <3>2, ApprovedSubmissionAssumption DEF Reports!Remember
      <3> QED
        BY <1>3, <2>4, <3>1, <3>3 DEF UnderWay, Complete
    <2> QED
      BY <2>2, <2>6, <2>7
  <1>5. AnswersFor(c, a)'
    <2>1. AnswersFor(c, a)
      BY DEF TruthOf
    <2> QED
      BY <1>1, <1>2, <1>4, <2>1 DEF AnswersFor
  <1>6. Reports!Step(<<c, a>>)
    BY CallSteps
  <1>7. \A b \in Actions \ {a} : req'[<<c, b>>] = req[<<c, b>>]
    BY <1>6, OtherCalls
  <1> QED
    BY <1>1, <1>5, <1>7, OneCallTruth

(* The write itself: the row of an audited review, the record of a submission  *)
(* that goes on to be remembered, or the answer of one that was.               *)
LEMMA EffectUnderWay ==
    ASSUME Parts, Linked, NEW c \in Conversations, NEW a \in Actions,
           \/ a = "review_report" /\ Reports!Save(<<c, a>>)
           \/ Reports!Submitted(<<c, a>>)
           \/ Reports!Replayed(<<c, a>>)
    PROVE  UnderWay(c, a)'
  <1>1. PICK r \in Direct \cup Calls : r = <<c, a>>
    BY CallsAreCalls
  <1>2. req[r].pc # "unused" => req[r].kind = Kind(a)
    BY <1>1 DEF Linked
  <1>3. CASE a = "review_report" /\ Reports!Save(r)
    <2>1. req[r].pc = "save" /\ req[r].kind = "review" /\ audit' = audit
      BY <1>2, <1>3 DEF Reports!Save, Kind
    <2>2. r \in audit
      BY <2>1 DEF Parts, ReportFacts!IInv, ReportFacts!ApprovalsReviewed
    <2>3. req'[r].pc = "done"
      BY <1>3, <2>1, ReqTyped
      DEF Reports!Save, Reports!Proceed, Reports!Goto, Reports!After,
          Reports!ReviewSteps, ReportFacts!RequestType
    <2> QED
      BY <1>1, <1>3, <2>1, <2>2, <2>3 DEF UnderWay, Complete
  <1>4. CASE Reports!Submitted(r)
    <2>1. req[r].pc = "connect" /\ req[r].kind = "submit"
      BY <1>4, ReqTyped DEF Reports!Submitted
    <2>2. a = "submit_report"
      BY <1>2, <2>1 DEF Kind, Actions
    <2>3. req'[r].pc = "save"
      BY <1>4, <2>1, ReqTyped
      DEF Reports!Submitted, Reports!Proceed, Reports!Goto, Reports!After,
          Reports!SubmitSteps, ReportFacts!RequestType
    <2> QED
      BY <1>1, <2>2, <2>3 DEF UnderWay
  <1>5. CASE Reports!Replayed(r)
    <2>1. req[r].pc = "lookup" /\ remembered # None /\ remembered' = remembered
      BY <1>5 DEF Reports!Replayed
    <2>2. req[r].kind = "submit"
      BY <2>1 DEF Parts, ReportFacts!IInv, ReportFacts!StepsOfKind
    <2>3. a = "submit_report"
      BY <1>2, <2>1, <2>2 DEF Kind, Actions
    <2>4. req'[r].pc = "done"
      BY <1>5, ReqTyped DEF Reports!Replayed, ReportFacts!RequestType
    <2> QED
      BY <1>1, <2>1, <2>3, <2>4 DEF UnderWay, Complete
  <1> QED
    BY <1>1, <1>3, <1>4, <1>5

LEMMA EffectTruth ==
    ASSUME Parts, Linked, [Next]_vars, NEW c \in Conversations, NEW a \in Actions,
           TruthOf(c), Effect(c, a), talkCalm'
    PROVE  TruthOf(c)'
  <1>1. /\ Thread!Written(c, a)
        /\ \/ a = "review_report" /\ Reports!Save(<<c, a>>)
           \/ Reports!Submitted(<<c, a>>)
           \/ Reports!Replayed(<<c, a>>)
    BY DEF Effect, Thread!WrittenRaised
  <1>2. UnderWay(c, a)'
    BY <1>1, EffectUnderWay
  <1>3. talk[c].pc = "node" /\ a \in talk[c].left /\ Thread!Finish(c, a)
    BY <1>1 DEF Thread!Written
  <1>4. ~(talk'[c].closes > 0) /\ talk'[c].at = talk[c].at
    BY <1>3, FinishTalk DEF TruthOf
  <1>5. \/ talk'[c].pc = "commit" /\ talk[c].left = {a}
        \/ talk'[c].pc = "node" /\ talk'[c].left = talk[c].left \ {a}
    BY <1>3, FinishTalk
  <1>6. ASSUME NEW b \in Actions PROVE AnswersFor(c, b)'
    <2>1. CASE b = a
      BY <1>2, <1>4, <1>5, <2>1 DEF AnswersFor
    <2>2. CASE b # a
      <3>1. req'[<<c, b>>] = req[<<c, b>>]
        BY <2>2, CallSteps, OtherCalls
      <3>2. talk'[c].approved = talk[c].approved
        BY <1>3, FinishTalk
      <3>3. AnswersFor(c, b)
        BY DEF TruthOf
      <3>4. UnderWay(c, b) => UnderWay(c, b)'
        BY <3>1, StaysDone
      <3>5. talk[c].approved /\ b \in talk[c].at => b \in talk[c].left \/ UnderWay(c, b)
        BY <1>3, <3>3 DEF AnswersFor
      <3> QED
        BY <1>4, <1>5, <2>2, <3>2, <3>4, <3>5 DEF AnswersFor
    <2> QED
      BY <2>1, <2>2
  <1> QED
    BY <1>4, <1>5, <1>6 DEF TruthOf, Early

(* A run that ends has waited for its calls, ...                               *)
LEMMA CommitTruth ==
    ASSUME Parts, NEW c \in Conversations, TruthOf(c), Commit(c)
    PROVE  TruthOf(c)'
  <1>1. /\ talk[c].pc = "commit" /\ ~Serving(c)
        /\ UNCHANGED req /\ [Next]_vars
    BY DEF Commit, Thread!Commit, reportVars, Next
  <1>2. ~(talk[c].closes > 0)
    BY <1>1 DEF TruthOf
  <1>3. PICK l \in {"decide", "look", "done"}, b \in BOOLEAN :
           talk' = [talk EXCEPT ![c] = [@ EXCEPT !.pc = l, !.interrupted = b]]
    <2>1. ASSUME NEW l, Thread!Goto(c, l)
          PROVE  talk' = [talk EXCEPT ![c] =
                            [@ EXCEPT !.pc = l, !.interrupted = talk[c].interrupted]]
      BY <2>1, TalkTyped DEF Thread!Goto, ThreadFacts!RequestType
    <2>2. \/ Thread!Goto(c, "decide") \/ Thread!Goto(c, "done")
          \/ \E l \in {"decide", "look"} :
                talk' = [talk EXCEPT ![c] = [@ EXCEPT !.pc = l, !.interrupted = TRUE]]
      BY DEF Commit, Thread!Commit
    <2>3. talk[c].interrupted \in BOOLEAN
      BY TalkTyped DEF ThreadFacts!RequestType
    <2> QED
      BY <2>1, <2>2, <2>3
  <1>4. /\ talk'[c].pc = l /\ talk'[c].at = talk[c].at
        /\ talk'[c].approved = talk[c].approved /\ talk'[c].closes = talk[c].closes
    BY <1>3, TalkTyped DEF ThreadFacts!RequestType
  <1>5. talk[c].approved => \A a \in talk[c].at \cap Actions : Complete(c, a)
    <2> SUFFICES ASSUME talk[c].approved, NEW a \in talk[c].at \cap Actions
                 PROVE  Complete(c, a)
      OBVIOUS
    <2>1. UnderWay(c, a)
      BY <1>1 DEF TruthOf, AnswersFor
    <2>2. ~Reports!Active(<<c, a>>)
      BY <1>1 DEF Serving
    <2> QED
      BY <2>1, <2>2 DEF UnderWay, Reports!Active, Reports!Steps
  <1>6. \A a \in Actions : AnswersFor(c, a)'
    BY <1>1, <1>4, <1>5, AnsweredStays
  <1> QED
    BY <1>2, <1>4, <1>6 DEF TruthOf, Early

(* ... one that failed closes nothing, ...                                     *)
LEMMA RaisedTruth ==
    ASSUME Parts, NEW c \in Conversations, TruthOf(c), Thread!Raised(c)
    PROVE  TruthOf(c)'
  <1>1. talk[c].pc = "node" /\ Thread!Goto(c, "done")
    BY DEF Thread!Raised
  <1>2. talk'[c].pc = "done" /\ ~(talk'[c].closes > 0)
    BY <1>1, GotoTalk DEF TruthOf
  <1> QED
    BY <1>2 DEF TruthOf, AnswersFor, Early

(* ... and a call that goes down with its run had not returned.                *)
LEMMA CancelledTruth ==
    ASSUME Parts, NEW c \in Conversations, NEW a \in Actions, TruthOf(c), Cancelled(c, a)
    PROVE  TruthOf(c)'
  <1>1. /\ UNCHANGED <<talk, approvals>> /\ [Next]_vars
        /\ talk[c].pc \notin {"node", "commit"}
    BY DEF Cancelled, threadVars, Next
  <1>2. ~Complete(c, a)
    BY DEF Cancelled, Reports!Crash, Reports!Active, Reports!Steps, Complete
  <1>3. AnswersFor(c, a)'
    <2>1. AnswersFor(c, a)
      BY DEF TruthOf
    <2> QED
      BY <1>1, <1>2, <2>1 DEF AnswersFor
  <1>4. \A b \in Actions \ {a} : req'[<<c, b>>] = req[<<c, b>>]
    <2>1. Reports!Step(<<c, a>>)
      BY CallSteps
    <2> QED
      BY <2>1, OtherCalls
  <1> QED
    BY <1>1, <1>3, <1>4, OneCallTruth

(* A call that comes is for a write that is still to be made.                  *)
LEMMA CallTruth ==
    ASSUME Parts, NEW c \in Conversations, NEW a \in Actions, TruthOf(c), Call(c, a)
    PROVE  TruthOf(c)'
  <1>1. /\ UNCHANGED <<talk, approvals>> /\ [Next]_vars
        /\ talk[c].pc = "node" /\ a \in talk[c].left
    BY DEF Call, threadVars, Next
  <1>2. ~(talk[c].closes > 0)
    BY <1>1 DEF TruthOf
  <1>3. AnswersFor(c, a)'
    BY <1>1, <1>2 DEF AnswersFor
  <1>4. \A b \in Actions \ {a} : req'[<<c, b>>] = req[<<c, b>>]
    <2>1. Reports!Step(<<c, a>>)
      BY CallSteps
    <2> QED
      BY <2>1, OtherCalls
  <1> QED
    BY <1>1, <1>3, <1>4, OneCallTruth

-----------------------------------------------------------------------------
(* What a conversation does to its own answers, ...                            *)
LEMMA OwnTruth ==
    ASSUME Parts, Linked, ThreadFacts!CalmInv, talkCalm, talkCalm', [Next]_vars,
           NEW c \in Conversations, NEW a \in Actions, TruthOf(c),
           \/ ThreadStep(c) \/ NotResumed(c) \/ Commit(c) \/ CutShort(c)
           \/ Call(c, a) \/ NotPermitted(c, a) \/ Quiet(c, a) \/ Effect(c, a)
           \/ NoEffect(c, a) \/ Cancelled(c, a)
    PROVE  TruthOf(c)'
  <1>1. CASE ThreadStep(c)
    BY <1>1, ThreadStepTruth
  <1>2. CASE NotResumed(c) \/ NotPermitted(c, a) \/ NoEffect(c, a)
    BY <1>2, RaisedTruth DEF NotResumed, NotPermitted, NoEffect
  <1>3. CASE Commit(c)
    BY <1>3, CommitTruth
  <1>4. CASE CutShort(c)
    BY <1>4 DEF CutShort, Thread!Timeout, Thread!Crash
  <1>5. CASE Call(c, a)
    BY <1>5, CallTruth
  <1>6. CASE Quiet(c, a)
    BY <1>6, QuietTruth
  <1>7. CASE Effect(c, a)
    BY <1>7, EffectTruth
  <1>8. CASE Cancelled(c, a)
    BY <1>8, CancelledTruth
  <1> QED
    BY <1>1, <1>2, <1>3, <1>4, <1>5, <1>6, <1>7, <1>8

(* ... and that it leaves those of the others alone.                           *)
LEMMA ConversationKeepsTruth ==
    ASSUME Parts, Linked, ThreadFacts!CalmInv, Truth, talkCalm', [Next]_vars,
           NEW c \in Conversations, NEW a \in Actions,
           \/ ThreadStep(c) \/ NotResumed(c) \/ Commit(c) \/ CutShort(c)
           \/ Call(c, a) \/ NotPermitted(c, a) \/ Quiet(c, a) \/ Effect(c, a)
           \/ NoEffect(c, a) \/ Cancelled(c, a)
    PROVE  \A d \in Conversations : TruthOf(d)'
  <1>1. ThreadMove(c) \/ UNCHANGED threadVars
    <2>1. CASE Effect(c, a)
      BY <2>1, EffectIs
    <2>2. CASE ThreadStep(c) \/ NotResumed(c) \/ Commit(c) \/ CutShort(c)
      BY <2>2 DEF ThreadStep, NotResumed, Commit, CutShort, ThreadMove
    <2>3. CASE NotPermitted(c, a) \/ NoEffect(c, a)
      BY <2>3 DEF NotPermitted, NoEffect, ThreadMove
    <2>4. CASE Call(c, a) \/ Quiet(c, a) \/ Cancelled(c, a)
      BY <2>4 DEF Call, Quiet, Cancelled
    <2> QED
      BY <2>1, <2>2, <2>3, <2>4
  <1>2. Reports!Step(<<c, a>>) \/ UNCHANGED req
    <2>1. CASE \/ Call(c, a) \/ Quiet(c, a) \/ Effect(c, a) \/ NoEffect(c, a)
               \/ Cancelled(c, a)
      BY <2>1, CallSteps
    <2>2. CASE ThreadStep(c) \/ NotResumed(c) \/ Commit(c) \/ CutShort(c)
      BY <2>2 DEF ThreadStep, NotResumed, Commit, CutShort, reportVars
    <2>3. CASE NotPermitted(c, a)
      BY <2>3 DEF NotPermitted, reportVars
    <2> QED
      BY <2>1, <2>2, <2>3
  <1>3. talkCalm
    BY <1>1, ThreadMoveCalm DEF threadVars
  <1>4. \A d \in Conversations : TruthOf(d)
    BY <1>3 DEF Truth
  <1>5. ASSUME NEW d \in Conversations, d # c PROVE TruthOf(d)'
    <2>1. talk'[d] = talk[d]
      BY <1>1, <1>5, ThreadMoveKeeps DEF threadVars
    <2>2. \A b \in Actions : req'[<<d, b>>] = req[<<d, b>>]
      BY <1>2, <1>5, OtherCalls
    <2>3. \A i \in 1..Len(approvals) :
             approvals[i] # "pending" => approvals'[i] = approvals[i]
      BY <1>1, <1>3, DecisionsStay DEF threadVars
    <2> QED
      BY <1>4, <2>1, <2>2, <2>3, OthersKeepTruth
  <1>6. TruthOf(c)'
    BY <1>3, <1>4, OwnTruth
  <1> QED
    BY <1>5, <1>6

LEMMA DirectKeepsTruth ==
    ASSUME Parts, Truth, talkCalm', [Next]_vars, NEW r \in Direct, DirectStep(r)
    PROVE  \A d \in Conversations : TruthOf(d)'
  <1>1. UNCHANGED <<talk, approvals, talkCalm>> /\ Reports!Step(r)
    BY DEF DirectStep, threadVars
  <1>2. \A q \in Calls : req'[q] = req[q]
    BY <1>1, CallsAreCalls, ReportStepKeeps
  <1>3. \A d \in Conversations, b \in Actions : req'[<<d, b>>] = req[<<d, b>>]
    BY <1>2, CallsAreCalls
  <1>4. \A d \in Conversations : TruthOf(d)
    BY <1>1 DEF Truth
  <1> QED
    BY <1>1, <1>3, <1>4, OthersKeepTruth

LEMMA NextKeepsTruth ==
    ASSUME Parts, Linked, ThreadFacts!CalmInv, Truth, [Next]_vars
    PROVE  Truth'
  <1> SUFFICES ASSUME talkCalm' PROVE \A d \in Conversations : TruthOf(d)'
    BY DEF Truth
  <1>1. CASE UNCHANGED vars
    <2>1. UNCHANGED <<talk, approvals, talkCalm, req, remembered, audit>>
      BY <1>1 DEF vars, reportVars, threadVars
    <2> QED
      BY <2>1 DEF Truth, TruthOf, AnswersFor, Complete, UnderWay
  <1>2. ASSUME NEW r \in Direct, DirectStep(r)
        PROVE  \A d \in Conversations : TruthOf(d)'
    BY <1>2, DirectKeepsTruth
  <1>3. ASSUME NEW c \in Conversations, NEW a \in Actions,
               \/ ThreadStep(c) \/ NotResumed(c) \/ Commit(c) \/ CutShort(c)
               \/ Call(c, a) \/ NotPermitted(c, a) \/ Quiet(c, a) \/ Effect(c, a)
               \/ NoEffect(c, a) \/ Cancelled(c, a)
        PROVE  \A d \in Conversations : TruthOf(d)'
    BY <1>3, ConversationKeepsTruth
  <1>4. "submit_report" \in Actions
    BY DEF Actions
  <1> QED
    BY <1>1, <1>2, <1>3, <1>4 DEF Next

(* What a closed record says is what was done.                                 *)
LEMMA TruthShows ==
    ASSUME Parts, Linked, ThreadFacts!CalmInv, Truth
    PROVE  CalmApprovalsTellTheTruth
  <1> SUFFICES ASSUME talkCalm, NEW c \in Conversations, NEW a \in Actions,
                      talk[c].closes > 0, a \in talk[c].at
               PROVE  /\ approvals[talk[c].closes] = "rejected" =>
                            req[<<c, a>>].pc = "unused"
                      /\ approvals[talk[c].closes] = "approved" =>
                            /\ a = "submit_report" => remembered \in records
                            /\ a = "review_report" => <<c, a>> \in audit
    BY DEF CalmApprovalsTellTheTruth
  <1>1. CASE talk[c].pc = "close"
    BY <1>1, ClosesPending
  <1>2. CASE talk[c].pc # "close"
    <2>1. TruthOf(c)
      BY DEF Truth
    <2>2. approvals[talk[c].closes] = IF talk[c].approved THEN "approved" ELSE "rejected"
      BY <1>2, <2>1 DEF TruthOf
    <2>3. talk[c].approved => Complete(c, a)
      BY <2>1 DEF TruthOf, AnswersFor
    <2>4. req[<<c, a>>].pc # "unused" => talk[c].approved
      BY DEF Linked
    <2>5. remembered # None => remembered \in records
      BY DEF Parts, ReportFacts!IInv, ReportFacts!RecordsMade
    <2> QED
      BY <2>2, <2>3, <2>4, <2>5 DEF Complete
  <1> QED
    BY <1>1, <1>2

(* As long as conversations come one at a time and none is cut short or fails  *)
(* with some of its writes made, whatever the HTTP routes do beside them, a    *)
(* rejected approval means that the service was not called, an approved one,   *)
(* of each of the writes that were pending, that the report was submitted and  *)
(* remembered, or its review audited.                                          *)
THEOREM ApprovalsTellTheTruth == Spec => []CalmApprovalsTellTheTruth
  <1>1. Init => Truth
    BY DEF Init, Thread!Init, Thread!Unused, Truth, TruthOf, AnswersFor, Early
  <1>2. Parts /\ Linked /\ ThreadFacts!CalmInv /\ Truth /\ [Next]_vars => Truth'
    BY NextKeepsTruth
  <1>3. Parts /\ Linked /\ ThreadFacts!CalmInv /\ Truth => CalmApprovalsTellTheTruth
    BY TruthShows
  <1>4. Spec => []ThreadFacts!CalmInv
    <2>1. Spec => ThreadFacts!Spec
      BY CompositionImplementsThread, SameThread, PTL
      DEF ImplementsThread, Thread!Spec, ThreadFacts!Spec
    <2>2. ThreadFacts!Spec => []ThreadFacts!CalmInv
      BY ThreadFacts!CalmInvariantHolds, ThreadAssumption, PTL
    <2> QED
      BY <2>1, <2>2, PTL
  <1>5. Links => Linked
    BY DEF Links
  <1>6. Spec => []Parts /\ []Linked
    BY <1>5, PartsHold, LinksHold, PTL
  <1> QED
    BY <1>1, <1>2, <1>3, <1>4, <1>6, PTL DEF Spec

=============================================================================
