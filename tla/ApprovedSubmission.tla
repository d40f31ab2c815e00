-------------------------- MODULE ApprovedSubmission --------------------------
(* AssistantThread and ReportSubmission composed.  The nodes review_report and *)
(* submit_report of the report agent call ReportService inside a resumed run,  *)
(* beside the HTTP routes that call it directly: a call walks through its      *)
(* stores while the run that made it may time out or fail, and what the call   *)
(* has done stays done.                                                        *)
(*                                                                             *)
(* A conversation is a request of AssistantThread; each of the calls its run    *)
(* makes, one for each write that was pending, is a request of                 *)
(* ReportSubmission, named by the conversation and the action.                 *)
EXTENDS Naturals, FiniteSets

CONSTANTS
    Direct,         \* requests to the routes /reports/{id}/review and /submit
    Conversations,  \* requests to /assistant/invoke and /assistant/{id}/resume
    MaxClients,     \* bound: how many of these requests come
    Employees,
    StopSets,       \* the sets of actions that can be pending at one stop
    ScopeSets,      \* the sets of scopes the operators of conversations come with
    None

Actions == {"review_report", "submit_report"}

Calls == Conversations \X Actions

VARIABLES
    status, records, remembered, audit, req, calm,       \* of ReportSubmission
    graph, stops, approvals, talk, writes, talkCalm      \* of AssistantThread

ASSUME ApprovedSubmissionAssumption ==
    /\ Direct \cap Calls = {}
    /\ MaxClients \in Nat
    /\ \A p \in StopSets : p \subseteq Actions /\ p # {}
    /\ None \notin Employees \cup {"review_report", "submit_report", "review", "submit",
                                   "draft", "approved", "rejected", "submitted"}
    /\ \A s \in ScopeSets : s \subseteq {"report:review", "report:submit",
                                         "assistant:review"}

(* _required_scope, and what the service itself asks for.                      *)
Scope == [a \in Actions |-> IF a = "review_report" THEN "report:review"
                                                   ELSE "report:submit"]

AnyScope == "assistant:review"

Reports == INSTANCE ReportSubmission WITH Requests <- Direct \cup Calls

Thread == INSTANCE AssistantThread WITH Requests <- Conversations, req <- talk,
                                        calm <- talkCalm

reportVars == <<status, records, remembered, audit, req, calm>>
threadVars == <<graph, stops, approvals, talk, writes, talkCalm>>
vars == <<reportVars, threadVars>>

Init == Reports!Init /\ Thread!Init

-----------------------------------------------------------------------------
Clients == {r \in Direct : req[r].pc # "unused"}
             \cup {c \in Conversations : talk[c].pc # "unused"}

OneMore == Cardinality(Clients) < MaxClients

(* A request to one of the report routes.                                      *)
DirectStep(r) ==
    /\ req[r].pc = "unused" => OneMore
    /\ Reports!Step(r)
    /\ UNCHANGED threadVars

(* The run of the conversation waits for one of its calls.                     *)
Serving(c) == \E a \in Actions : Reports!Active(<<c, a>>)

(* What a conversation does without the service.                               *)
ThreadStep(c) ==
    /\ ~Serving(c)
    /\ \/ OneMore /\ Thread!Start(c)
       \/ Thread!Gate(c)
       \/ Thread!CheckScope(c)
       \/ Thread!Load(c)
       \/ Thread!Rejected(c)
       \/ Thread!Decide(c)
       \/ Thread!Close(c)
       \/ Thread!Look(c)
       \/ Thread!Insert(c)
    /\ UNCHANGED reportVars

(* The request a node makes of the service.                                    *)
Kind(a) == IF a = "review_report" THEN "review" ELSE "submit"

(* A node calls review or submit of the service, which checks the scope first  *)
(* and does nothing without it.  For a review the task says what the review is *)
(* to record; the decision only says whether it is made.                       *)
Call(c, a) ==
    /\ talk[c].pc = "node"
    /\ talk[c].approved
    /\ a \in talk[c].left
    /\ Scope[a] \in talk[c].scopes
    /\ \E employee \in Employees, yes \in BOOLEAN :
          Reports!Begin(<<c, a>>, Kind(a), employee, yes)
    /\ UNCHANGED threadVars

NotPermitted(c, a) ==
    /\ talk[c].approved
    /\ a \in talk[c].left
    /\ Scope[a] \notin talk[c].scopes
    /\ Thread!Raised(c)
    /\ UNCHANGED reportVars

(* The graph runtime does not take one decision for several interrupts.        *)
NotResumed(c) ==
    /\ Thread!Several(talk[c].at)
    /\ \A a \in Actions : req[<<c, a>>].pc = "unused"
    /\ Thread!Raised(c)
    /\ UNCHANGED reportVars

(* The steps of a call that leave the thread where it is: its controlled write *)
(* is still to come, or is made.                                               *)
Quiet(c, a) ==
    /\ talk[c].pc \in {"node", "commit"}
    /\ \/ Reports!Get(<<c, a>>)
       \/ Reports!Cleared(<<c, a>>)
       \/ Reports!Audit(<<c, a>>)
       \/ a = "submit_report" /\ Reports!Save(<<c, a>>)
       \/ Reports!Remember(<<c, a>>)
    /\ UNCHANGED threadVars

\* Mutant: a submission counts as made when its row is saved.
EffectAtSave(c, a) ==
    \/ Reports!Save(<<c, a>>) /\ Thread!Written(c, a)
    \/ Reports!Submitted(<<c, a>>) /\ UNCHANGED threadVars
    \/ Reports!Replayed(<<c, a>>) /\ Thread!Written(c, a)
    \/ Reports!AnswerLost(<<c, a>>) /\ Thread!WrittenRaised(c, a)

(* The controlled write takes effect: a review with its row, a submission with *)
(* the record in the report system or with the answer of an earlier one.       *)
Effect(c, a) ==
    \/ a = "review_report" /\ Reports!Save(<<c, a>>) /\ Thread!Written(c, a)
    \/ Reports!Submitted(<<c, a>>) /\ Thread!Written(c, a)
    \/ Reports!Replayed(<<c, a>>) /\ Thread!Written(c, a)
    \/ Reports!AnswerLost(<<c, a>>) /\ Thread!WrittenRaised(c, a)

\* Mutant: a failure of the service ends the node like a rejection.
NoEffectCaught(c, a) ==
    /\ talk[c].pc = "node"
    /\ Reports!Refused(<<c, a>>) \/ Reports!Unavailable(<<c, a>>)
    /\ Thread!Goto(c, "commit")
    /\ UNCHANGED <<graph, stops, approvals, writes, talkCalm>>

(* The call raises before it has done anything, and nothing in the run catches *)
(* it: the resume ends with an error.                                          *)
NoEffect(c, a) ==
    /\ Reports!Refused(<<c, a>>) \/ Reports!Unavailable(<<c, a>>)
    /\ Thread!Raised(c)

(* The nodes and the run end when the calls have returned.                     *)
Commit(c) ==
    /\ ~Serving(c)
    /\ Thread!Commit(c)
    /\ UNCHANGED reportVars

(* asyncio.timeout cancels the run, the process ends, the client goes away, or *)
(* a store fails a call, which ends the run that made it.                      *)
CutShort(c) ==
    /\ Thread!Timeout(c) \/ Thread!Crash(c)
    /\ UNCHANGED reportVars

(* A run that has ended takes the calls with it that it was waiting for.       *)
Cancelled(c, a) ==
    /\ talk[c].pc \notin {"node", "commit"}
    /\ Reports!Crash(<<c, a>>)
    /\ UNCHANGED threadVars

Next ==
    \/ \E r \in Direct : DirectStep(r)
    \/ \E c \in Conversations :
          \/ ThreadStep(c)
          \/ NotResumed(c)
          \/ Commit(c)
          \/ CutShort(c)
          \/ \E a \in Actions : \/ Call(c, a)
                               \/ NotPermitted(c, a)
                               \/ Quiet(c, a)
                               \/ Effect(c, a)
                               \/ NoEffect(c, a)
                               \/ Cancelled(c, a)

Spec == Init /\ [][Next]_vars

-----------------------------------------------------------------------------
(* The composition implements both of its parts: whatever a call does between  *)
(* the stores, the thread sees a node that wrote, wrote nothing or raised, and *)
(* the reports see one more request.  What is proved of AssistantThread alone  *)
(* therefore holds of the submissions really made.                             *)
ImplementsThread == Thread!Spec

ImplementsReports == Reports!Spec

(* Every record in the report system is accounted for: an employee submitted   *)
(* it over HTTP, or a write is on record of a conversation that found its      *)
(* approval pending and whose operator may submit, also when the run that made *)
(* it timed out, crashed or lost the answer.                                   *)
RecordsAccountedFor ==
    \A employee \in records :
        \/ \E r \in Direct : req[r].kind = "submit" /\ req[r].employee = employee
        \/ \E w \in writes : /\ w.action = "submit_report"
                             /\ req[<<w.by, w.action>>].employee = employee
                             /\ talk[w.by].approved /\ talk[w.by].record > 0
                             /\ "report:submit" \in talk[w.by].scopes

(* As long as conversations come one at a time and none is cut short or fails  *)
(* with some of its writes made, whatever the HTTP routes do beside them, a    *)
(* closed approval tells what was done: a rejected one that the service was    *)
(* not called, an approved one, of each of the writes that were pending, that  *)
(* the report was submitted and remembered, or its review audited.             *)
CalmApprovalsTellTheTruth ==
    talkCalm => \A c \in Conversations, a \in Actions :
        talk[c].closes > 0 /\ a \in talk[c].at =>
            CASE approvals[talk[c].closes] = "rejected" -> req[<<c, a>>].pc = "unused"
              [] approvals[talk[c].closes] = "approved" /\ a = "submit_report" ->
                    remembered \in records
              [] approvals[talk[c].closes] = "approved" /\ a = "review_report" ->
                    <<c, a>> \in audit
              [] OTHER -> TRUE

(* One approval stands behind one submission: no record of the report beside   *)
(* another was made on the same approval.                                      *)
OneSubmissionPerApproval ==
    \A w, x \in writes :
        LET key == req[<<w.by, w.action>>].employee
            other == req[<<x.by, x.action>>].employee
        IN  /\ w.action = "submit_report" /\ x.action = "submit_report"
            /\ talk[w.by].record = talk[x.by].record
            /\ {key, other} \subseteq records
            => key = other

=============================================================================
