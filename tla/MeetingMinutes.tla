---------------------------- MODULE MeetingMinutes ----------------------------
(* The minutes of one meeting: generated (and generated again), reviewed,      *)
(* mailed, and quoted by work reports.  As with reports, a request works on a  *)
(* copy of the row and writes it back whole; unlike a report, the row can get  *)
(* new content under the same meeting_id at any time.                          *)
(*                                                                             *)
(* Content is a number, the how-manieth generation it is.  The mail system is  *)
(* external: it sends one message per idempotency key, and the key names       *)
(* tenant and meeting only.  Requests that lack their scope are left out.      *)
EXTENDS Naturals

CONSTANTS
    Requests,       \* the requests that can be served at a time
    MaxRequests,    \* bound: requests served in all
    None

Statuses == {"draft", "approved", "rejected", "sent"}

ASSUME MeetingMinutesAssumption ==
    /\ MaxRequests \in Nat
    /\ None \notin Statuses \cup {"generate", "review", "send"}

VARIABLES
    row,          \* status and content of the minutes; content 0: no row
    generated,    \* contents generated so far
    mailed,       \* the content the mail system sent for the meeting, 0 if none
    remembered,   \* whether the idempotency record exists
    audit,        \* the entries of the audit services
    req,          \* the requests being served
    served,       \* requests that came so far
    calm          \* history: no requests overlapped and none was cut short

vars == <<row, generated, mailed, remembered, audit, req, served, calm>>

\* Mutant: the review is saved before it is audited.
ReviewSavesFirst == [get |-> "save", save |-> "audit", audit |-> "idle"]

\* Mutant: the idempotency record is not looked up.
SendUnchecked ==
    [start |-> "get", lookup |-> "get", get |-> "connect",
     connect |-> "save", save |-> "audit", audit |-> "remember", remember |-> "idle"]

(* The calls of MeetingMinutesService.generate, review and send: what comes    *)
(* after each.                                                                 *)
GenerateSteps == [save |-> "idle"]

ReviewSteps == [get |-> "audit", audit |-> "save", save |-> "idle"]

SendSteps ==
    [start |-> "lookup", lookup |-> "get", get |-> "connect",
     connect |-> "save", save |-> "audit", audit |-> "remember", remember |-> "idle"]

After(kind, l) == CASE kind = "generate" -> GenerateSteps[l]
                    [] kind = "review"   -> ReviewSteps[l]
                    [] kind = "send"     -> SendSteps[l]

Steps == {"get", "lookup", "connect", "save", "audit", "remember"}

Active(r) == req[r].pc \in Steps

NoRow == [status |-> None, content |-> 0]

Idle == [pc |-> "idle", kind |-> None, approved |-> FALSE,
         copy |-> NoRow]      \* the request's copy of the row

Proceed(r) ==
    LET l == After(req[r].kind, req[r].pc)
    IN  req' = [req EXCEPT ![r] = IF l = "idle" THEN Idle ELSE [@ EXCEPT !.pc = l]]

Finish(r) == req' = [req EXCEPT ![r] = Idle]

-----------------------------------------------------------------------------
Init ==
    /\ row = NoRow
    /\ generated = 0
    /\ mailed = 0
    /\ remembered = FALSE
    /\ audit = {}
    /\ req = [r \in Requests |-> Idle]
    /\ served = 0
    /\ calm = TRUE

(* A generation composes its draft from the request alone.                     *)
Start(r) ==
    /\ req[r].pc = "idle"
    /\ served < MaxRequests
    /\ served' = served + 1
    /\ \/ /\ generated' = generated + 1
          /\ req' = [req EXCEPT ![r] = [@ EXCEPT !.pc = "save", !.kind = "generate",
                           !.copy = [status |-> "draft", content |-> generated + 1]]]
       \/ /\ \E yes \in BOOLEAN :
                req' = [req EXCEPT ![r] = [@ EXCEPT !.pc = "get", !.kind = "review",
                                                    !.approved = yes]]
          /\ UNCHANGED generated
       \/ /\ req' = [req EXCEPT ![r] = [@ EXCEPT !.pc = SendSteps.start, !.kind = "send"]]
          /\ UNCHANGED generated
    /\ calm' = (calm /\ \A q \in Requests : ~Active(q))
    /\ UNCHANGED <<row, mailed, remembered, audit>>

(* A meeting that was sent is answered from its idempotency record, before the *)
(* row is looked at.                                                           *)
Lookup(r) ==
    /\ req[r].pc = "lookup"
    /\ IF remembered THEN Finish(r) ELSE Proceed(r)
    /\ UNCHANGED <<row, generated, mailed, remembered, audit, served, calm>>

(* No row ends the request; so does, for send, a copy that is not approved or  *)
(* that the sensitive-data check refuses.                                      *)
Get(r) ==
    /\ req[r].pc = "get"
    /\ \/ /\ row.content # 0
          /\ req[r].kind = "send" => row.status = "approved"
          /\ req' = [req EXCEPT ![r] = [@ EXCEPT !.copy = row,
                                                 !.pc = After(req[r].kind, "get")]]
       \/ /\ row.content = 0 \/ req[r].kind = "send"
          /\ Finish(r)
    /\ UNCHANGED <<row, generated, mailed, remembered, audit, served, calm>>

\* Mutant: the key names the content as well.
MailEachContent(r) == mailed' = req[r].copy.content

(* send_email of the connector: a key that is known already is answered with   *)
(* the message it got then.                                                    *)
Mail(r) == mailed' = IF mailed = 0 THEN req[r].copy.content ELSE mailed

(* The connector may be unavailable, and its answer may be lost after the mail *)
(* went out.                                                                   *)
Connect(r) ==
    /\ req[r].pc = "connect"
    /\ \/ Mail(r) /\ Proceed(r) /\ UNCHANGED calm
       \/ UNCHANGED mailed /\ Finish(r) /\ UNCHANGED calm
       \/ Mail(r) /\ Finish(r) /\ calm' = FALSE
    /\ UNCHANGED <<row, generated, remembered, audit, served>>

Saved(r) ==
    [content |-> req[r].copy.content,
     status  |-> CASE req[r].kind = "generate" -> "draft"
                   [] req[r].kind = "review"   -> IF req[r].approved THEN "approved"
                                                                     ELSE "rejected"
                   [] req[r].kind = "send"     -> "sent"]

\* Mutant: new content for a known meeting keeps the status of the row.
SavePayloadOnly(r) ==
    /\ req[r].pc = "save"
    /\ row' = IF req[r].kind = "generate" /\ row.content # 0
              THEN [row EXCEPT !.content = req[r].copy.content]
              ELSE Saved(r)
    /\ Proceed(r)
    /\ UNCHANGED <<generated, mailed, remembered, audit, served, calm>>

(* The row takes the copy, content and status, whatever it holds by now.       *)
Save(r) ==
    /\ req[r].pc = "save"
    /\ row' = Saved(r)
    /\ Proceed(r)
    /\ UNCHANGED <<generated, mailed, remembered, audit, served, calm>>

(* An entry in the log of the audit service the request was given: the table   *)
(* for the agent, a list in the memory of the process for the HTTP routes.     *)
Audit(r) ==
    /\ req[r].pc = "audit"
    /\ audit' = audit \cup {[action   |-> req[r].kind,
                            approved |-> req[r].approved,
                            content  |-> req[r].copy.content]}
    /\ Proceed(r)
    /\ UNCHANGED <<row, generated, mailed, remembered, served, calm>>

(* The first result stays under the unique constraint; as the connector gave   *)
(* every request the same message, all results are the same.                   *)
Remember(r) ==
    /\ req[r].pc = "remember"
    /\ remembered' = TRUE
    /\ Proceed(r)
    /\ UNCHANGED <<row, generated, mailed, audit, served, calm>>

(* The process ends, or one of the stores cannot be written.                   *)
Crash(r) ==
    /\ Active(r)
    /\ Finish(r)
    /\ calm' = FALSE
    /\ UNCHANGED <<row, generated, mailed, remembered, audit, served>>

Next == \E r \in Requests :
    \/ Start(r)
    \/ Lookup(r)
    \/ Get(r)
    \/ Connect(r)
    \/ Save(r)
    \/ Audit(r)
    \/ Remember(r)
    \/ Crash(r)

Spec == Init /\ [][Next]_vars

-----------------------------------------------------------------------------
Approved(c) ==
    \E x \in audit : x.action = "review" /\ x.approved /\ x.content = c

(* What is mailed was approved: the very content that goes out was in front of *)
(* a review that went through the audit service, however often the minutes     *)
(* were generated again in between and whichever copies overwrote each other.  *)
MailedWasApproved == mailed # 0 => Approved(mailed)

(* What work reports may quote (list_for_report takes approved and sent        *)
(* minutes) is content that was approved, by a review that was audited.        *)
QuotableWasApproved ==
    row.status \in {"approved", "sent"} => Approved(row.content)

(* While requests come one at a time and none is cut short, minutes marked as  *)
(* sent are the minutes that were mailed, also after they were generated and   *)
(* approved again.                                                             *)
CalmSentIsMailed == calm /\ row.status = "sent" => row.content = mailed

-----------------------------------------------------------------------------
Quotable == IF row.status \in {"approved", "sent"} THEN row.content ELSE 0

ApprovedContents ==
    {x.content : x \in {x \in audit : x.action = "review" /\ x.approved}}

Outcome == INSTANCE MinutesOutcome WITH approved <- ApprovedContents, quotable <- Quotable

(* Seen through the mail system, the audit log and what reports may quote,     *)
(* generations, reviews and sendings that overlap, overwrite each other and    *)
(* are cut short do no more than approve contents, mail one of those, once,    *)
(* and let approved contents be quoted.                                        *)
ImplementsOutcome == Outcome!Spec

=============================================================================
