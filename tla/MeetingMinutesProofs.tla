------------------------- MODULE MeetingMinutesProofs -------------------------
(* Proofs about MeetingMinutes, for any number of requests: what is mailed and *)
(* what may be quoted was approved, however generations, reviews and sendings  *)
(* overlap; and, of requests that come one at a time, that minutes marked as   *)
(* sent are those that were mailed.                                            *)
EXTENDS MeetingMinutes, TLAPS

RowType == [status : Statuses \cup {None}, content : Nat]

RequestType ==
    [pc : Steps \cup {"idle"}, kind : {None, "generate", "review", "send"},
     approved : BOOLEAN, copy : RowType]

Typed ==
    /\ row \in RowType
    /\ generated \in Nat
    /\ mailed \in Nat
    /\ remembered \in BOOLEAN
    /\ req \in [Requests -> RequestType]
    /\ calm \in BOOLEAN

(* A request keeps to the steps of its kind.                                   *)
StepsOfKind ==
    \A r \in Requests :
        /\ req[r].pc = "idle" <=> req[r].kind = None
        /\ req[r].pc \in {"lookup", "connect", "remember"} => req[r].kind = "send"
        /\ req[r].kind = "generate" => req[r].pc = "save"

(* A row that has been written, and a copy that was read or composed, has      *)
(* content.                                                                    *)
ContentExists ==
    /\ row.status = "sent" => row.content # 0
    /\ \A r \in Requests :
          req[r].pc \in {"connect", "save", "audit", "remember"} => req[r].copy.content # 0

(* Whoever is about to mail content, or to write it back as approved or sent,  *)
(* has a review of that very content in the audit log.                         *)
CopiesApproved ==
    \A r \in Requests :
        /\ req[r].kind = "send" /\ req[r].pc \in {"connect", "save", "audit", "remember"}
              => Approved(req[r].copy.content)
        /\ req[r].kind = "review" /\ req[r].pc = "save" /\ req[r].approved
              => Approved(req[r].copy.content)

(* While requests come one at a time and none is cut short, mail that went out *)
(* is remembered, or about to be; nobody gets to the mail system a second      *)
(* time; and what is written back as sent is what was mailed.                  *)
CalmInv ==
    calm =>
        /\ \A q, r \in Requests : Active(q) /\ Active(r) => q = r
        /\ mailed # 0 /\ ~remembered =>
              \E r \in Requests : /\ req[r].kind = "send"
                                 /\ req[r].pc \in {"save", "audit", "remember"}
        /\ \A r \in Requests :
              /\ req[r].pc = "get" /\ req[r].kind = "send" => mailed = 0
              /\ req[r].pc = "connect" => mailed = 0
              /\ req[r].pc = "save" /\ req[r].kind = "send"
                    => req[r].copy.content = mailed
        /\ CalmSentIsMailed

IInv == /\ Typed
        /\ StepsOfKind
        /\ ContentExists
        /\ CopiesApproved
        /\ MailedWasApproved
        /\ QuotableWasApproved

-----------------------------------------------------------------------------
(* The order of the steps, read off the three records.                         *)
LEMMA StepOrder ==
    /\ After("generate", "save") = "idle"
    /\ After("review", "get") = "audit"
    /\ After("review", "audit") = "save"
    /\ After("review", "save") = "idle"
    /\ SendSteps.start = "lookup"
    /\ After("send", "lookup") = "get"
    /\ After("send", "get") = "connect"
    /\ After("send", "connect") = "save"
    /\ After("send", "save") = "audit"
    /\ After("send", "audit") = "remember"
    /\ After("send", "remember") = "idle"
  BY DEF After, GenerateSteps, ReviewSteps, SendSteps

LEMMA IdleTyped == Idle \in RequestType /\ NoRow \in RowType
  BY DEF Idle, NoRow, RequestType, RowType

(* What a request is after Proceed: idle, or itself at its next step.          *)
LEMMA ProceedIs ==
    ASSUME Typed, NEW r \in Requests, Proceed(r),
           NEW l \in Steps \cup {"idle"}, l = After(req[r].kind, req[r].pc)
    PROVE  \E new \in RequestType :
              /\ req' = [req EXCEPT ![r] = new]
              /\ l = "idle" => new = Idle
              /\ l # "idle" => /\ new.pc = l
                               /\ new.kind = req[r].kind
                               /\ new.approved = req[r].approved
                               /\ new.copy = req[r].copy
  <1>1. CASE l = "idle"
    BY <1>1, IdleTyped DEF Proceed
  <1>2. CASE l # "idle"
    <2>1. [req[r] EXCEPT !.pc = l] \in RequestType
      BY DEF Typed, RequestType
    <2>2. req' = [req EXCEPT ![r] = [req[r] EXCEPT !.pc = l]]
      BY <1>2 DEF Proceed
    <2> QED
      BY <1>2, <2>1, <2>2 DEF Typed, RequestType
  <1> QED
    BY <1>1, <1>2

(* A review stays in the audit log.                                            *)
LEMMA ApprovedStays ==
    ASSUME audit \subseteq audit', NEW c, Approved(c)
    PROVE  \E x \in audit' : x.action = "review" /\ x.approved /\ x.content = c
  BY DEF Approved

LEMMA InitIInv == Init => IInv
  <1> SUFFICES ASSUME Init PROVE IInv
    OBVIOUS
  <1>1. Typed
    BY IdleTyped DEF Init, Typed
  <1> QED
    BY <1>1, MeetingMinutesAssumption
    DEF Init, NoRow, Idle, IInv, StepsOfKind, ContentExists, CopiesApproved, MailedWasApproved,
        QuotableWasApproved, Steps, Statuses

(* A step of one request keeps the invariant if it leaves the request typed    *)
(* and its copy backed, and what it makes of row and mail approved.            *)
LEMMA StepKeeps ==
    ASSUME IInv, NEW r \in Requests, NEW new \in RequestType,
           req' = [req EXCEPT ![r] = new],
           new.pc = "idle" <=> new.kind = None,
           new.pc \in {"lookup", "connect", "remember"} => new.kind = "send",
           new.kind = "generate" => new.pc = "save",
           new.pc \in {"connect", "save", "audit", "remember"} => new.copy.content # 0,
           new.kind = "send" /\ new.pc \in {"connect", "save", "audit", "remember"}
              => Approved(new.copy.content)',
           new.kind = "review" /\ new.pc = "save" /\ new.approved
              => Approved(new.copy.content)',
           audit \subseteq audit',
           row' \in RowType, generated' \in Nat, mailed' \in Nat,
           remembered' \in BOOLEAN, calm' \in BOOLEAN,
           MailedWasApproved', QuotableWasApproved',
           row'.status = "sent" => row'.content # 0
    PROVE  IInv'
  <1>1. /\ req' \in [Requests -> RequestType]
        /\ req'[r] = new
        /\ \A q \in Requests \ {r} : req'[q] = req[q]
    BY DEF IInv, Typed
  <1>2. Typed'
    BY <1>1 DEF Typed
  <1>3. StepsOfKind'
    BY <1>1 DEF IInv, StepsOfKind
  <1>4. ContentExists'
    BY <1>1 DEF IInv, ContentExists
  <1>5. CopiesApproved'
    <2> SUFFICES ASSUME NEW q \in Requests
                 PROVE  /\ req'[q].kind = "send"
                           /\ req'[q].pc \in {"connect", "save", "audit", "remember"}
                              => Approved(req[q].copy.content)'
                        /\ req'[q].kind = "review" /\ req'[q].pc = "save" /\ req'[q].approved
                              => Approved(req[q].copy.content)'
      BY DEF CopiesApproved
    <2>1. CASE q = r
      BY <1>1, <2>1 DEF Approved
    <2>2. CASE q # r
      BY <1>1, <2>2 DEF IInv, CopiesApproved, Approved
    <2> QED
      BY <2>1, <2>2
  <1> QED
    BY <1>2, <1>3, <1>4, <1>5 DEF IInv

(* A step that neither mails nor writes the row.                               *)
LEMMA StepAside ==
    ASSUME IInv, UNCHANGED <<row, mailed>>, audit \subseteq audit'
    PROVE  /\ MailedWasApproved' /\ QuotableWasApproved'
           /\ row' \in RowType /\ mailed' \in Nat
           /\ row'.status = "sent" => row'.content # 0
  BY DEF IInv, Typed, ContentExists, MailedWasApproved, QuotableWasApproved, Approved

(* A request that ends.                                                        *)
LEMMA FinishIInv ==
    ASSUME IInv, NEW r \in Requests, Finish(r), audit \subseteq audit',
           generated' \in Nat, remembered' \in BOOLEAN, calm' \in BOOLEAN,
           row' \in RowType, mailed' \in Nat, MailedWasApproved', QuotableWasApproved',
           row'.status = "sent" => row'.content # 0
    PROVE  IInv'
  <1>1. Idle.pc = "idle" /\ Idle.kind = None
    BY DEF Idle
  <1>2. Idle.kind \notin {"generate", "review", "send"}
    BY <1>1, MeetingMinutesAssumption
  <1> QED
    BY <1>1, <1>2, IdleTyped, StepKeeps DEF Finish

-----------------------------------------------------------------------------
(* What a request that comes is: a generation, a review or a sending at its    *)
(* first step.                                                                 *)
LEMMA StartIs ==
    ASSUME Typed, NEW r \in Requests, Start(r)
    PROVE  \E new \in RequestType :
              /\ req' = [req EXCEPT ![r] = new]
              /\ \/ new.pc = "save" /\ new.kind = "generate" /\ new.copy.content # 0
                 \/ new.pc = "get" /\ new.kind = "review"
                 \/ new.pc = "lookup" /\ new.kind = "send"
  <1>1. req[r] \in RequestType /\ generated \in Nat
    BY DEF Typed
  <1>2. CASE req' = [req EXCEPT ![r] = [@ EXCEPT !.pc = "save", !.kind = "generate",
                          !.copy = [status |-> "draft", content |-> generated + 1]]]
    <2> DEFINE draft == [status |-> "draft", content |-> generated + 1]
               new == [req[r] EXCEPT !.pc = "save", !.kind = "generate", !.copy = draft]
    <2>1. draft \in RowType /\ draft.content # 0
      BY <1>1 DEF RowType, Statuses
    <2>2. /\ new \in RequestType
          /\ new.pc = "save" /\ new.kind = "generate" /\ new.copy = draft
      <3> HIDE DEF draft
      <3> QED
        BY <1>1, <2>1 DEF RequestType, Steps
    <2>3. req' = [req EXCEPT ![r] = new]
      BY <1>2
    <2> HIDE DEF new
    <2> QED
      BY <2>1, <2>2, <2>3
  <1>3. ASSUME NEW yes \in BOOLEAN,
               req' = [req EXCEPT ![r] = [@ EXCEPT !.pc = "get", !.kind = "review",
                                                   !.approved = yes]]
        PROVE  \E new \in RequestType : /\ req' = [req EXCEPT ![r] = new]
                                        /\ new.pc = "get" /\ new.kind = "review"
    <2>1. PICK new : new = [req[r] EXCEPT !.pc = "get", !.kind = "review", !.approved = yes]
      OBVIOUS
    <2>2. new \in RequestType /\ new.pc = "get" /\ new.kind = "review"
      BY <1>1, <2>1 DEF RequestType, Steps
    <2>3. req' = [req EXCEPT ![r] = new]
      BY <1>3, <2>1
    <2> QED
      BY <2>2, <2>3
  <1>4. CASE req' = [req EXCEPT ![r] = [@ EXCEPT !.pc = SendSteps.start, !.kind = "send"]]
    <2>1. PICK new : new = [req[r] EXCEPT !.pc = "lookup", !.kind = "send"]
      OBVIOUS
    <2>2. new \in RequestType /\ new.pc = "lookup" /\ new.kind = "send"
      BY <1>1, <2>1 DEF RequestType, Steps
    <2>3. req' = [req EXCEPT ![r] = new]
      BY <1>4, <2>1, StepOrder
    <2> QED
      BY <2>2, <2>3
  <1> QED
    BY <1>2, <1>3, <1>4 DEF Start

LEMMA StartIInv ==
    ASSUME IInv, NEW r \in Requests, Start(r) PROVE IInv'
  <1>1. /\ UNCHANGED <<row, mailed, remembered, audit>>
        /\ generated \in Nat /\ remembered \in BOOLEAN
        /\ calm' \in BOOLEAN
    BY DEF Start, IInv, Typed
  <1>2. generated' = generated + 1 \/ generated' = generated
    BY Zenon DEF Start
  <1>3. generated' \in Nat /\ remembered' \in BOOLEAN
    BY <1>1, <1>2
  <1>4. /\ MailedWasApproved' /\ QuotableWasApproved'
        /\ row' \in RowType /\ mailed' \in Nat
        /\ row'.status = "sent" => row'.content # 0
    BY <1>1, StepAside
  <1>5. PICK new \in RequestType :
              /\ req' = [req EXCEPT ![r] = new]
              /\ \/ new.pc = "save" /\ new.kind = "generate" /\ new.copy.content # 0
                 \/ new.pc = "get" /\ new.kind = "review"
                 \/ new.pc = "lookup" /\ new.kind = "send"
    BY StartIs DEF IInv
  <1> QED
    BY <1>1, <1>3, <1>4, <1>5, StepKeeps, MeetingMinutesAssumption

LEMMA LookupIInv ==
    ASSUME IInv, NEW r \in Requests, Lookup(r) PROVE IInv'
  <1>1. /\ UNCHANGED <<row, generated, mailed, remembered, audit, calm>>
        /\ generated' \in Nat /\ remembered' \in BOOLEAN /\ calm' \in BOOLEAN
        /\ req[r].pc = "lookup" /\ req[r].kind = "send"
    BY DEF Lookup, IInv, Typed, StepsOfKind
  <1>2. /\ MailedWasApproved' /\ QuotableWasApproved'
        /\ row' \in RowType /\ mailed' \in Nat
        /\ row'.status = "sent" => row'.content # 0
    BY <1>1, StepAside
  <1>3. CASE Finish(r)
    BY <1>1, <1>2, <1>3, FinishIInv
  <1>4. CASE Proceed(r)
    <2>1. PICK new \in RequestType : /\ req' = [req EXCEPT ![r] = new]
                                     /\ new.pc = "get" /\ new.kind = "send"
      BY <1>1, <1>4, StepOrder, ProceedIs DEF IInv, Steps
    <2> QED
      BY <1>1, <1>2, <2>1, StepKeeps, MeetingMinutesAssumption
  <1> QED
    BY <1>3, <1>4 DEF Lookup

LEMMA GetIInv ==
    ASSUME IInv, NEW r \in Requests, Get(r) PROVE IInv'
  <1>1. /\ UNCHANGED <<row, generated, mailed, remembered, audit, calm>>
        /\ generated' \in Nat /\ remembered' \in BOOLEAN /\ calm' \in BOOLEAN
        /\ req[r].pc = "get" /\ req[r].kind \in {"review", "send"}
        /\ req[r] \in RequestType /\ row \in RowType
    BY DEF Get, IInv, Typed, StepsOfKind, RequestType
  <1>2. /\ MailedWasApproved' /\ QuotableWasApproved'
        /\ row' \in RowType /\ mailed' \in Nat
        /\ row'.status = "sent" => row'.content # 0
    BY <1>1, StepAside
  <1>3. CASE Finish(r)
    BY <1>1, <1>2, <1>3, FinishIInv
  <1>4. CASE /\ row.content # 0
             /\ req[r].kind = "send" => row.status = "approved"
             /\ req' = [req EXCEPT ![r] = [@ EXCEPT !.copy = row,
                                                    !.pc = After(req[r].kind, "get")]]
    <2>1. PICK new : new = [req[r] EXCEPT !.copy = row, !.pc = After(req[r].kind, "get")]
      OBVIOUS
    <2>2. req' = [req EXCEPT ![r] = new]
      BY <1>4, <2>1
    <2>3. After(req[r].kind, "get") = IF req[r].kind = "review" THEN "audit" ELSE "connect"
      BY <1>1, StepOrder
    <2>4. /\ new \in RequestType
          /\ new.kind = req[r].kind /\ new.copy = row
          /\ new.pc = IF req[r].kind = "review" THEN "audit" ELSE "connect"
      BY <1>1, <2>1, <2>3 DEF RequestType, Steps
    <2>5. new.kind = "send" => Approved(new.copy.content)'
      BY <1>1, <1>4, <2>4 DEF IInv, QuotableWasApproved, Approved
    <2>6. new.copy.content # 0 /\ new.pc \in {"audit", "connect"}
      BY <1>4, <2>4
    <2>7. new.kind \in {"review", "send"} /\ (new.pc = "connect" => new.kind = "send")
      BY <1>1, <2>4
    <2> QED
      BY <1>1, <1>2, <2>2, <2>4, <2>5, <2>6, <2>7, StepKeeps, MeetingMinutesAssumption
  <1> QED
    BY <1>3, <1>4 DEF Get

LEMMA ConnectIInv ==
    ASSUME IInv, NEW r \in Requests, Connect(r) PROVE IInv'
  <1>1. /\ UNCHANGED <<row, generated, remembered, audit>>
        /\ generated' \in Nat /\ remembered' \in BOOLEAN /\ calm' \in BOOLEAN
        /\ req[r].pc = "connect" /\ req[r].kind = "send"
        /\ Approved(req[r].copy.content) /\ req[r].copy.content \in Nat \ {0}
        /\ mailed' \in {mailed, req[r].copy.content}
    BY DEF Connect, Mail, IInv, Typed, StepsOfKind, ContentExists, CopiesApproved, RequestType,
           RowType
  <1>2. /\ MailedWasApproved' /\ QuotableWasApproved'
        /\ row' \in RowType /\ mailed' \in Nat
        /\ row'.status = "sent" => row'.content # 0
    BY <1>1 DEF IInv, Typed, ContentExists, MailedWasApproved, QuotableWasApproved, Approved
  <1>3. CASE Finish(r)
    BY <1>1, <1>2, <1>3, FinishIInv
  <1>4. CASE Proceed(r)
    <2>1. PICK new \in RequestType : /\ req' = [req EXCEPT ![r] = new]
                                     /\ new.pc = "save" /\ new.kind = "send"
                                     /\ new.copy = req[r].copy
      BY <1>1, <1>4, StepOrder, ProceedIs DEF IInv, Steps
    <2>2. Approved(new.copy.content)'
      BY <1>1, <2>1 DEF Approved
    <2> QED
      BY <1>1, <1>2, <2>1, <2>2, StepKeeps, MeetingMinutesAssumption
  <1> QED
    BY <1>3, <1>4 DEF Connect

LEMMA SaveIInv ==
    ASSUME IInv, NEW r \in Requests, Save(r) PROVE IInv'
  <1>1. /\ UNCHANGED <<generated, mailed, remembered, audit, calm>>
        /\ generated' \in Nat /\ remembered' \in BOOLEAN /\ calm' \in BOOLEAN
        /\ mailed' \in Nat /\ MailedWasApproved'
        /\ req[r].pc = "save" /\ req[r].kind \in {"generate", "review", "send"}
        /\ req[r].copy.content \in Nat \ {0}
    BY DEF Save, IInv, Typed, ContentExists, StepsOfKind, RequestType, RowType, MailedWasApproved, Approved
  <1>2. /\ row'.content = req[r].copy.content
        /\ row' \in RowType
        /\ row'.status = "approved" => req[r].kind = "review" /\ req[r].approved
        /\ row'.status = "sent" => req[r].kind = "send"
    BY <1>1 DEF Save, Saved, RowType, Statuses
  <1>3. QuotableWasApproved'
    BY <1>1, <1>2 DEF IInv, CopiesApproved, QuotableWasApproved, Approved
  <1>4. CASE req[r].kind = "send"
    <2>1. PICK new \in RequestType : /\ req' = [req EXCEPT ![r] = new]
                                     /\ new.pc = "audit" /\ new.kind = "send"
                                     /\ new.copy = req[r].copy
      BY <1>1, <1>4, StepOrder, ProceedIs DEF IInv, Steps, Save
    <2>2. Approved(new.copy.content)'
      BY <1>1, <1>4, <2>1 DEF IInv, CopiesApproved, Approved
    <2> QED
      BY <1>1, <1>2, <1>3, <2>1, <2>2, StepKeeps, MeetingMinutesAssumption
  <1>5. CASE req[r].kind # "send"
    <2>1. Finish(r)
      BY <1>1, <1>5, StepOrder DEF Save, Proceed, Finish
    <2> QED
      BY <1>1, <1>2, <1>3, <2>1, FinishIInv
  <1> QED
    BY <1>4, <1>5

LEMMA AuditIInv ==
    ASSUME IInv, NEW r \in Requests, Audit(r) PROVE IInv'
  <1> DEFINE entry == [action |-> req[r].kind, approved |-> req[r].approved,
                       content |-> req[r].copy.content]
  <1>1. /\ UNCHANGED <<row, generated, mailed, remembered, calm>>
        /\ audit' = audit \cup {entry}
        /\ generated' \in Nat /\ remembered' \in BOOLEAN /\ calm' \in BOOLEAN
        /\ req[r].pc = "audit" /\ req[r].kind \in {"review", "send"}
        /\ req[r].copy.content # 0
    BY DEF Audit, IInv, Typed, StepsOfKind, ContentExists, RequestType
  <1>2. /\ MailedWasApproved' /\ QuotableWasApproved'
        /\ row' \in RowType /\ mailed' \in Nat
        /\ row'.status = "sent" => row'.content # 0
    BY <1>1, StepAside
  <1>3. CASE req[r].kind = "review"
    <2>1. PICK new \in RequestType : /\ req' = [req EXCEPT ![r] = new]
                                     /\ new.pc = "save" /\ new.kind = "review"
                                     /\ new.copy = req[r].copy
                                     /\ new.approved = req[r].approved
      BY <1>1, <1>3, StepOrder, ProceedIs DEF IInv, Steps, Audit
    <2>2. ASSUME new.approved PROVE Approved(new.copy.content)'
      <3>1. /\ entry \in audit'
            /\ entry.action = "review" /\ entry.approved /\ entry.content = new.copy.content
        BY <1>1, <1>3, <2>1, <2>2
      <3> QED
        BY <3>1 DEF Approved
    <2> QED
      BY <1>1, <1>2, <2>1, <2>2, StepKeeps, MeetingMinutesAssumption
  <1>4. CASE req[r].kind = "send"
    <2>1. PICK new \in RequestType : /\ req' = [req EXCEPT ![r] = new]
                                     /\ new.pc = "remember" /\ new.kind = "send"
                                     /\ new.copy = req[r].copy
      BY <1>1, <1>4, StepOrder, ProceedIs DEF IInv, Steps, Audit
    <2>2. Approved(new.copy.content)'
      BY <1>1, <1>4, <2>1 DEF IInv, CopiesApproved, Approved
    <2> QED
      BY <1>1, <1>2, <2>1, <2>2, StepKeeps, MeetingMinutesAssumption
  <1> QED
    BY <1>1, <1>3, <1>4

LEMMA RememberIInv ==
    ASSUME IInv, NEW r \in Requests, Remember(r) PROVE IInv'
  <1>1. /\ UNCHANGED <<row, generated, mailed, audit, calm>>
        /\ generated' \in Nat /\ remembered' \in BOOLEAN /\ calm' \in BOOLEAN
        /\ req[r].pc = "remember" /\ req[r].kind = "send"
    BY DEF Remember, IInv, Typed, StepsOfKind
  <1>2. Finish(r)
    BY <1>1, StepOrder DEF Remember, Proceed, Finish
  <1> QED
    BY <1>1, <1>2, StepAside, FinishIInv

LEMMA CrashIInv ==
    ASSUME IInv, NEW r \in Requests, Crash(r) PROVE IInv'
  <1>1. /\ Finish(r) /\ UNCHANGED <<row, generated, mailed, remembered, audit>>
        /\ generated' \in Nat /\ remembered' \in BOOLEAN /\ calm' \in BOOLEAN
    BY DEF Crash, IInv, Typed
  <1> QED
    BY <1>1, StepAside, FinishIInv

LEMMA NextIInv == IInv /\ [Next]_vars => IInv'
  <1> SUFFICES ASSUME IInv, [Next]_vars PROVE IInv'
    OBVIOUS
  <1>1. CASE UNCHANGED vars
    BY <1>1 DEF vars, IInv, Typed, StepsOfKind, ContentExists, CopiesApproved, MailedWasApproved,
                QuotableWasApproved, Approved
  <1> QED
    BY <1>1, StartIInv, LookupIInv, GetIInv, ConnectIInv, SaveIInv, AuditIInv,
       RememberIInv, CrashIInv DEF Next

LEMMA InvariantHolds == Spec => []IInv
  BY InitIInv, NextIInv, PTL DEF Spec

-----------------------------------------------------------------------------
(* No content leaves by mail that no audited review approved, however often    *)
(* the minutes are generated anew and whichever copies overwrite each other.   *)
THEOREM MailIsApproved == Spec => []MailedWasApproved
  <1>1. IInv => MailedWasApproved
    BY DEF IInv
  <1> QED
    BY <1>1, InvariantHolds, PTL

(* Whatever work reports may quote was approved by an audited review.          *)
THEOREM QuotesAreApproved == Spec => []QuotableWasApproved
  <1>1. IInv => QuotableWasApproved
    BY DEF IInv
  <1> QED
    BY <1>1, InvariantHolds, PTL

-----------------------------------------------------------------------------
(* While requests come one at a time, the one that takes a step is alone.      *)
LEMMA Alone ==
    ASSUME CalmInv, calm, NEW r \in Requests, req[r].pc \in Steps
    PROVE  \A q \in Requests \ {r} : req[q].pc \notin Steps
  BY DEF CalmInv, Active

(* ... so that only what it becomes is to be looked at.                        *)
LEMMA CalmStep ==
    ASSUME IInv, NEW r \in Requests, NEW new,
           req' = [req EXCEPT ![r] = new],
           calm' =>
              /\ \A q \in Requests \ {r} : req[q].pc \notin Steps
              /\ mailed' # 0 /\ ~remembered' =>
                    new.kind = "send" /\ new.pc \in {"save", "audit", "remember"}
              /\ new.pc = "get" /\ new.kind = "send" => mailed' = 0
              /\ new.pc = "connect" => mailed' = 0
              /\ new.pc = "save" /\ new.kind = "send" => new.copy.content = mailed'
              /\ row'.status = "sent" => row'.content = mailed'
    PROVE  CalmInv'
  <1>1. /\ req'[r] = new
        /\ \A q \in Requests \ {r} : req'[q] = req[q]
    BY DEF IInv, Typed
  <1> QED
    BY <1>1 DEF CalmInv, CalmSentIsMailed, Active, Steps

(* A request that ends, and leaves mail only remembered.                       *)
LEMMA CalmFinish ==
    ASSUME IInv, NEW r \in Requests, Finish(r),
           calm' => /\ \A q \in Requests \ {r} : req[q].pc \notin Steps
                    /\ mailed' # 0 => remembered'
                    /\ row'.status = "sent" => row'.content = mailed'
    PROVE  CalmInv'
  <1>1. Idle.pc = "idle"
    BY DEF Idle
  <1> QED
    BY <1>1, CalmStep DEF Finish

LEMMA StartCalm ==
    ASSUME IInv, CalmInv, NEW r \in Requests, Start(r) PROVE CalmInv'
  <1>1. /\ UNCHANGED <<row, mailed, remembered, audit>>
        /\ calm' => calm /\ \A q \in Requests : req[q].pc \notin Steps
    BY DEF Start, Active
  <1>2. calm' => /\ mailed # 0 => remembered
                 /\ row.status = "sent" => row.content = mailed
    BY <1>1 DEF CalmInv, CalmSentIsMailed, Steps
  <1>3. PICK new \in RequestType :
              /\ req' = [req EXCEPT ![r] = new]
              /\ \/ new.pc = "save" /\ new.kind = "generate"
                 \/ new.pc = "get" /\ new.kind = "review"
                 \/ new.pc = "lookup" /\ new.kind = "send"
    BY StartIs DEF IInv
  <1> QED
    BY <1>1, <1>2, <1>3, CalmStep

LEMMA LookupCalm ==
    ASSUME IInv, CalmInv, NEW r \in Requests, Lookup(r) PROVE CalmInv'
  <1>1. /\ UNCHANGED <<row, mailed, remembered, calm>>
        /\ req[r].pc = "lookup" /\ req[r].kind = "send"
    BY DEF Lookup, IInv, StepsOfKind
  <1>2. calm => /\ \A q \in Requests \ {r} : req[q].pc \notin Steps
                /\ mailed # 0 => remembered
                /\ row.status = "sent" => row.content = mailed
    BY <1>1, Alone DEF CalmInv, CalmSentIsMailed, Steps
  <1>3. CASE remembered
    BY <1>1, <1>2, <1>3, CalmFinish DEF Lookup
  <1>4. CASE ~remembered
    <2>1. PICK new \in RequestType : /\ req' = [req EXCEPT ![r] = new]
                                     /\ new.pc = "get" /\ new.kind = "send"
      BY <1>1, <1>4, StepOrder, ProceedIs DEF IInv, Steps, Lookup
    <2> QED
      BY <1>1, <1>2, <1>4, <2>1, CalmStep
  <1> QED
    BY <1>3, <1>4

LEMMA GetCalm ==
    ASSUME IInv, CalmInv, NEW r \in Requests, Get(r) PROVE CalmInv'
  <1>1. /\ UNCHANGED <<row, mailed, remembered, calm>>
        /\ req[r].pc = "get" /\ req[r].kind \in {"review", "send"}
        /\ req[r] \in RequestType /\ row \in RowType
    BY DEF Get, IInv, Typed, StepsOfKind, RequestType
  <1>2. calm => /\ \A q \in Requests \ {r} : req[q].pc \notin Steps
                /\ mailed # 0 => remembered
                /\ req[r].kind = "send" => mailed = 0
                /\ row.status = "sent" => row.content = mailed
    BY <1>1, Alone DEF CalmInv, CalmSentIsMailed, Steps
  <1>3. CASE Finish(r)
    BY <1>1, <1>2, <1>3, CalmFinish
  <1>4. CASE req' = [req EXCEPT ![r] = [@ EXCEPT !.copy = row,
                                                 !.pc = After(req[r].kind, "get")]]
    <2> DEFINE new == [req[r] EXCEPT !.copy = row, !.pc = After(req[r].kind, "get")]
    <2>1. req' = [req EXCEPT ![r] = new]
      BY <1>4
    <2>2. /\ new.kind = req[r].kind
          /\ new.pc = IF req[r].kind = "review" THEN "audit" ELSE "connect"
      BY <1>1, StepOrder DEF RequestType
    <2> HIDE DEF new
    <2> QED
      BY <1>1, <1>2, <2>1, <2>2, CalmStep
  <1> QED
    BY <1>3, <1>4 DEF Get

LEMMA ConnectCalm ==
    ASSUME IInv, CalmInv, NEW r \in Requests, Connect(r) PROVE CalmInv'
  <1>1. /\ UNCHANGED <<row, remembered>>
        /\ calm' => calm
        /\ req[r].pc = "connect" /\ req[r].kind = "send"
    BY DEF Connect, IInv, StepsOfKind
  <1>2. calm => /\ \A q \in Requests \ {r} : req[q].pc \notin Steps
                /\ mailed = 0
                /\ row.status # "sent"
    BY <1>1, Alone DEF CalmInv, CalmSentIsMailed, Steps, IInv, ContentExists
  <1>3. CASE UNCHANGED mailed /\ Finish(r)
    BY <1>1, <1>2, <1>3, CalmFinish
  <1>4. CASE calm' = FALSE /\ Finish(r)
    BY <1>4, CalmFinish
  <1>5. CASE /\ mailed' = IF mailed = 0 THEN req[r].copy.content ELSE mailed
             /\ Proceed(r)
    <2>1. PICK new \in RequestType : /\ req' = [req EXCEPT ![r] = new]
                                     /\ new.pc = "save" /\ new.kind = "send"
                                     /\ new.copy = req[r].copy
      BY <1>1, <1>5, StepOrder, ProceedIs DEF IInv, Steps
    <2> QED
      BY <1>1, <1>2, <1>5, <2>1, CalmStep
  <1> QED
    BY <1>3, <1>4, <1>5 DEF Connect, Mail

LEMMA SaveCalm ==
    ASSUME IInv, CalmInv, NEW r \in Requests, Save(r) PROVE CalmInv'
  <1>1. /\ UNCHANGED <<mailed, remembered, calm>>
        /\ req[r].pc = "save" /\ req[r].kind \in {"generate", "review", "send"}
    BY DEF Save, IInv, Typed, StepsOfKind, RequestType
  <1>2. /\ row'.content = req[r].copy.content
        /\ row'.status = "sent" => req[r].kind = "send"
    BY <1>1 DEF Save, Saved
  <1>3. calm => /\ \A q \in Requests \ {r} : req[q].pc \notin Steps
                /\ mailed # 0 /\ ~remembered => req[r].kind = "send"
                /\ row'.status = "sent" => row'.content = mailed
    BY <1>1, <1>2, Alone DEF CalmInv, Steps
  <1>4. CASE req[r].kind = "send"
    <2>1. PICK new \in RequestType : /\ req' = [req EXCEPT ![r] = new]
                                     /\ new.pc = "audit" /\ new.kind = "send"
      BY <1>1, <1>4, StepOrder, ProceedIs DEF IInv, Steps, Save
    <2> QED
      BY <1>1, <1>3, <2>1, CalmStep
  <1>5. CASE req[r].kind # "send"
    <2>1. Finish(r)
      BY <1>1, <1>5, StepOrder DEF Save, Proceed, Finish
    <2> QED
      BY <1>1, <1>3, <1>5, <2>1, CalmFinish
  <1> QED
    BY <1>4, <1>5

LEMMA AuditCalm ==
    ASSUME IInv, CalmInv, NEW r \in Requests, Audit(r) PROVE CalmInv'
  <1>1. /\ UNCHANGED <<row, mailed, remembered, calm>>
        /\ req[r].pc = "audit" /\ req[r].kind \in {"review", "send"}
    BY DEF Audit, IInv, Typed, StepsOfKind, RequestType
  <1>2. calm => /\ \A q \in Requests \ {r} : req[q].pc \notin Steps
                /\ mailed # 0 /\ ~remembered => req[r].kind = "send"
                /\ row.status = "sent" => row.content = mailed
    BY <1>1, Alone DEF CalmInv, CalmSentIsMailed, Steps
  <1>3. PICK new \in RequestType :
           /\ req' = [req EXCEPT ![r] = new]
           /\ new.pc = (IF req[r].kind = "send" THEN "remember" ELSE "save")
           /\ new.kind = req[r].kind
    BY <1>1, StepOrder, ProceedIs DEF IInv, Steps, Audit
  <1> QED
    BY <1>1, <1>2, <1>3, CalmStep

LEMMA RememberCalm ==
    ASSUME IInv, CalmInv, NEW r \in Requests, Remember(r) PROVE CalmInv'
  <1>1. /\ UNCHANGED <<row, mailed, calm>>
        /\ remembered' = TRUE
        /\ req[r].pc = "remember" /\ req[r].kind = "send"
    BY DEF Remember, IInv, StepsOfKind
  <1>2. Finish(r)
    BY <1>1, StepOrder DEF Remember, Proceed, Finish
  <1>3. calm => /\ \A q \in Requests \ {r} : req[q].pc \notin Steps
                /\ row.status = "sent" => row.content = mailed
    BY <1>1, Alone DEF CalmInv, CalmSentIsMailed, Steps
  <1> QED
    BY <1>1, <1>2, <1>3, CalmFinish

LEMMA NextCalm == IInv /\ CalmInv /\ [Next]_vars => CalmInv'
  <1> SUFFICES ASSUME IInv, CalmInv, [Next]_vars PROVE CalmInv'
    OBVIOUS
  <1>1. CASE UNCHANGED vars
    BY <1>1 DEF vars, CalmInv, CalmSentIsMailed, Active
  <1>2. ASSUME NEW r \in Requests, Crash(r) PROVE CalmInv'
    BY <1>2, CalmFinish DEF Crash
  <1> QED
    BY <1>1, <1>2, StartCalm, LookupCalm, GetCalm, ConnectCalm, SaveCalm, AuditCalm,
       RememberCalm DEF Next

(* While requests come one at a time and none is cut short, minutes marked as  *)
(* sent are the minutes that were mailed, also after they were generated and   *)
(* approved again.                                                             *)
THEOREM CalmSentIsTheMail == Spec => []CalmSentIsMailed
  <1>1. Init => CalmInv
    BY MeetingMinutesAssumption
    DEF Init, NoRow, Idle, CalmInv, CalmSentIsMailed, Active, Steps, Statuses
  <1>2. CalmInv => CalmSentIsMailed
    BY DEF CalmInv, CalmSentIsMailed
  <1> QED
    BY <1>1, <1>2, InvariantHolds, NextCalm, PTL DEF Spec

-----------------------------------------------------------------------------
(* The refinement.                                                             *)
LEMMA ApprovedIs == \A content : content \in ApprovedContents <=> Approved(content)
  BY DEF ApprovedContents, Approved

LEMMA InitOutcome == Init => Outcome!Init
  BY MeetingMinutesAssumption
  DEF Init, NoRow, Statuses, Outcome!Init, ApprovedContents, Quotable

(* The steps that leave row, mail and audit log alone.                         *)
LEMMA QuietSteps ==
    ASSUME NEW r \in Requests, Start(r) \/ Lookup(r) \/ Get(r) \/ Remember(r) \/ Crash(r)
    PROVE  UNCHANGED Outcome!vars
  <1>1. UNCHANGED <<row, mailed, audit>>
    BY DEF Start, Lookup, Get, Remember, Crash
  <1> QED
    BY <1>1 DEF Outcome!vars, ApprovedContents, Quotable

(* What is mailed first is approved; later mail is the same.                   *)
LEMMA ConnectStep ==
    ASSUME IInv, NEW r \in Requests, Connect(r)
    PROVE  UNCHANGED Outcome!vars \/ Outcome!Mail
  <1>1. /\ UNCHANGED <<row, audit>> /\ req[r].pc = "connect" /\ req[r].kind = "send"
        /\ \/ mailed' = mailed
           \/ mailed = 0 /\ mailed' = req[r].copy.content
    BY DEF Connect, Mail, IInv, StepsOfKind
  <1>2. UNCHANGED <<ApprovedContents, Quotable>>
    BY <1>1 DEF ApprovedContents, Quotable
  <1>3. req[r].copy.content \in ApprovedContents
    BY <1>1, ApprovedIs DEF IInv, CopiesApproved
  <1> QED
    BY <1>1, <1>2, <1>3 DEF Outcome!vars, Outcome!Mail

(* Whatever the row becomes, approved content is quoted or none.               *)
LEMMA SaveStep ==
    ASSUME QuotableWasApproved', NEW r \in Requests, Save(r)
    PROVE  Outcome!Publish
  <1>1. UNCHANGED <<mailed, audit>>
    BY DEF Save
  <1>2. ApprovedContents' = ApprovedContents
    BY <1>1 DEF ApprovedContents
  <1>3. Approved(row'.content) <=> Approved(row.content)'
    BY <1>1 DEF Approved
  <1>4. Quotable' \in ApprovedContents \cup {0}
    BY <1>3, ApprovedIs DEF QuotableWasApproved, Quotable
  <1> QED
    BY <1>1, <1>2, <1>4 DEF Outcome!Publish

(* An entry of the audit log approves a content, or none.                      *)
LEMMA AuditStep ==
    ASSUME IInv, NEW r \in Requests, Audit(r)
    PROVE  UNCHANGED Outcome!vars \/ Outcome!Approve
  <1> DEFINE content == req[r].copy.content
             entry == [action |-> req[r].kind, approved |-> req[r].approved,
                       content |-> content]
  <1>1. /\ UNCHANGED <<row, mailed>> /\ audit' = audit \cup {entry}
        /\ content # 0
    BY DEF Audit, IInv, ContentExists
  <1>2. UNCHANGED Quotable
    BY <1>1 DEF Quotable
  <1>3. CASE req[r].kind = "review" /\ req[r].approved
    <2>1. /\ entry \in audit' /\ entry.action = "review" /\ entry.approved
          /\ entry.content = content
      BY <1>1, <1>3
    <2>2. ASSUME NEW c \in ApprovedContents' PROVE c \in ApprovedContents \cup {content}
      <3>1. PICK x \in audit' : x.action = "review" /\ x.approved /\ x.content = c
        BY <2>2 DEF ApprovedContents
      <3>2. CASE x \in audit
        BY <3>1, <3>2 DEF ApprovedContents
      <3>3. CASE x = entry
        BY <2>1, <3>1, <3>3
      <3> QED
        BY <1>1, <3>1, <3>2, <3>3
    <2>3. content \in ApprovedContents' /\ ApprovedContents \subseteq ApprovedContents'
      <3> HIDE DEF content, entry
      <3> QED
        BY <1>1, <2>1 DEF ApprovedContents
    <2>4. ApprovedContents' = ApprovedContents \cup {content}
      <3> HIDE DEF content
      <3> QED
        BY <2>2, <2>3
    <2> HIDE DEF content
    <2> QED
      BY <1>1, <1>2, <2>4 DEF Outcome!Approve
  <1>4. CASE ~(req[r].kind = "review" /\ req[r].approved)
    <2>1. ApprovedContents' = ApprovedContents
      BY <1>1, <1>4 DEF ApprovedContents
    <2> QED
      BY <1>1, <1>2, <2>1 DEF Outcome!vars
  <1> QED
    BY <1>3, <1>4

LEMMA NextOutcome == IInv /\ IInv' /\ [Next]_vars => [Outcome!Next]_(Outcome!vars)
  <1> SUFFICES ASSUME IInv, IInv', [Next]_vars PROVE Outcome!Next \/ UNCHANGED Outcome!vars
    OBVIOUS
  <1>1. CASE UNCHANGED vars
    BY <1>1 DEF vars, Outcome!vars, ApprovedContents, Quotable
  <1>2. QuotableWasApproved'
    BY DEF IInv
  <1>3. CASE Next
    BY <1>2, <1>3, QuietSteps, ConnectStep, SaveStep, AuditStep DEF Next, Outcome!Next
  <1> QED
    BY <1>1, <1>3

(* However generations, reviews and sendings overlap, overwrite each other and *)
(* are cut short: one approved content is mailed, once and for good, and work  *)
(* reports may quote approved contents only.                                   *)
THEOREM MinutesImplementOutcome == Spec => ImplementsOutcome
  BY InitOutcome, NextOutcome, InvariantHolds, PTL DEF Spec, ImplementsOutcome, Outcome!Spec
=============================================================================
