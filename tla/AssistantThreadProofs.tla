------------------------ MODULE AssistantThreadProofs ------------------------
(* Proofs about AssistantThread, for any requests, actions and scopes:         *)
(* controlled writes are authorised whatever overlaps, times out or crashes,   *)
(* and, while nothing does, an approval is consumed once and a stopped thread  *)
(* waits for exactly one decision.                                             *)
EXTENDS AssistantThread, SequenceTheorems, TLAPS

PCs == Steps \cup {"unused", "done"}

RequestType ==
    [pc : PCs, kind : {None, "invoke", "resume"}, approved : BOOLEAN,
     scopes : ScopeSets \cup {{}}, record : Nat, at : SUBSET Actions,
     left : SUBSET Actions, stop : Nat, interrupted : BOOLEAN, closes : Nat]

Typed == req \in [Requests -> RequestType]

(* The records and the stop a request names exist, and what it has left to do  *)
(* was pending there.                                                          *)
Bounds(r) == /\ req[r].record \in 0..Len(approvals)
             /\ req[r].closes \in 0..Len(approvals)
             /\ req[r].stop \in 0..stops
             /\ req[r].left \subseteq req[r].at

(* What a request has shown before it gets to a step.                          *)
Authority ==
    \A r \in Requests :
        /\ req[r].pc = "gate" => req[r].kind = "resume"
        /\ req[r].pc = "scope" => req[r].kind = "resume" /\ req[r].record > 0
        /\ req[r].pc = "load" /\ req[r].kind = "resume" => req[r].record > 0
        /\ req[r].pc = "node" => /\ req[r].kind = "resume"
                                 /\ req[r].record > 0

(* Stops are numbered from 1, and a run that resumes is at one of them.        *)
StopsCounted ==
    /\ graph.stop <= stops
    /\ graph.at # {} => graph.stop > 0
    /\ \A r \in Requests : req[r].pc = "node" => req[r].stop > 0

(* A request that wrote is past its node and stays there, or is at it with     *)
(* some of its writes made.                                                    *)
Past == {"commit", "decide", "close", "look", "insert", "done"}

WritersArePast ==
    \A x \in writes : \/ req[x.by].pc \in Past
                      \/ req[x.by].pc = "node" /\ req[x.by].left # req[x.by].at

IInv == /\ Typed
        /\ TypeOK
        /\ Authority
        /\ StopsCounted
        /\ WritersArePast
        /\ WritesAuthorised

(* Requests that come one at a time.                                           *)
Alone == \A r, q \in Requests : Active(r) /\ Active(q) => r = q

AtMostOne == \A i, j \in Pending : i = j

(* What such a request finds: its record is the one that is pending until it   *)
(* closes it, and nothing is pending when it inserts; the graph is at the stop *)
(* it was resumed from until it ends, and a run that did not stop again has    *)
(* left the graph at its end.                                                  *)
AtStep(x) ==
    /\ x.pc \in {"scope", "node", "decide", "close"} => Pending = {x.record}
    /\ x.pc \in {"load", "commit"} /\ x.kind = "resume" => Pending = {x.record}
    /\ x.pc = "node" => graph.at # {} /\ x.stop = graph.stop
    /\ x.pc = "close" => x.closes = x.record
    /\ x.pc = "look" /\ x.kind = "resume" => Pending = {}
    /\ x.pc = "insert" => Pending = {}
    /\ x.pc \in {"gate", "scope", "load", "node", "commit"} => ~x.interrupted
    /\ x.pc \in {"decide", "close"} /\ ~x.interrupted => graph.at = {}

(* A stopped graph has its decision pending, or about to be.                   *)
Waits == graph.at # {} => \/ OnePending
                           \/ \E r \in Requests : req[r].pc \in {"look", "insert"}

(* The record of a write is closed, but while its request is on the way there. *)
Consumed ==
    \A x \in writes : req[x.by].record \in Pending =>
                          req[x.by].pc \in {"node", "commit", "decide", "close"}

(* What is pending in the graph is not written, but by the run that is at it.  *)
Fresh ==
    \A x \in writes : graph.at # {} /\ x.stop = graph.stop =>
                          req[x.by].pc \in {"node", "commit"}

CalmInv ==
    /\ \A r \in Requests : req[r].pc = "unused" => ~req[r].interrupted
    /\ calm => /\ Alone
               /\ AtMostOne
               /\ \A r \in Requests : AtStep(req[r])
               /\ Waits
               /\ Consumed
               /\ Fresh
               /\ SingleUse

-----------------------------------------------------------------------------
LEMMA TypeOKParts ==
    TypeOK => /\ graph \in [at : SUBSET Actions, stop : Nat]
              /\ stops \in Nat
              /\ approvals \in Seq({"pending", "approved", "rejected"})
              /\ writes \subseteq [by : Requests, action : Actions, stop : 1..stops]
              /\ calm \in BOOLEAN
              /\ \A r \in Requests : Bounds(r)
  BY DEF TypeOK, Bounds

LEMMA TypeOKFromParts ==
    ASSUME Typed,
           graph \in [at : SUBSET Actions, stop : Nat],
           stops \in Nat,
           approvals \in Seq({"pending", "approved", "rejected"}),
           writes \subseteq [by : Requests, action : Actions, stop : 1..stops],
           calm \in BOOLEAN,
           \A r \in Requests : Bounds(r)
    PROVE  TypeOK
  BY DEF Typed, RequestType, PCs, TypeOK, Bounds

LEMMA TypeOKNext ==
    ASSUME Typed',
           graph' \in [at : SUBSET Actions, stop : Nat],
           stops' \in Nat,
           approvals' \in Seq({"pending", "approved", "rejected"}),
           writes' \subseteq [by : Requests, action : Actions, stop : 1..stops'],
           calm' \in BOOLEAN,
           \A r \in Requests : Bounds(r)'
    PROVE  TypeOK'
  BY DEF Typed, RequestType, PCs, TypeOK, Bounds

(* A step that replaces a request by one of the right type.                    *)
LEMMA Replaced ==
    ASSUME Typed, NEW r \in Requests, NEW x \in RequestType,
           req' = [req EXCEPT ![r] = x]
    PROVE  Typed'
  BY DEF Typed

LEMMA StepsArePCs == Steps \cup Past \subseteq PCs
  BY DEF Past, Steps, PCs

LEMMA GotoTyped ==
    ASSUME Typed, NEW r \in Requests, NEW l \in Steps \cup Past, Goto(r, l)
    PROVE  Typed'
  <1>1. PICK x : x = [req[r] EXCEPT !.pc = l]
    OBVIOUS
  <1>2. l \in PCs /\ req[r] \in RequestType
    BY StepsArePCs DEF Typed
  <1>3. x \in RequestType
    BY <1>1, <1>2 DEF RequestType
  <1>4. req' = [req EXCEPT ![r] = x]
    BY <1>1 DEF Goto
  <1> QED
    BY <1>3, <1>4, Replaced

LEMMA InitIInv == Init => IInv
  <1> SUFFICES ASSUME Init PROVE IInv
    OBVIOUS
  <1>1. Typed
    BY DEF Init, Unused, Typed, RequestType, PCs
  <1>2. TypeOK
    <2>1. approvals = <<>> /\ Len(approvals) = 0
      BY DEF Init
    <2>2. ASSUME NEW r \in Requests PROVE Bounds(r)
      <3>1. /\ req[r].record = 0 /\ req[r].closes = 0 /\ req[r].stop = 0
            /\ req[r].left \subseteq req[r].at
        BY DEF Init, Unused
      <3> QED
        BY <2>1, <3>1 DEF Init, Bounds
    <2> QED
      BY <1>1, <2>1, <2>2, TypeOKFromParts DEF Init
  <1> QED
    BY <1>1, <1>2 DEF Init, Unused, IInv, Authority, StopsCounted, WritersArePast,
                      WritesAuthorised

(* The pending rows are rows.                                                  *)
LEMMA PendingRows ==
    ASSUME TypeOK, NEW i \in Pending
    PROVE  i \in Nat \ {0} /\ i \in 0..Len(approvals)
  BY DEF TypeOK, Pending

(* A step that only moves one request on, past no check that counts.           *)
LEMMA MoveOn ==
    ASSUME IInv, NEW r \in Requests, NEW l \in Past,
           Goto(r, l), UNCHANGED <<graph, stops, approvals, writes>>,
           calm' \in BOOLEAN
    PROVE  IInv'
  <1>1. Typed'
    BY GotoTyped DEF IInv
  <1>2. TypeOK'
    BY <1>1 DEF IInv, Typed, RequestType, TypeOK, PCs, Goto
  <1>3. Authority'
    BY DEF IInv, Typed, RequestType, Authority, Past, Goto
  <1>4. StopsCounted'
    BY DEF IInv, Typed, RequestType, StopsCounted, Past, Goto
  <1>5. WritersArePast' /\ WritesAuthorised'
    BY DEF IInv, Typed, RequestType, TypeOK, WritersArePast, WritesAuthorised, Goto
  <1> QED
    BY <1>1, <1>2, <1>3, <1>4, <1>5 DEF IInv

LEMMA StartIInv ==
    ASSUME IInv, NEW r \in Requests, Start(r) PROVE IInv'
  <1>1. \A x \in writes : x.by # r
    BY DEF IInv, WritersArePast, Past, Start
  <1>2. UNCHANGED <<graph, stops, approvals, writes>> /\ calm' \in BOOLEAN
    BY DEF Start, IInv, TypeOK
  <1>3. /\ Typed'
        /\ \A q \in Requests \ {r} : req'[q] = req[q]
        /\ \/ req'[r].pc = "load" /\ req'[r].kind = "invoke"
           \/ req'[r].pc = "gate" /\ req'[r].kind = "resume"
        /\ req'[r].record = req[r].record
        /\ req'[r].closes = req[r].closes
        /\ req'[r].stop = req[r].stop
        /\ req'[r].at = req[r].at /\ req'[r].left = req[r].left
    <2>1. CASE req' = [req EXCEPT ![r] = [@ EXCEPT !.pc = "load", !.kind = "invoke"]]
      <3>1. PICK x : x = [req[r] EXCEPT !.pc = "load", !.kind = "invoke"]
        OBVIOUS
      <3>2. "load" \in PCs /\ req[r] \in RequestType
        BY StepsArePCs DEF Steps, IInv, Typed
      <3>3. /\ x \in RequestType /\ x.pc = "load" /\ x.kind = "invoke"
            /\ x.record = req[r].record /\ x.closes = req[r].closes /\ x.stop = req[r].stop
            /\ x.at = req[r].at /\ x.left = req[r].left
        BY <3>1, <3>2 DEF RequestType
      <3>4. req' = [req EXCEPT ![r] = x] /\ Typed
        BY <2>1, <3>1 DEF IInv
      <3> QED
        BY <3>3, <3>4, Replaced DEF Typed
    <2>2. CASE \E yes \in BOOLEAN, s \in ScopeSets :
                  req' = [req EXCEPT ![r] = [@ EXCEPT !.pc = "gate", !.kind = "resume",
                                                      !.approved = yes, !.scopes = s]]
      <3>1. PICK yes \in BOOLEAN, s \in ScopeSets :
                  req' = [req EXCEPT ![r] = [@ EXCEPT !.pc = "gate", !.kind = "resume",
                                                      !.approved = yes, !.scopes = s]]
        BY <2>2
      <3>2. PICK x : x = [req[r] EXCEPT !.pc = "gate", !.kind = "resume",
                                        !.approved = yes, !.scopes = s]
        OBVIOUS
      <3>3. "gate" \in PCs /\ req[r] \in RequestType
        BY StepsArePCs DEF Steps, IInv, Typed
      <3>4. /\ x \in RequestType /\ x.pc = "gate" /\ x.kind = "resume"
            /\ x.record = req[r].record /\ x.closes = req[r].closes /\ x.stop = req[r].stop
            /\ x.at = req[r].at /\ x.left = req[r].left
        BY <3>2, <3>3 DEF RequestType
      <3>5. req' = [req EXCEPT ![r] = x] /\ Typed
        BY <3>1, <3>2 DEF IInv
      <3> QED
        BY <3>4, <3>5, Replaced DEF Typed
    <2> QED
      BY <2>1, <2>2 DEF Start
  <1>4. TypeOK'
    <2>1. \A q \in Requests : Bounds(q)'
      BY <1>2, <1>3, TypeOKParts DEF IInv, Bounds
    <2> QED
      BY <1>2, <1>3, <2>1, TypeOKNext, TypeOKParts DEF IInv
  <1>5. Authority'
    BY <1>3 DEF IInv, Authority
  <1>6. StopsCounted'
    BY <1>2, <1>3 DEF IInv, StopsCounted
  <1>7. WritersArePast' /\ WritesAuthorised'
    BY <1>1, <1>2, <1>3, TypeOKParts DEF IInv, WritersArePast, WritesAuthorised
  <1> QED
    BY <1>3, <1>4, <1>5, <1>6, <1>7 DEF IInv

LEMMA GateIInv ==
    ASSUME IInv, NEW r \in Requests, Gate(r) PROVE IInv'
  <1>1. CASE Goto(r, "done")
    BY <1>1, MoveOn DEF Gate, Past, IInv, TypeOK
  <1>2. ASSUME NEW i \in Pending,
               req' = [req EXCEPT ![r] = [@ EXCEPT !.pc = "scope", !.record = i]]
        PROVE  IInv'
    <2>1. i \in Nat /\ i > 0 /\ i \in 0..Len(approvals)
      BY <1>2, PendingRows DEF IInv
    <2>2. \A x \in writes : x.by # r
      BY DEF IInv, WritersArePast, Past, Gate
    <2>3. UNCHANGED <<graph, stops, approvals, writes, calm>> /\ req[r].kind = "resume"
      BY DEF Gate, IInv, Authority
    <2>4. Typed'
      <3>1. PICK x : x = [req[r] EXCEPT !.pc = "scope", !.record = i]
        OBVIOUS
      <3>2. "scope" \in PCs /\ req[r] \in RequestType
        BY StepsArePCs DEF Steps, IInv, Typed
      <3>3. x \in RequestType
        BY <3>1, <3>2, <2>1 DEF RequestType
      <3> QED
        BY <1>2, <3>1, <3>3, Replaced DEF IInv
    <2>5. TypeOK'
      <3>1. \A q \in Requests : Bounds(q)'
        BY <1>2, <2>1, <2>3, TypeOKParts DEF IInv, Typed, RequestType, Bounds
      <3> QED
        BY <2>3, <2>4, <3>1, TypeOKNext, TypeOKParts DEF IInv
    <2>6. Authority'
      BY <1>2, <2>1, <2>3 DEF IInv, Typed, RequestType, Authority
    <2>7. StopsCounted'
      BY <1>2, <2>3 DEF IInv, Typed, RequestType, StopsCounted
    <2>8. WritersArePast' /\ WritesAuthorised'
      BY <1>2, <2>2, <2>3 DEF IInv, Typed, TypeOK, WritersArePast, WritesAuthorised
    <2> QED
      BY <2>4, <2>5, <2>6, <2>7, <2>8 DEF IInv
  <1> QED
    BY <1>1, <1>2 DEF Gate

LEMMA CheckScopeIInv ==
    ASSUME IInv, NEW r \in Requests, CheckScope(r) PROVE IInv'
  <1>1. CASE Goto(r, "done")
    BY <1>1, MoveOn DEF CheckScope, Past, IInv, TypeOK
  <1>2. CASE Goto(r, "load")
    <2>1. \A x \in writes : x.by # r
      BY DEF IInv, WritersArePast, Past, CheckScope
    <2>2. /\ UNCHANGED <<graph, stops, approvals, writes, calm>>
          /\ req[r].record > 0
      BY DEF CheckScope, IInv, Authority
    <2>3. Typed'
      BY <1>2, GotoTyped DEF IInv, Steps
    <2>4. TypeOK'
      BY <1>2, <2>2, <2>3 DEF IInv, Typed, RequestType, TypeOK, PCs, Goto
    <2>5. Authority'
      BY <1>2, <2>2 DEF IInv, Typed, RequestType, Authority, Goto
    <2>6. StopsCounted'
      BY <1>2, <2>2 DEF IInv, Typed, RequestType, StopsCounted, Goto
    <2>7. WritersArePast' /\ WritesAuthorised'
      BY <1>2, <2>1, <2>2 DEF IInv, Typed, TypeOK, WritersArePast, WritesAuthorised, Goto
    <2> QED
      BY <2>3, <2>4, <2>5, <2>6, <2>7 DEF IInv
  <1> QED
    BY <1>1, <1>2 DEF CheckScope

LEMMA LoadIInv ==
    ASSUME IInv, NEW r \in Requests, Load(r) PROVE IInv'
  <1>1. CASE Goto(r, "commit") \/ Goto(r, "decide")
    BY <1>1, MoveOn DEF Load, Past, IInv, TypeOK
  <1>2. CASE /\ req[r].kind = "resume"
             /\ graph.at # {}
             /\ req' = [req EXCEPT ![r] = [@ EXCEPT !.pc = "node", !.at = graph.at,
                                                    !.left = graph.at,
                                                    !.stop = graph.stop]]
    <2>1. \A x \in writes : x.by # r
      BY DEF IInv, WritersArePast, Past, Load
    <2>2. /\ UNCHANGED <<graph, stops, approvals, writes, calm>>
          /\ req[r].record > 0
          /\ graph.at \in SUBSET Actions
          /\ graph.stop \in Nat /\ graph.stop > 0 /\ graph.stop <= stops /\ stops \in Nat
      BY <1>2 DEF Load, IInv, Authority, StopsCounted, TypeOK
    <2>3. Typed'
      <3>1. PICK x : x = [req[r] EXCEPT !.pc = "node", !.at = graph.at,
                                        !.left = graph.at, !.stop = graph.stop]
        OBVIOUS
      <3>2. "node" \in PCs /\ req[r] \in RequestType
        BY StepsArePCs DEF Steps, IInv, Typed
      <3>3. x \in RequestType
        BY <3>1, <3>2, <2>2 DEF RequestType
      <3> QED
        BY <1>2, <3>1, <3>3, Replaced DEF IInv
    <2>4. TypeOK'
      <3>1. \A q \in Requests : Bounds(q)'
        BY <1>2, <2>2, TypeOKParts DEF IInv, Typed, RequestType, Bounds
      <3> QED
        BY <2>2, <2>3, <3>1, TypeOKNext, TypeOKParts DEF IInv
    <2>5. Authority'
      BY <1>2, <2>2 DEF IInv, Typed, RequestType, Authority
    <2>6. StopsCounted'
      BY <1>2, <2>2 DEF IInv, Typed, RequestType, StopsCounted
    <2>7. WritersArePast' /\ WritesAuthorised'
      BY <1>2, <2>1, <2>2 DEF IInv, Typed, TypeOK, WritersArePast, WritesAuthorised
    <2> QED
      BY <2>3, <2>4, <2>5, <2>6, <2>7 DEF IInv
  <1> QED
    BY <1>1, <1>2 DEF Load

(* The steps that write: their request brought the decision, had found the     *)
(* pending record, and holds the scope of the action; it goes on when it has   *)
(* no other left to make, or ends at once.                                     *)
LEMMA WrittenIInv ==
    ASSUME IInv, NEW r \in Requests, NEW a \in req[r].left,
           req[r].pc = "node", req[r].approved, Scope[a] \in req[r].scopes,
           Finish(r, a) \/ Goto(r, "done"),
           writes' = writes \cup {Write(r, a)}, calm' \in BOOLEAN,
           UNCHANGED <<graph, stops, approvals>>
    PROVE  IInv'
  <1>1. /\ req[r].kind = "resume" /\ req[r].record > 0 /\ a \in Actions
        /\ req[r].stop > 0 /\ req[r] \in RequestType /\ a \in req[r].at
        /\ req[r].left \subseteq req[r].at
    BY TypeOKParts DEF IInv, Typed, RequestType, Bounds, Authority, StopsCounted
  <1>2. req[r].stop \in 1..stops
    BY <1>1 DEF IInv, TypeOK
  <1>3. PICK l \in {"commit", "node", "done"}, left \in SUBSET req[r].left :
           /\ req' = [req EXCEPT ![r] = [@ EXCEPT !.left = left, !.pc = l]]
           /\ l = "node" => left # req[r].at
    <2>1. CASE Finish(r, a)
      <3>1. PICK n, m : /\ n = (IF req[r].left = {a} THEN "commit" ELSE "node")
                        /\ m = req[r].left \ {a}
        OBVIOUS
      <3>2. req' = [req EXCEPT ![r] = [@ EXCEPT !.left = m, !.pc = n]]
        BY <2>1, <3>1 DEF Finish
      <3>3. n \in {"commit", "node", "done"} /\ m \in SUBSET req[r].left /\ m # req[r].at
        BY <1>1, <3>1
      <3> QED
        BY <3>2, <3>3
    <2>2. CASE Goto(r, "done")
      <3>1. req' = [req EXCEPT ![r] = [@ EXCEPT !.left = req[r].left, !.pc = "done"]]
        BY <1>1, <2>2 DEF Goto, RequestType
      <3> QED
        BY <3>1
    <2> QED
      BY <2>1, <2>2
  <1>4. PICK new : new = [req[r] EXCEPT !.left = left, !.pc = l]
    OBVIOUS
  <1>5. /\ new \in RequestType
        /\ new.pc = l /\ new.left = left
        /\ new.at = req[r].at /\ new.kind = req[r].kind /\ new.stop = req[r].stop
        /\ new.record = req[r].record /\ new.closes = req[r].closes
        /\ new.approved = req[r].approved /\ new.scopes = req[r].scopes
    <2>1. l \in PCs /\ left \in SUBSET Actions
      BY <1>1 DEF PCs, Steps, RequestType
    <2> QED
      BY <1>1, <1>4, <2>1 DEF RequestType
  <1>6. /\ req' = [req EXCEPT ![r] = new]
        /\ req'[r] = new
        /\ \A q \in Requests \ {r} : req'[q] = req[q]
    BY <1>3, <1>4 DEF IInv, Typed
  <1>7. Typed'
    BY <1>5, <1>6, Replaced DEF IInv
  <1>8. TypeOK'
    <2>1. writes' \subseteq [by : Requests, action : Actions, stop : 1..stops']
      BY <1>1, <1>2, TypeOKParts DEF IInv, Write
    <2>2. ASSUME NEW q \in Requests PROVE Bounds(q)'
      BY <1>1, <1>5, <1>6, TypeOKParts DEF IInv, Bounds
    <2> QED
      BY <1>7, <2>1, <2>2, TypeOKNext, TypeOKParts DEF IInv
  <1>9. Authority'
    BY <1>1, <1>5, <1>6 DEF IInv, Authority
  <1>10. StopsCounted'
    BY <1>1, <1>5, <1>6 DEF IInv, StopsCounted
  <1>11. \A x \in writes : x.by \in Requests
    BY TypeOKParts DEF IInv
  <1>12. Write(r, a).by = r /\ Write(r, a).action = a
    BY DEF Write
  <1>13. WritersArePast'
    BY <1>3, <1>5, <1>6, <1>11, <1>12 DEF IInv, WritersArePast, Past
  <1>14. WritesAuthorised'
    <2>1. ASSUME NEW x \in writes'
          PROVE  /\ req'[x.by].kind = "resume"
                 /\ req'[x.by].approved
                 /\ req'[x.by].record > 0
                 /\ Scope[x.action] \in req'[x.by].scopes
      <3>1. CASE x \in writes
        <4>1. /\ req[x.by].kind = "resume" /\ req[x.by].approved
              /\ req[x.by].record > 0 /\ Scope[x.action] \in req[x.by].scopes
          BY <3>1 DEF IInv, WritesAuthorised
        <4>2. CASE x.by = r
          BY <1>5, <1>6, <4>1, <4>2
        <4>3. CASE x.by # r
          BY <1>6, <1>11, <3>1, <4>1, <4>3
        <4> QED
          BY <4>2, <4>3
      <3>2. CASE x = Write(r, a)
        BY <1>1, <1>5, <1>6, <1>12, <3>2
      <3> QED
        BY <2>1, <3>1, <3>2
    <2> QED
      BY <2>1 DEF WritesAuthorised
  <1> QED
    BY <1>7, <1>8, <1>9, <1>10, <1>13, <1>14 DEF IInv

LEMMA CommitIInv ==
    ASSUME IInv, NEW r \in Requests, Commit(r) PROVE IInv'
  <1>1. PICK l \in Past, b \in BOOLEAN :
           req' = [req EXCEPT ![r] = [@ EXCEPT !.pc = l, !.interrupted = b]]
    <2>1. ASSUME NEW l \in Past, Goto(r, l)
          PROVE  req' = [req EXCEPT ![r] = [@ EXCEPT !.pc = l,
                                             !.interrupted = req[r].interrupted]]
      BY <2>1 DEF Goto, IInv, Typed, RequestType
    <2>2. req[r].interrupted \in BOOLEAN
      BY DEF IInv, Typed, RequestType
    <2>3. \/ Goto(r, "decide") \/ Goto(r, "done")
          \/ \E l \in Past : req' = [req EXCEPT ![r] = [@ EXCEPT !.pc = l,
                                                            !.interrupted = TRUE]]
      BY DEF Commit, Past
    <2> QED
      BY <2>1, <2>2, <2>3 DEF Past
  <1>2. /\ stops \in Nat /\ stops' \in Nat /\ stops <= stops'
        /\ graph' \in [at : SUBSET Actions, stop : Nat]
        /\ graph'.stop <= stops'
        /\ graph'.at # {} => graph'.stop > 0
    BY AssistantThreadAssumption DEF Commit, IInv, TypeOK
  <1>3. UNCHANGED <<approvals, writes, calm>>
    BY DEF Commit
  <1>4. Typed'
    <2>1. PICK x : x = [req[r] EXCEPT !.pc = l, !.interrupted = b]
      OBVIOUS
    <2>2. l \in PCs /\ req[r] \in RequestType
      BY StepsArePCs DEF IInv, Typed
    <2>3. x \in RequestType
      BY <2>1, <2>2 DEF RequestType
    <2> QED
      BY <1>1, <2>1, <2>3, Replaced DEF IInv
  <1>5. TypeOK'
    <2>1. \A q \in Requests : Bounds(q)'
      BY <1>1, <1>2, <1>3, TypeOKParts DEF IInv, Typed, RequestType, Bounds
    <2>2. writes' \subseteq [by : Requests, action : Actions, stop : 1..stops']
      BY <1>2, <1>3, TypeOKParts DEF IInv
    <2> QED
      BY <1>2, <1>3, <1>4, <2>1, <2>2, TypeOKNext, TypeOKParts DEF IInv
  <1>6. Authority'
    BY <1>1 DEF IInv, Typed, RequestType, Authority, Past
  <1>7. StopsCounted'
    BY <1>1, <1>2 DEF IInv, Typed, RequestType, StopsCounted, Past
  <1>8. WritersArePast' /\ WritesAuthorised'
    BY <1>1, <1>3 DEF IInv, Typed, RequestType, TypeOK, WritersArePast, WritesAuthorised
  <1> QED
    BY <1>4, <1>5, <1>6, <1>7, <1>8 DEF IInv

LEMMA DecideIInv ==
    ASSUME IInv, NEW r \in Requests, Decide(r) PROVE IInv'
  <1>1. CASE Goto(r, "done")
    BY <1>1, MoveOn DEF Decide, Past, IInv, TypeOK
  <1>2. ASSUME NEW i \in Pending,
               req' = [req EXCEPT ![r] = [@ EXCEPT !.pc = "close", !.closes = i]]
        PROVE  IInv'
    <2>1. i \in Nat /\ i \in 0..Len(approvals)
      BY <1>2, PendingRows DEF IInv
    <2>2. UNCHANGED <<graph, stops, approvals, writes, calm>>
      BY DEF Decide
    <2>3. Typed'
      <3>1. PICK x : x = [req[r] EXCEPT !.pc = "close", !.closes = i]
        OBVIOUS
      <3>2. "close" \in PCs /\ req[r] \in RequestType
        BY StepsArePCs DEF Steps, IInv, Typed
      <3>3. x \in RequestType
        BY <3>1, <3>2, <2>1 DEF RequestType
      <3> QED
        BY <1>2, <3>1, <3>3, Replaced DEF IInv
    <2>4. TypeOK'
      <3>1. \A q \in Requests : Bounds(q)'
        BY <1>2, <2>1, <2>2, TypeOKParts DEF IInv, Typed, RequestType, Bounds
      <3> QED
        BY <2>2, <2>3, <3>1, TypeOKNext, TypeOKParts DEF IInv
    <2>5. Authority'
      BY <1>2 DEF IInv, Typed, RequestType, Authority
    <2>6. StopsCounted'
      BY <1>2, <2>2 DEF IInv, Typed, RequestType, StopsCounted
    <2>7. WritersArePast' /\ WritesAuthorised'
      BY <1>2, <2>2 DEF IInv, Typed, RequestType, TypeOK, WritersArePast,
                        WritesAuthorised, Past
    <2> QED
      BY <2>3, <2>4, <2>5, <2>6, <2>7 DEF IInv
  <1> QED
    BY <1>1, <1>2 DEF Decide

(* Steps that write to approvals leave no row out.                             *)
LEMMA ApprovalsIInv ==
    ASSUME IInv, NEW r \in Requests, NEW l \in Past, Goto(r, l),
           UNCHANGED <<graph, stops, writes, calm>>,
           approvals' \in Seq({"pending", "approved", "rejected"}),
           Len(approvals) <= Len(approvals')
    PROVE  IInv'
  <1>1. Typed'
    BY GotoTyped DEF IInv
  <1>2. TypeOK'
    <2>1. \A q \in Requests : {req[q].record, req[q].closes} \subseteq 0..Len(approvals')
      BY DEF IInv, TypeOK
    <2> QED
      BY <1>1, <2>1 DEF IInv, Typed, RequestType, TypeOK, PCs, Goto
  <1>3. Authority'
    BY DEF IInv, Typed, RequestType, Authority, Past, Goto
  <1>4. StopsCounted'
    BY DEF IInv, Typed, RequestType, StopsCounted, Past, Goto
  <1>5. WritersArePast' /\ WritesAuthorised'
    BY DEF IInv, Typed, RequestType, TypeOK, WritersArePast, WritesAuthorised, Goto
  <1> QED
    BY <1>1, <1>2, <1>3, <1>4, <1>5 DEF IInv

(* Every step keeps the invariant.                                             *)
LEMMA NextIInv == IInv /\ [Next]_vars => IInv'
  <1> SUFFICES ASSUME IInv, [Next]_vars PROVE IInv'
    OBVIOUS
  <1>1. CASE UNCHANGED vars
    BY <1>1 DEF vars, IInv, Typed, TypeOK, Authority, StopsCounted, WritersArePast,
                WritesAuthorised
  <1>2. ASSUME NEW r \in Requests, Timeout(r) PROVE IInv'
    BY <1>2, MoveOn DEF Timeout, Past
  <1>3. ASSUME NEW r \in Requests, Close(r) PROVE IInv'
    <2>1. PICK l \in Past : Goto(r, l)
      BY <1>3 DEF Close, Past
    <2>2. approvals \in Seq({"pending", "approved", "rejected"})
      BY DEF IInv, TypeOK
    <2>3. /\ approvals' \in Seq({"pending", "approved", "rejected"})
          /\ Len(approvals') = Len(approvals)
      <3> DEFINE i == req[r].closes
                 e == IF req[r].approved THEN "approved" ELSE "rejected"
      <3>1. approvals' = [approvals EXCEPT ![i] = e]
        BY <1>3 DEF Close
      <3>2. i \in 0..Len(approvals) /\ e \in {"pending", "approved", "rejected"}
        BY TypeOKParts DEF IInv, Bounds
      <3>3. CASE i \in 1..Len(approvals)
        BY <2>2, <3>1, <3>2, <3>3, ExceptSeq
      <3>4. CASE i \notin 1..Len(approvals)
        <4>1. approvals' = approvals
          BY <2>2, <3>1, <3>4
        <4> QED
          BY <2>2, <4>1
      <3> QED
        BY <3>3, <3>4
    <2>4. UNCHANGED <<graph, stops, writes, calm>>
      BY <1>3 DEF Close
    <2> QED
      BY <2>1, <2>2, <2>3, <2>4, ApprovalsIInv
  <1>4. ASSUME NEW r \in Requests, Look(r) PROVE IInv'
    BY <1>4, MoveOn DEF Look, Past, IInv, TypeOK
  <1>5. ASSUME NEW r \in Requests, Insert(r) PROVE IInv'
    <2>1. approvals \in Seq({"pending", "approved", "rejected"})
      BY DEF IInv, TypeOK
    <2>2. approvals' = Append(approvals, "pending")
      BY <1>5 DEF Insert
    <2>3. /\ approvals' \in Seq({"pending", "approved", "rejected"})
          /\ Len(approvals) <= Len(approvals')
      BY <2>1, <2>2
    <2> QED
      BY <1>5, <2>3, ApprovalsIInv DEF Insert, Past
  <1>6. ASSUME NEW r \in Requests, Crash(r) PROVE IInv'
    BY <1>6, MoveOn DEF Crash, Past
  <1>7. ASSUME NEW r \in Requests, Rejected(r) \/ Raised(r) PROVE IInv'
    BY <1>7, MoveOn DEF Rejected, Raised, Past, IInv, TypeOK
  <1>8. ASSUME NEW r \in Requests, NEW a \in Actions, Written(r, a) PROVE IInv'
    BY <1>8, WrittenIInv DEF Written, IInv, TypeOK
  <1>9. ASSUME NEW r \in Requests, NEW a \in Actions, WrittenRaised(r, a) PROVE IInv'
    BY <1>9, WrittenIInv DEF WrittenRaised
  <1> QED
    BY <1>1, <1>2, <1>3, <1>4, <1>5, <1>6, StartIInv, GateIInv, CheckScopeIInv,
       <1>7, <1>8, <1>9, LoadIInv, CommitIInv, DecideIInv DEF Next

LEMMA InvariantHolds == Spec => []IInv
  BY InitIInv, NextIInv, PTL DEF Spec

-----------------------------------------------------------------------------
(* The checkpoint, the approval rows, the requests and the writes keep their   *)
(* types: a write is always made at a stop that was raised, for an action.     *)
THEOREM TypeCorrect == Spec => []TypeOK
  <1>1. IInv => TypeOK
    BY DEF IInv
  <1> QED
    BY <1>1, InvariantHolds, PTL

(* The promise of the approval flow that no interleaving of API requests,      *)
(* timeouts and crashes breaks: a controlled write is made only on a decision  *)
(* that says yes, brought while an approval was pending, by an operator with   *)
(* the scope of that very action.                                              *)
THEOREM WritesAreAuthorised == Spec => []WritesAuthorised
  <1>1. IInv => WritesAuthorised
    BY DEF IInv
  <1> QED
    BY <1>1, InvariantHolds, PTL

-----------------------------------------------------------------------------
(* A step of the one active request: the others are at no step.                *)
LEMMA CalmStep ==
    ASSUME IInv, CalmInv, NEW r \in Requests, NEW new,
           req' = [req EXCEPT ![r] = new],
           new.pc # "unused",
           calm' => /\ \A q \in Requests \ {r} : ~Active(q)
                    /\ AtMostOne'
                    /\ AtStep(new)'
                    /\ graph'.at # {} => OnePending' \/ new.pc \in {"look", "insert"}
                    /\ Consumed'
                    /\ Fresh'
                    /\ SingleUse'
    PROVE  CalmInv'
  <1>1. /\ req'[r] = new
        /\ \A q \in Requests \ {r} : req'[q] = req[q]
    BY DEF IInv, Typed
  <1>2. \A q \in Requests : req'[q].pc = "unused" => ~req'[q].interrupted
    BY <1>1 DEF CalmInv
  <1>3. ASSUME calm' PROVE Alone' /\ Waits'
    BY <1>1, <1>3 DEF Alone, Waits, Active
  <1>4. ASSUME calm', NEW q \in Requests \ {r} PROVE AtStep(req[q])'
    BY <1>1, <1>4 DEF Active, Steps, AtStep
  <1> QED
    BY <1>1, <1>2, <1>3, <1>4 DEF CalmInv

(* A step that leaves graph, records and writes alone.                         *)
LEMMA MoveCalm ==
    ASSUME IInv, CalmInv, NEW r \in Requests, NEW new, Active(r),
           req' = [req EXCEPT ![r] = new],
           UNCHANGED <<graph, approvals, writes, calm>>,
           new.pc # "unused",
           calm => /\ AtStep(new)
                   /\ graph.at # {} => OnePending \/ new.pc \in {"look", "insert"},
           \/ \A x \in writes : x.by # r
           \/ /\ req[r].pc \notin {"node", "commit"}
              /\ new.record = req[r].record
              /\ calm /\ new.record \in Pending => new.pc \in {"node", "commit", "decide", "close"}
    PROVE  CalmInv'
  <1>1. /\ req'[r] = new
        /\ \A q \in Requests \ {r} : req'[q] = req[q]
    BY DEF IInv, Typed
  <1>2. Pending' = Pending /\ OnePending' = OnePending
    BY DEF Pending, OnePending
  <1>3. AtStep(new)' = AtStep(new)
    BY <1>2 DEF AtStep
  <1>4. \A x \in writes : x.by \in Requests
    BY TypeOKParts DEF IInv
  <1>5. ASSUME calm PROVE Consumed' /\ Fresh' /\ SingleUse'
    <2>1. Consumed /\ Fresh /\ SingleUse
      BY <1>5 DEF CalmInv
    <2>2. Consumed'
      BY <1>1, <1>2, <1>4, <1>5, <2>1 DEF Consumed
    <2>3. Fresh'
      BY <1>1, <1>4, <2>1 DEF Fresh
    <2>4. SingleUse'
      BY <1>1, <1>4, <2>1 DEF SingleUse
    <2> QED
      BY <2>2, <2>3, <2>4
  <1>6. calm => AtMostOne' /\ \A q \in Requests \ {r} : ~Active(q)
    BY <1>2 DEF CalmInv, Alone, AtMostOne
  <1> QED
    BY <1>2, <1>3, <1>5, <1>6, CalmStep

(* The request a step moves on, and nothing else about it.                     *)
LEMMA GotoIs ==
    ASSUME IInv, NEW r \in Requests, NEW l \in PCs, Goto(r, l)
    PROVE  \E new \in RequestType :
              /\ req' = [req EXCEPT ![r] = new]
              /\ new.pc = l /\ new.kind = req[r].kind /\ new.record = req[r].record
              /\ new.closes = req[r].closes /\ new.interrupted = req[r].interrupted
              /\ new.stop = req[r].stop
  <1>1. PICK new : new = [req[r] EXCEPT !.pc = l]
    OBVIOUS
  <1>2. req[r] \in RequestType
    BY DEF IInv, Typed
  <1>3. /\ new \in RequestType
        /\ new.pc = l /\ new.kind = req[r].kind /\ new.record = req[r].record
        /\ new.closes = req[r].closes /\ new.interrupted = req[r].interrupted
        /\ new.stop = req[r].stop
    BY <1>1, <1>2 DEF RequestType
  <1>4. req' = [req EXCEPT ![r] = new]
    BY <1>1 DEF Goto
  <1> QED
    BY <1>3, <1>4

(* A request that ends, with the decision pending if the graph is stopped.     *)
LEMMA DoneCalm ==
    ASSUME IInv, CalmInv, NEW r \in Requests, Active(r), Goto(r, "done"),
           UNCHANGED <<graph, approvals, writes, calm>>,
           calm /\ graph.at # {} => OnePending,
           \/ \A x \in writes : x.by # r
           \/ /\ req[r].pc \notin {"node", "commit"}
              /\ calm => req[r].record \notin Pending
    PROVE  CalmInv'
  <1>1. PICK new \in RequestType :
           /\ req' = [req EXCEPT ![r] = new]
           /\ new.pc = "done" /\ new.record = req[r].record
    BY GotoIs DEF PCs
  <1>2. AtStep(new)
    BY <1>1 DEF AtStep
  <1> QED
    BY <1>1, <1>2, MoveCalm

(* A request that is not past its node has not written, nor one that is at it  *)
(* with every write left to make.                                              *)
LEMMA NotPastNotWritten ==
    ASSUME IInv, NEW r \in Requests, req[r].pc \notin Past,
           req[r].pc = "node" => req[r].left = req[r].at
    PROVE  \A x \in writes : x.by # r
  BY DEF IInv, WritersArePast

LEMMA StartCalm ==
    ASSUME IInv, CalmInv, NEW r \in Requests, Start(r) PROVE CalmInv'
  <1>1. /\ req[r].pc = "unused" /\ ~req[r].interrupted
        /\ UNCHANGED <<graph, approvals, writes>>
        /\ calm' => calm /\ \A q \in Requests : ~Active(q)
        /\ \A x \in writes : x.by # r
    BY NotPastNotWritten DEF Start, CalmInv, Past
  <1>2. PICK new : /\ req' = [req EXCEPT ![r] = new]
                   /\ \/ new.pc = "load" /\ new.kind = "invoke"
                      \/ new.pc = "gate" /\ new.kind = "resume"
                   /\ ~new.interrupted
    <2>1. req[r] \in RequestType
      BY DEF IInv, Typed
    <2>2. CASE req' = [req EXCEPT ![r] = [@ EXCEPT !.pc = "load", !.kind = "invoke"]]
      <3>1. PICK n : n = [req[r] EXCEPT !.pc = "load", !.kind = "invoke"]
        OBVIOUS
      <3>2. n.pc = "load" /\ n.kind = "invoke" /\ n.interrupted = req[r].interrupted
        BY <2>1, <3>1 DEF RequestType
      <3>3. req' = [req EXCEPT ![r] = n]
        BY <2>2, <3>1
      <3> QED
        BY <1>1, <3>2, <3>3
    <2>3. CASE \E yes \in BOOLEAN, s \in ScopeSets :
                  req' = [req EXCEPT ![r] = [@ EXCEPT !.pc = "gate", !.kind = "resume",
                                                      !.approved = yes, !.scopes = s]]
      <3>1. PICK yes \in BOOLEAN, s \in ScopeSets :
                  req' = [req EXCEPT ![r] = [@ EXCEPT !.pc = "gate", !.kind = "resume",
                                                      !.approved = yes, !.scopes = s]]
        BY <2>3
      <3>2. PICK n : n = [req[r] EXCEPT !.pc = "gate", !.kind = "resume",
                                        !.approved = yes, !.scopes = s]
        OBVIOUS
      <3>3. n.pc = "gate" /\ n.kind = "resume" /\ n.interrupted = req[r].interrupted
        BY <2>1, <3>2 DEF RequestType
      <3>4. req' = [req EXCEPT ![r] = n]
        BY <3>1, <3>2
      <3> QED
        BY <1>1, <3>3, <3>4
    <2> QED
      BY <2>2, <2>3 DEF Start
  <1>3. /\ req'[r] = new
        /\ \A q \in Requests \ {r} : req'[q] = req[q]
    BY <1>2 DEF IInv, Typed
  <1>4. Pending' = Pending /\ OnePending' = OnePending
    BY <1>1 DEF Pending, OnePending
  <1>5. AtStep(new)'
    BY <1>2 DEF AtStep
  <1>6. \A x \in writes : x.by \in Requests
    BY TypeOKParts DEF IInv
  <1>7. ASSUME calm' PROVE AtMostOne' /\ Consumed' /\ Fresh' /\ SingleUse'
    BY <1>1, <1>3, <1>4, <1>6, <1>7 DEF CalmInv, AtMostOne, Consumed, Fresh, SingleUse
  <1>8. ASSUME calm' PROVE graph'.at # {} => OnePending'
    BY <1>1, <1>4, <1>8 DEF CalmInv, Waits, Active, Steps
  <1> QED
    BY <1>1, <1>2, <1>5, <1>7, <1>8, CalmStep

(* What an active request knows while requests come one at a time.             *)
LEMMA CalmFacts ==
    ASSUME IInv, CalmInv, calm, NEW r \in Requests, Active(r)
    PROVE  /\ AtMostOne /\ AtStep(req[r]) /\ Consumed /\ Fresh /\ SingleUse
           /\ graph.at # {} => OnePending \/ req[r].pc \in {"look", "insert"}
           /\ Pending = {req[r].record} => OnePending
           /\ \A q \in Requests \ {r} : ~Active(q)
  <1>1. graph.at # {} => OnePending \/ req[r].pc \in {"look", "insert"}
    BY DEF CalmInv, Alone, Waits, Active, Steps
  <1>2. Pending = {req[r].record} => OnePending
    BY DEF OnePending
  <1> QED
    BY <1>1, <1>2 DEF CalmInv, Alone

LEMMA GateCalm ==
    ASSUME IInv, CalmInv, NEW r \in Requests, Gate(r) PROVE CalmInv'
  <1>1. /\ req[r].pc = "gate" /\ Active(r)
        /\ UNCHANGED <<graph, approvals, writes, calm>>
        /\ \A x \in writes : x.by # r
    BY NotPastNotWritten DEF Gate, Active, Steps, Past
  <1>2. CASE Goto(r, "done")
    BY <1>1, <1>2, CalmFacts, DoneCalm
  <1>3. ASSUME NEW i \in Pending, OnePending,
               req' = [req EXCEPT ![r] = [@ EXCEPT !.pc = "scope", !.record = i]]
        PROVE  CalmInv'
    <2>1. PICK new : new = [req[r] EXCEPT !.pc = "scope", !.record = i]
      OBVIOUS
    <2>2. /\ new.pc = "scope" /\ new.record = i
          /\ new.interrupted = req[r].interrupted
      BY <2>1 DEF IInv, Typed, RequestType
    <2>3. req' = [req EXCEPT ![r] = new]
      BY <1>3, <2>1
    <2>4. Pending = {i}
      BY <1>3 DEF OnePending
    <2>5. calm => AtStep(new)
      BY <1>1, <2>2, <2>4, CalmFacts DEF AtStep
    <2> QED
      BY <1>1, <1>3, <2>2, <2>3, <2>5, MoveCalm
  <1> QED
    BY <1>2, <1>3 DEF Gate

LEMMA CheckScopeCalm ==
    ASSUME IInv, CalmInv, NEW r \in Requests, CheckScope(r) PROVE CalmInv'
  <1>1. /\ req[r].pc = "scope" /\ Active(r)
        /\ UNCHANGED <<graph, approvals, writes, calm>>
        /\ \A x \in writes : x.by # r
    BY NotPastNotWritten DEF CheckScope, Active, Steps, Past
  <1>2. CASE Goto(r, "done")
    BY <1>1, <1>2, CalmFacts, DoneCalm
  <1>3. CASE Goto(r, "load")
    <2>1. PICK new \in RequestType :
             /\ req' = [req EXCEPT ![r] = new]
             /\ new.pc = "load" /\ new.record = req[r].record
             /\ new.interrupted = req[r].interrupted
      BY <1>3, GotoIs DEF PCs, Steps
    <2>2. calm => AtStep(new)
      BY <1>1, <2>1, CalmFacts DEF AtStep
    <2> QED
      BY <1>1, <2>1, <2>2, CalmFacts, MoveCalm
  <1> QED
    BY <1>2, <1>3 DEF CheckScope

LEMMA LoadCalm ==
    ASSUME IInv, CalmInv, NEW r \in Requests, Load(r) PROVE CalmInv'
  <1>1. /\ req[r].pc = "load" /\ Active(r)
        /\ UNCHANGED <<graph, approvals, writes, calm>>
        /\ \A x \in writes : x.by # r
    BY NotPastNotWritten DEF Load, Active, Steps, Past
  <1>2. \E new : /\ req' = [req EXCEPT ![r] = new]
                 /\ new.kind = req[r].kind /\ new.record = req[r].record
                 /\ new.interrupted = req[r].interrupted
                 /\ \/ new.pc = "commit" /\ req[r].kind = "invoke"
                    \/ new.pc = "decide" /\ req[r].kind = "resume" /\ graph.at = {}
                    \/ /\ new.pc = "node" /\ req[r].kind = "resume"
                       /\ graph.at # {} /\ new.stop = graph.stop
    <2>1. CASE req[r].kind = "invoke" /\ Goto(r, "commit")
      BY <2>1, GotoIs DEF PCs, Steps
    <2>2. CASE req[r].kind = "resume" /\ graph.at = {} /\ Goto(r, "decide")
      BY <2>2, GotoIs DEF PCs, Steps
    <2>3. CASE /\ req[r].kind = "resume" /\ graph.at # {}
               /\ req' = [req EXCEPT ![r] = [@ EXCEPT !.pc = "node", !.at = graph.at,
                                                      !.left = graph.at,
                                                      !.stop = graph.stop]]
      <3>1. PICK n : n = [req[r] EXCEPT !.pc = "node", !.at = graph.at,
                                        !.left = graph.at, !.stop = graph.stop]
        OBVIOUS
      <3>2. /\ n.pc = "node" /\ n.kind = req[r].kind /\ n.record = req[r].record
            /\ n.interrupted = req[r].interrupted /\ n.stop = graph.stop
        BY <3>1 DEF IInv, Typed, RequestType
      <3>3. req' = [req EXCEPT ![r] = n]
        BY <2>3, <3>1
      <3> QED
        BY <2>3, <3>2, <3>3
    <2> QED
      BY <2>1, <2>2, <2>3 DEF Load
  <1>3. PICK new : /\ req' = [req EXCEPT ![r] = new]
                   /\ new.kind = req[r].kind /\ new.record = req[r].record
                   /\ new.interrupted = req[r].interrupted
                   /\ \/ new.pc = "commit" /\ req[r].kind = "invoke"
                      \/ new.pc = "decide" /\ req[r].kind = "resume" /\ graph.at = {}
                      \/ /\ new.pc = "node" /\ req[r].kind = "resume"
                       /\ graph.at # {} /\ new.stop = graph.stop
    BY <1>2
  <1>4. calm => AtStep(new)
    BY <1>1, <1>3, CalmFacts DEF AtStep
  <1> QED
    BY <1>1, <1>3, <1>4, CalmFacts, MoveCalm

LEMMA RejectedCalm ==
    ASSUME IInv, CalmInv, NEW r \in Requests, Rejected(r) PROVE CalmInv'
  <1>1. /\ req[r].pc = "node" /\ Active(r)
        /\ UNCHANGED <<graph, approvals, writes, calm>>
        /\ \A x \in writes : x.by # r
    BY DEF Rejected, Active, Steps, IInv, WritesAuthorised
  <1>2. PICK new \in RequestType :
           /\ req' = [req EXCEPT ![r] = new]
           /\ new.pc = "commit" /\ new.record = req[r].record
           /\ new.interrupted = req[r].interrupted
    BY GotoIs DEF Rejected, PCs, Steps
  <1>3. calm => AtStep(new)
    BY <1>1, <1>2, CalmFacts DEF AtStep
  <1> QED
    BY <1>1, <1>2, <1>3, CalmFacts, MoveCalm

(* A write under its record, and at its stop: others there would be made by a  *)
(* request that is still on the way to close the record, which is this one.    *)
LEMMA WrittenCalm ==
    ASSUME IInv, CalmInv, NEW r \in Requests, NEW a \in Actions, Written(r, a)
    PROVE  CalmInv'
  <1>1. /\ req[r].pc = "node" /\ Active(r)
        /\ UNCHANGED <<graph, approvals, calm>>
        /\ writes' = writes \cup {Write(r, a)}
    BY DEF Written, Active, Steps
  <1>2. PICK new : /\ req' = [req EXCEPT ![r] = new]
                   /\ new.pc \in {"node", "commit"} /\ new.record = req[r].record
                   /\ new.stop = req[r].stop
                   /\ new.interrupted = req[r].interrupted
    <2>1. PICK l, m : /\ l = (IF req[r].left = {a} THEN "commit" ELSE "node")
                      /\ m = req[r].left \ {a}
      OBVIOUS
    <2>2. PICK n : n = [req[r] EXCEPT !.left = m, !.pc = l]
      OBVIOUS
    <2>3. /\ n.pc \in {"node", "commit"} /\ n.record = req[r].record
          /\ n.stop = req[r].stop /\ n.interrupted = req[r].interrupted
      BY <2>1, <2>2 DEF IInv, Typed, RequestType
    <2>4. req' = [req EXCEPT ![r] = n]
      BY <2>1, <2>2 DEF Written, Finish
    <2> QED
      BY <2>3, <2>4
  <1>3. Pending' = Pending /\ OnePending' = OnePending
    BY <1>1 DEF Pending, OnePending
  <1>4. /\ req'[r] = new
        /\ \A q \in Requests \ {r} : req'[q] = req[q]
    BY <1>2 DEF IInv, Typed
  <1>5. Write(r, a).by = r /\ Write(r, a).stop = req[r].stop
    BY DEF Write
  <1>6. \A x \in writes : x.by \in Requests
    BY TypeOKParts DEF IInv
  <1>7. ASSUME calm PROVE AtMostOne' /\ AtStep(new)' /\ Consumed' /\ Fresh' /\ SingleUse'
    <2>1. /\ AtMostOne /\ AtStep(req[r]) /\ Consumed /\ Fresh /\ SingleUse
          /\ \A q \in Requests \ {r} : ~Active(q)
      BY <1>1, <1>7, CalmFacts
    <2>2. Pending = {req[r].record} /\ graph.at # {} /\ req[r].stop = graph.stop
      BY <1>1, <2>1 DEF AtStep
    <2>3. AtMostOne' /\ AtStep(new)'
      BY <1>1, <1>2, <1>3, <2>1, <2>2 DEF AtMostOne, AtStep
    <2>4. Consumed'
      BY <1>1, <1>2, <1>3, <1>4, <1>5, <1>6, <2>1 DEF Consumed
    <2>5. Fresh'
      BY <1>1, <1>2, <1>4, <1>5, <1>6, <2>1 DEF Fresh
    <2>6. \A x \in writes : req[x.by].record = req[r].record => x.by = r
      BY <1>6, <2>1, <2>2 DEF Consumed, Active, Steps
    <2>7. \A x \in writes : x.stop = req[r].stop => x.by = r
      BY <1>6, <2>1, <2>2 DEF Fresh, Active, Steps
    <2>8. SingleUse'
      BY <1>1, <1>2, <1>4, <1>5, <1>6, <2>1, <2>6, <2>7 DEF SingleUse
    <2> QED
      BY <2>3, <2>4, <2>5, <2>8
  <1>8. calm /\ graph.at # {} => OnePending
    BY <1>1, CalmFacts
  <1>9. calm => \A q \in Requests \ {r} : ~Active(q)
    BY <1>1, CalmFacts
  <1> QED
    BY <1>1, <1>2, <1>3, <1>7, <1>8, <1>9, CalmStep

(* A step after which requests do not count as coming one at a time.           *)
LEMMA NotCalm ==
    ASSUME IInv, CalmInv, NEW r \in Requests, NEW l \in PCs \ {"unused"}, Goto(r, l),
           calm' = FALSE
    PROVE  CalmInv'
  <1>1. PICK new \in RequestType : req' = [req EXCEPT ![r] = new] /\ new.pc = l
    BY GotoIs
  <1> QED
    BY <1>1, CalmStep

LEMMA RaisedCalm ==
    ASSUME IInv, CalmInv, NEW r \in Requests, Raised(r) PROVE CalmInv'
  <1>1. /\ req[r].pc = "node" /\ Active(r)
        /\ UNCHANGED <<graph, approvals, writes>>
        /\ calm' = (calm /\ req[r].left = req[r].at)
        /\ Goto(r, "done")
    BY DEF Raised, Active, Steps
  <1>2. CASE req[r].left = req[r].at
    <2>1. calm' = calm
      BY <1>1, <1>2, TypeOKParts DEF IInv
    <2>2. \A x \in writes : x.by # r
      BY <1>1, <1>2, NotPastNotWritten DEF Past
    <2> QED
      BY <1>1, <2>1, <2>2, CalmFacts, DoneCalm
  <1>3. CASE req[r].left # req[r].at
    <2>1. calm' = FALSE
      BY <1>1, <1>3, TypeOKParts DEF IInv
    <2> QED
      BY <1>1, <2>1, NotCalm DEF PCs
  <1> QED
    BY <1>2, <1>3

LEMMA CommitCalm ==
    ASSUME IInv, CalmInv, NEW r \in Requests, Commit(r) PROVE CalmInv'
  <1>1. /\ req[r].pc = "commit" /\ Active(r)
        /\ UNCHANGED <<approvals, writes, calm>>
        /\ req[r] \in RequestType
    BY DEF Commit, Active, Steps, IInv, Typed
  <1>2. \E new : /\ req' = [req EXCEPT ![r] = new]
                 /\ new.kind = req[r].kind /\ new.record = req[r].record
                 /\ \/ /\ graph'.at = {}
                       /\ new.pc = IF req[r].kind = "resume" THEN "decide" ELSE "done"
                       /\ new.interrupted = req[r].interrupted
                    \/ /\ new.pc = IF req[r].kind = "resume" THEN "decide" ELSE "look"
                       /\ new.interrupted
    <2>1. CASE /\ graph' = [at |-> {}, stop |-> stops]
               /\ Goto(r, IF req[r].kind = "resume" THEN "decide" ELSE "done")
      <3>1. CASE req[r].kind = "resume"
        BY <2>1, <3>1, GotoIs DEF PCs, Steps
      <3>2. CASE req[r].kind # "resume"
        BY <2>1, <3>2, GotoIs DEF PCs, Steps
      <3> QED
        BY <3>1, <3>2
    <2>2. CASE req' = [req EXCEPT ![r] =
                         [@ EXCEPT !.pc = IF req[r].kind = "resume" THEN "decide" ELSE "look",
                                   !.interrupted = TRUE]]
      <3>1. PICK n : n = [req[r] EXCEPT !.pc = IF req[r].kind = "resume" THEN "decide"
                                                                         ELSE "look",
                                        !.interrupted = TRUE]
        OBVIOUS
      <3>2. /\ n.pc = IF req[r].kind = "resume" THEN "decide" ELSE "look"
            /\ n.interrupted /\ n.kind = req[r].kind /\ n.record = req[r].record
        BY <1>1, <3>1 DEF RequestType
      <3>3. req' = [req EXCEPT ![r] = n]
        BY <2>2, <3>1
      <3> QED
        BY <3>2, <3>3
    <2> QED
      BY <2>1, <2>2 DEF Commit
  <1>3. PICK new : /\ req' = [req EXCEPT ![r] = new]
                   /\ new.kind = req[r].kind /\ new.record = req[r].record
                   /\ \/ /\ graph'.at = {}
                         /\ new.pc = IF req[r].kind = "resume" THEN "decide" ELSE "done"
                         /\ new.interrupted = req[r].interrupted
                      \/ /\ new.pc = IF req[r].kind = "resume" THEN "decide" ELSE "look"
                         /\ new.interrupted
    BY <1>2
  <1>4. Pending' = Pending /\ OnePending' = OnePending
    BY <1>1 DEF Pending, OnePending
  <1>5. /\ req'[r] = new
        /\ \A q \in Requests \ {r} : req'[q] = req[q]
    BY <1>3 DEF IInv, Typed
  <1>6. \A x \in writes : x.by \in Requests /\ req[x.by].kind = "resume"
    BY TypeOKParts DEF IInv, WritesAuthorised
  <1>7. ASSUME calm PROVE /\ AtMostOne' /\ AtStep(new)' /\ Consumed' /\ Fresh' /\ SingleUse'
                          /\ graph'.at # {} => OnePending' \/ new.pc \in {"look", "insert"}
    <2>1. /\ AtMostOne /\ AtStep(req[r]) /\ Consumed /\ SingleUse
          /\ Pending = {req[r].record} => OnePending
      BY <1>1, <1>7, CalmFacts
    <2>2. AtMostOne'
      BY <1>4, <2>1 DEF AtMostOne
    <2>3. AtStep(new)'
      BY <1>1, <1>3, <1>4, <2>1 DEF AtStep
    <2>4. graph'.at # {} => OnePending' \/ new.pc \in {"look", "insert"}
      BY <1>1, <1>3, <1>4, <2>1 DEF AtStep
    <2>5. Consumed'
      BY <1>1, <1>3, <1>4, <1>5, <1>6, <2>1 DEF Consumed
    <2>6. SingleUse'
      BY <1>1, <1>3, <1>5, <1>6, <2>1 DEF SingleUse
    <2>7. Fresh'
      <3>1. graph'.at = {} \/ graph'.stop = stops + 1
        BY DEF Commit
      <3>2. stops \in Nat /\ \A x \in writes : x.stop \in 1..stops
        BY TypeOKParts DEF IInv
      <3> QED
        BY <1>1, <3>1, <3>2 DEF Fresh
    <2> QED
      BY <2>2, <2>3, <2>4, <2>5, <2>6, <2>7
  <1>8. calm => \A q \in Requests \ {r} : ~Active(q)
    BY <1>1, CalmFacts
  <1> QED
    BY <1>1, <1>3, <1>7, <1>8, CalmStep

LEMMA DecideCalm ==
    ASSUME IInv, CalmInv, NEW r \in Requests, Decide(r) PROVE CalmInv'
  <1>1. /\ req[r].pc = "decide" /\ Active(r)
        /\ UNCHANGED <<graph, approvals, writes, calm>>
    BY DEF Decide, Active, Steps
  <1>2. calm => AtStep(req[r]) /\ OnePending /\ Pending = {req[r].record}
    BY <1>1, CalmFacts DEF AtStep
  <1>3. CASE ~OnePending /\ Goto(r, "done")
    BY <1>1, <1>2, <1>3, DoneCalm
  <1>4. ASSUME NEW i \in Pending,
               req' = [req EXCEPT ![r] = [@ EXCEPT !.pc = "close", !.closes = i]]
        PROVE  CalmInv'
    <2>1. PICK new : new = [req[r] EXCEPT !.pc = "close", !.closes = i]
      OBVIOUS
    <2>2. /\ new.pc = "close" /\ new.closes = i /\ new.record = req[r].record
          /\ new.interrupted = req[r].interrupted
      BY <2>1 DEF IInv, Typed, RequestType
    <2>3. req' = [req EXCEPT ![r] = new]
      BY <1>4, <2>1
    <2>4. calm => AtStep(new)
      BY <1>1, <1>2, <1>4, <2>2 DEF AtStep
    <2> QED
      BY <1>1, <1>2, <2>2, <2>3, <2>4, MoveCalm
  <1> QED
    BY <1>3, <1>4 DEF Decide

LEMMA CloseCalm ==
    ASSUME IInv, CalmInv, NEW r \in Requests, Close(r) PROVE CalmInv'
  <1>1. /\ req[r].pc = "close" /\ Active(r)
        /\ UNCHANGED <<graph, writes, calm>>
    BY DEF Close, Active, Steps
  <1>2. PICK new \in RequestType :
           /\ req' = [req EXCEPT ![r] = new]
           /\ new.record = req[r].record /\ new.interrupted = req[r].interrupted
           /\ new.pc = IF req[r].interrupted THEN "look" ELSE "done"
    <2>1. PICK l \in PCs : /\ Goto(r, l)
                           /\ l = IF req[r].interrupted THEN "look" ELSE "done"
      BY DEF Close, PCs, Steps
    <2> QED
      BY <2>1, GotoIs
  <1>3. /\ req'[r] = new
        /\ \A q \in Requests \ {r} : req'[q] = req[q]
    BY <1>2 DEF IInv, Typed
  <1>4. \A x \in writes : x.by \in Requests
    BY TypeOKParts DEF IInv
  <1>5. ASSUME calm PROVE /\ AtMostOne' /\ AtStep(new)' /\ Consumed' /\ Fresh' /\ SingleUse'
                          /\ graph'.at # {} => OnePending' \/ new.pc \in {"look", "insert"}
    <2>1. AtStep(req[r]) /\ SingleUse
      BY <1>1, <1>5, CalmFacts
    <2>2. Pending = {req[r].closes}
      BY <1>1, <2>1 DEF AtStep
    <2>3. Pending' = {}
      <3>1. /\ approvals \in Seq({"pending", "approved", "rejected"})
            /\ req[r].closes \in DOMAIN approvals
        BY <2>2, TypeOKParts DEF IInv, Pending
      <3>2. /\ DOMAIN approvals' = DOMAIN approvals
            /\ approvals'[req[r].closes] # "pending"
            /\ \A i \in DOMAIN approvals \ {req[r].closes} : approvals'[i] = approvals[i]
        BY <3>1 DEF Close
      <3>3. \A i \in DOMAIN approvals \ {req[r].closes} : approvals[i] # "pending"
        BY <2>2 DEF Pending
      <3> QED
        BY <3>2, <3>3 DEF Pending
    <2>4. AtMostOne' /\ AtStep(new)'
      BY <1>2, <2>3 DEF AtMostOne, AtStep
    <2>5. Consumed'
      BY <2>3 DEF Consumed
    <2>6. SingleUse'
      BY <1>1, <1>2, <1>3, <1>4, <2>1 DEF SingleUse
    <2>7. graph'.at # {} => new.pc \in {"look", "insert"}
      BY <1>1, <1>2, <2>1 DEF AtStep
    <2>8. Fresh'
      <3>1. Fresh
        BY <1>1, <1>5, CalmFacts
      <3> QED
        BY <1>1, <1>2, <1>3, <1>4, <3>1 DEF Fresh
    <2> QED
      BY <2>4, <2>5, <2>6, <2>7, <2>8
  <1>6. calm => \A q \in Requests \ {r} : ~Active(q)
    BY <1>1, CalmFacts
  <1> QED
    BY <1>1, <1>2, <1>5, <1>6, CalmStep

LEMMA LookCalm ==
    ASSUME IInv, CalmInv, NEW r \in Requests, Look(r) PROVE CalmInv'
  <1>1. /\ req[r].pc = "look" /\ Active(r)
        /\ UNCHANGED <<graph, approvals, writes, calm>>
    BY DEF Look, Active, Steps
  <1>2. \/ \A x \in writes : x.by # r
        \/ calm => req[r].record \notin Pending
    BY <1>1, CalmFacts DEF Consumed
  <1>3. CASE Pending = {} /\ Goto(r, "insert")
    <2>1. PICK new \in RequestType :
             /\ req' = [req EXCEPT ![r] = new]
             /\ new.pc = "insert" /\ new.record = req[r].record
      BY <1>3, GotoIs DEF PCs, Steps
    <2>2. AtStep(new)
      BY <1>3, <2>1 DEF AtStep
    <2> QED
      BY <1>1, <1>2, <2>1, <2>2, MoveCalm
  <1>4. CASE Pending # {} /\ Goto(r, "done")
    <2>1. calm => OnePending
      BY <1>1, <1>4, CalmFacts DEF AtMostOne, OnePending
    <2> QED
      BY <1>1, <1>2, <1>4, <2>1, DoneCalm
  <1> QED
    BY <1>3, <1>4 DEF Look

LEMMA InsertCalm ==
    ASSUME IInv, CalmInv, NEW r \in Requests, Insert(r) PROVE CalmInv'
  <1>1. /\ req[r].pc = "insert" /\ Active(r)
        /\ approvals' = Append(approvals, "pending")
        /\ UNCHANGED <<graph, writes, calm>>
    BY DEF Insert, Active, Steps
  <1>2. PICK new \in RequestType :
           /\ req' = [req EXCEPT ![r] = new]
           /\ new.record = req[r].record /\ new.pc = "done"
    BY GotoIs DEF Insert, PCs
  <1>3. /\ req'[r] = new
        /\ \A q \in Requests \ {r} : req'[q] = req[q]
    BY <1>2 DEF IInv, Typed
  <1>4. \A x \in writes : x.by \in Requests /\ req[x.by].record \in 0..Len(approvals)
    BY TypeOKParts DEF IInv, Bounds
  <1>5. ASSUME calm
        PROVE  /\ AtMostOne' /\ AtStep(new)' /\ Consumed' /\ Fresh' /\ SingleUse'
               /\ OnePending'
    <2>1. AtStep(req[r]) /\ SingleUse
      BY <1>1, <1>5, CalmFacts
    <2>2. Pending = {}
      BY <1>1, <2>1 DEF AtStep
    <2>3. approvals \in Seq({"pending", "approved", "rejected"}) /\ Len(approvals) \in Nat
      BY TypeOKParts DEF IInv
    <2>4. /\ DOMAIN approvals' = 1..(Len(approvals) + 1)
          /\ approvals'[Len(approvals) + 1] = "pending"
          /\ \A i \in 1..Len(approvals) : approvals'[i] = approvals[i]
      BY <1>1, <2>3
    <2>5. \A i \in 1..Len(approvals) : approvals[i] # "pending"
      BY <2>2, <2>3 DEF Pending
    <2>6. Pending' = {Len(approvals) + 1}
      BY <2>3, <2>4, <2>5 DEF Pending
    <2>7. AtMostOne' /\ AtStep(new)' /\ OnePending'
      BY <1>2, <2>6 DEF AtMostOne, AtStep, OnePending
    <2>8. Consumed'
      BY <1>1, <1>2, <1>3, <1>4, <2>3, <2>6 DEF Consumed
    <2>9. SingleUse'
      BY <1>1, <1>2, <1>3, <1>4, <2>1 DEF SingleUse
    <2>10. Fresh'
      <3>1. Fresh
        BY <1>1, <1>5, CalmFacts
      <3> QED
        BY <1>1, <1>2, <1>3, <1>4, <3>1 DEF Fresh
    <2> QED
      BY <2>7, <2>8, <2>9, <2>10
  <1>6. calm => \A q \in Requests \ {r} : ~Active(q)
    BY <1>1, CalmFacts
  <1> QED
    BY <1>1, <1>2, <1>5, <1>6, CalmStep

LEMMA NextCalm == IInv /\ CalmInv /\ [Next]_vars => CalmInv'
  <1> SUFFICES ASSUME IInv, CalmInv, [Next]_vars PROVE CalmInv'
    OBVIOUS
  <1>1. CASE UNCHANGED vars
    BY <1>1 DEF vars, CalmInv, Alone, Active, AtMostOne, AtStep, Pending, OnePending, Waits,
                Consumed, Fresh, SingleUse
  <1>2. ASSUME NEW r \in Requests, NEW a \in Actions, WrittenRaised(r, a)
        PROVE  CalmInv'
    BY <1>2, NotCalm DEF WrittenRaised, PCs
  <1>3. ASSUME NEW r \in Requests, Timeout(r) \/ Crash(r)
        PROVE  CalmInv'
    <2>1. calm' = FALSE /\ (Goto(r, "done") \/ Goto(r, "decide"))
      BY <1>3 DEF Timeout, Crash
    <2> QED
      BY <2>1, NotCalm DEF PCs, Steps
  <1> QED
    BY <1>1, <1>2, <1>3, StartCalm, GateCalm, CheckScopeCalm, LoadCalm, RejectedCalm, WrittenCalm,
       RaisedCalm, CommitCalm, DecideCalm, CloseCalm, LookCalm, InsertCalm DEF Next

LEMMA CalmInvariantHolds == Spec => []CalmInv
  <1>1. Init => CalmInv
    <2> SUFFICES ASSUME Init PROVE CalmInv
      OBVIOUS
    <2>1. \A r \in Requests : req[r].pc = "unused" /\ ~req[r].interrupted
      BY DEF Init, Unused
    <2>2. Pending = {}
      BY DEF Init, Pending
    <2> QED
      BY <2>1, <2>2 DEF Init, CalmInv, Alone, Active, Steps, AtMostOne, AtStep, Waits,
                        Consumed, Fresh, SingleUse
  <1> QED
    BY <1>1, InvariantHolds, NextCalm, PTL DEF Spec

(* While requests come one at a time, and none is cut short or fails with some *)
(* of its writes made, all controlled writes made on one approval record, and  *)
(* all that waited at one stop, are made by one request, each of them once ... *)
THEOREM ApprovalsAreConsumedOnce == Spec => []CalmSingleUse
  <1>1. CalmInv => CalmSingleUse
    BY DEF CalmInv, CalmSingleUse
  <1> QED
    BY <1>1, CalmInvariantHolds, PTL

(* ... and a stopped thread, with no request in progress, waits for exactly    *)
(* one decision.                                                               *)
THEOREM StoppedThreadsWait == Spec => []CalmResumable
  <1>1. CalmInv => CalmResumable
    BY DEF CalmInv, CalmResumable, Resumable, Waits, Active, Steps
  <1> QED
    BY <1>1, CalmInvariantHolds, PTL

=============================================================================
