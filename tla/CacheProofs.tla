------------------------------ MODULE CacheProofs ------------------------------
(* Proofs about AnswerCache, for any number of calls, any questions and any TTL *)
(* and timeout: answers are kept apart, their age is bounded, and bad news is   *)
(* never old news.                                                             *)
EXTENDS AnswerCache, TLAPS

PCs == {"idle", "token", "lookup", "tools", "ask", "fetch", "keep", "validate",
        "told", "insufficient_evidence", "failed"}

CallType == [pc : PCs, kind : Kinds \cup {None}, caller : Callers \cup {None},
             query : Queries \cup {None}, token : BOOLEAN, waited : 0..MaxAge,
             asked : BOOLEAN, answer : Answers \cup {None}]

KeyOf(r) == IF r.kind = "knowledge" THEN KnowledgeKey(r) ELSE ActivityKey(r)

EntryType == [key : {KeyOf(a) : a \in Answers}, answer : Answers, left : 1..Ttl]

Typed ==
    /\ made \in Nat
    /\ call \in [Calls -> CallType]
    /\ cache \subseteq EntryType

(* The answer is one to the question of the call.                              *)
Fits(a, x) ==
    /\ a \in Answers
    /\ a.kind = x.kind
    /\ a.caller = x.caller
    /\ Trimmed[a.query] = Trimmed[x.query]
    /\ a.kind = "knowledge" => a.age < Ttl + Timeout

(* A call keeps to its question, has passed the token before it looks anything *)
(* up, waits no longer than the timeout, and has only answers that fit.        *)
CallKept(x) ==
    /\ x.pc = "idle" <=> x.kind = None
    /\ x.pc # "idle" => x.caller \in Callers /\ x.query \in Queries
    /\ x.pc \in {"token", "tools", "ask"} => x.kind = "knowledge"
    /\ x.pc = "fetch" => x.kind = "gitlab"
    /\ x.kind = "knowledge" /\ x.pc \notin {"token", "failed"} => x.token
    /\ x.pc \in {"token", "lookup"} => x.waited = 0
    /\ x.pc \in {"tools", "ask"} => x.waited <= Timeout
    /\ x.pc \in {"keep", "validate", "told", "insufficient_evidence"} => Fits(x.answer, x)
    /\ x.pc = "keep" => x.asked /\ x.answer.query = x.query
    /\ x.pc = "keep" /\ x.kind = "knowledge" => x.answer.age <= Timeout
    /\ x.pc = "validate" /\ x.answer.grade = "uncited" => x.asked
    /\ x.pc = "insufficient_evidence" => x.asked
    /\ x.pc = "failed" => \/ x.asked
                          \/ x.kind = "knowledge" /\ ~x.token
                          \/ x.answer \in Answers /\ x.answer.grade = "malformed"

(* An entry is found by the key of its answer, and what it has left to live is *)
(* within what its answer may age; evidence that is none is not kept.          *)
EntryKept(e) ==
    /\ e.key = KeyOf(e.answer)
    /\ e.answer.kind = "knowledge" => e.answer.age + e.left <= Ttl + Timeout
    /\ e.answer.grade # "uncited"

IInv == /\ Typed
        /\ \A c \in Calls : CallKept(call[c])
        /\ \A e \in cache : EntryKept(e)

-----------------------------------------------------------------------------
(* Two questions with one key are of the same kind and caller, and for the     *)
(* same query but for blanks at its ends.                                      *)
LEMMA KeysApart ==
    ASSUME NEW r, NEW s, r.kind \in Kinds, s.kind \in Kinds,
           r.caller \in Callers, s.caller \in Callers,
           KeyOf(r) = KeyOf(s)
    PROVE  /\ r.kind = s.kind
           /\ r.caller = s.caller
           /\ Trimmed[r.query] = Trimmed[s.query]
  <1>1. r.kind = s.kind
    BY DEF KeyOf, KnowledgeKey, ActivityKey, Kinds
  <1>2. /\ r.caller.tenant = s.caller.tenant
        /\ r.caller.operator = s.caller.operator
        /\ r.caller.employee = s.caller.employee
        /\ r.caller.permissions = s.caller.permissions
        /\ Trimmed[r.query] = Trimmed[s.query]
    BY <1>1 DEF KeyOf, KnowledgeKey, ActivityKey, Kinds
  <1>3. r.caller = s.caller
    BY <1>2, AnswerCacheAssumption
  <1> QED
    BY <1>1, <1>2, <1>3

(* The key depends on kind, caller and query alone.                            *)
LEMMA KeyOfSame ==
    ASSUME NEW r, NEW s, r.kind = s.kind, r.caller = s.caller, r.query = s.query
    PROVE  KeyOf(r) = KeyOf(s)
  BY DEF KeyOf, KnowledgeKey, ActivityKey

LEMMA IdleKept == Idle \in CallType /\ CallKept(Idle)
  <1>1. Idle \in CallType
    BY AnswerCacheAssumption DEF Idle, CallType, PCs, MaxAge
  <1>2. Idle.pc = "idle" /\ Idle.kind = None
    BY DEF Idle
  <1> QED
    BY <1>1, <1>2, AnswerCacheAssumption DEF CallKept, Kinds

LEMMA CallFacts ==
    ASSUME IInv, NEW c \in Calls
    PROVE  call[c] \in CallType /\ CallKept(call[c]) /\ made \in Nat /\ cache \subseteq EntryType
  BY DEF IInv, Typed

(* A step of one call that leaves the cache alone.                             *)
LEMMA StepKeeps ==
    ASSUME IInv, NEW c \in Calls, NEW new \in CallType, CallKept(new),
           call' = [call EXCEPT ![c] = new], cache' = cache, made' \in Nat
    PROVE  IInv'
  <1>1. call' \in [Calls -> CallType] /\ \A d \in Calls : CallKept(call'[d])
    BY DEF IInv, Typed
  <1> QED
    BY <1>1 DEF IInv, Typed

LEMMA FinishKeeps ==
    ASSUME IInv, NEW c \in Calls, Finish(c), UNCHANGED <<cache, made>>
    PROVE  IInv'
  BY IdleKept, StepKeeps, CallFacts DEF Finish

(* A call that moves on.                                                       *)
LEMMA GotoIs ==
    ASSUME IInv, NEW c \in Calls, NEW l \in PCs, Goto(c, l)
    PROVE  \E new \in CallType :
              /\ call' = [call EXCEPT ![c] = new]
              /\ new.pc = l /\ new.kind = call[c].kind /\ new.caller = call[c].caller
              /\ new.query = call[c].query /\ new.token = call[c].token
              /\ new.waited = call[c].waited /\ new.asked = call[c].asked
              /\ new.answer = call[c].answer
  <1>1. PICK new : new = [call[c] EXCEPT !.pc = l]
    OBVIOUS
  <1>2. /\ new \in CallType
        /\ new.pc = l /\ new.kind = call[c].kind /\ new.caller = call[c].caller
        /\ new.query = call[c].query /\ new.token = call[c].token
        /\ new.waited = call[c].waited /\ new.asked = call[c].asked
        /\ new.answer = call[c].answer
    BY <1>1, CallFacts DEF CallType
  <1>3. call' = [call EXCEPT ![c] = new]
    BY <1>1 DEF Goto
  <1> QED
    BY <1>2, <1>3

LEMMA BeginIInv ==
    ASSUME IInv, NEW c \in Calls, Begin(c) PROVE IInv'
  <1>1. PICK q \in Questions :
           call' = [call EXCEPT ![c] = [Idle EXCEPT !.pc = IF q.kind = "knowledge" THEN "token"
                                                                                   ELSE "lookup",
                                                    !.kind = q.kind, !.caller = q.caller,
                                                    !.query = q.query, !.token = q.token]]
    BY DEF Begin
  <1>2. PICK new : new = [Idle EXCEPT !.pc = IF q.kind = "knowledge" THEN "token"
                                                                     ELSE "lookup",
                                      !.kind = q.kind, !.caller = q.caller,
                                      !.query = q.query, !.token = q.token]
    OBVIOUS
  <1>3. /\ q.kind \in Kinds /\ q.caller \in Callers /\ q.query \in Queries
        /\ q.token \in BOOLEAN
    BY AnswerCacheAssumption
  <1>4. /\ new.pc = IF q.kind = "knowledge" THEN "token" ELSE "lookup"
        /\ new.kind = q.kind /\ new.caller = q.caller /\ new.query = q.query
        /\ new.token = q.token /\ new.waited = 0 /\ new.asked = FALSE
    BY <1>2 DEF Idle
  <1>5. new \in CallType
    BY <1>2, <1>3, IdleKept DEF CallType, PCs
  <1>6. CallKept(new)
    BY <1>3, <1>4, AnswerCacheAssumption DEF CallKept, Kinds
  <1>7. cache' = cache /\ made' \in Nat
    BY CallFacts DEF Begin
  <1> QED
    BY <1>1, <1>2, <1>5, <1>6, <1>7, StepKeeps

LEMMA CheckTokenIInv ==
    ASSUME IInv, NEW c \in Calls, CheckToken(c) PROVE IInv'
  <1>1. /\ call[c].pc = "token" /\ call[c].kind = "knowledge"
        /\ UNCHANGED <<cache, made>>
    BY CallFacts DEF CheckToken, CallKept
  <1>2. PICK l \in PCs : /\ Goto(c, l)
                         /\ l = IF call[c].token THEN "lookup" ELSE "failed"
    BY DEF CheckToken, PCs
  <1>3. PICK new \in CallType :
           /\ call' = [call EXCEPT ![c] = new]
           /\ new.pc = l /\ new.kind = call[c].kind /\ new.caller = call[c].caller
           /\ new.query = call[c].query /\ new.token = call[c].token
           /\ new.waited = call[c].waited
    BY <1>2, GotoIs
  <1>4. CallKept(new)
    BY <1>1, <1>2, <1>3, CallFacts, AnswerCacheAssumption DEF CallKept, Kinds
  <1> QED
    BY <1>1, <1>3, <1>4, CallFacts, StepKeeps

(* A hit: the entry found is one for the question that is asked.               *)
LEMMA HitIInv ==
    ASSUME IInv, NEW c \in Calls, Hit(c) PROVE IInv'
  <1>1. PICK e \in cache :
           /\ e.key = Key(c)
           /\ call' = [call EXCEPT ![c] = [@ EXCEPT !.pc = "validate", !.answer = e.answer]]
    BY DEF Hit
  <1>2. /\ call[c].pc = "lookup" /\ call[c].kind \in Kinds
        /\ call[c].caller \in Callers /\ call[c].query \in Queries
        /\ call[c].kind = "knowledge" => call[c].token
        /\ UNCHANGED <<cache, made>>
    BY CallFacts DEF Hit, CallKept, CallType
  <1>3. e \in EntryType /\ EntryKept(e) /\ e.answer \in Answers
    BY CallFacts DEF IInv, EntryType
  <1>4. e.answer.kind \in Kinds /\ e.answer.caller \in Callers
    BY <1>3 DEF Answers
  <1>5. KeyOf(e.answer) = KeyOf(call[c])
    BY <1>1, <1>3 DEF EntryKept, Key, KeyOf
  <1>6. /\ e.answer.kind = call[c].kind /\ e.answer.caller = call[c].caller
        /\ Trimmed[e.answer.query] = Trimmed[call[c].query]
    BY <1>2, <1>4, <1>5, KeysApart
  <1>7. e.answer.kind = "knowledge" => e.answer.age < Ttl + Timeout
    BY <1>3, AnswerCacheAssumption DEF EntryKept, EntryType, Answers, MaxAge
  <1>8. PICK new : new = [call[c] EXCEPT !.pc = "validate", !.answer = e.answer]
    OBVIOUS
  <1>9. /\ new \in CallType
        /\ new.pc = "validate" /\ new.kind = call[c].kind /\ new.caller = call[c].caller
        /\ new.query = call[c].query /\ new.token = call[c].token /\ new.answer = e.answer
    BY <1>3, <1>8, CallFacts DEF CallType, PCs
  <1>10. Fits(new.answer, new)
    BY <1>3, <1>6, <1>7, <1>9 DEF Fits
  <1>11. CallKept(new)
    BY <1>2, <1>3, <1>9, <1>10, AnswerCacheAssumption DEF CallKept, EntryKept
  <1>12. call' = [call EXCEPT ![c] = new]
    BY <1>1, <1>8
  <1> QED
    BY <1>2, <1>9, <1>11, <1>12, CallFacts, StepKeeps

LEMMA MissIInv ==
    ASSUME IInv, NEW c \in Calls, Miss(c) PROVE IInv'
  <1>1. /\ call[c].pc = "lookup" /\ call[c].kind \in Kinds
        /\ UNCHANGED <<cache, made>>
    BY CallFacts DEF Miss, CallKept, CallType
  <1>2. PICK l \in PCs : /\ Goto(c, l)
                         /\ l = IF call[c].kind = "knowledge" THEN "tools" ELSE "fetch"
    BY DEF Miss, PCs
  <1>3. PICK new \in CallType :
           /\ call' = [call EXCEPT ![c] = new]
           /\ new.pc = l /\ new.kind = call[c].kind /\ new.caller = call[c].caller
           /\ new.query = call[c].query /\ new.token = call[c].token
           /\ new.waited = call[c].waited
    BY <1>2, GotoIs
  <1>4. CallKept(new)
    BY <1>1, <1>2, <1>3, CallFacts, AnswerCacheAssumption DEF CallKept, Kinds
  <1> QED
    BY <1>1, <1>3, <1>4, CallFacts, StepKeeps

LEMMA ToolsIInv ==
    ASSUME IInv, NEW c \in Calls, Tools(c) PROVE IInv'
  <1>1. PICK l \in {"ask", "failed"} :
           call' = [call EXCEPT ![c] = [@ EXCEPT !.pc = l, !.waited = 0, !.asked = TRUE]]
    BY DEF Tools
  <1>2. PICK new : new = [call[c] EXCEPT !.pc = l, !.waited = 0, !.asked = TRUE]
    OBVIOUS
  <1>3. 0 \in 0..MaxAge
    BY AnswerCacheAssumption DEF MaxAge
  <1>4. /\ new \in CallType
        /\ new.pc = l /\ new.kind = call[c].kind /\ new.caller = call[c].caller
        /\ new.query = call[c].query /\ new.token = call[c].token
        /\ new.waited = 0 /\ new.asked = TRUE
    BY <1>2, <1>3, CallFacts DEF CallType, PCs
  <1>5. call[c].pc = "tools" /\ UNCHANGED <<cache, made>>
    BY DEF Tools
  <1>6. CallKept(new)
    BY <1>4, <1>5, CallFacts, AnswerCacheAssumption DEF CallKept, Kinds
  <1>7. call' = [call EXCEPT ![c] = new]
    BY <1>1, <1>2
  <1> QED
    BY <1>4, <1>5, <1>6, <1>7, CallFacts, StepKeeps

LEMMA ReplyIInv ==
    ASSUME IInv, NEW c \in Calls, Reply(c) PROVE IInv'
  <1>1. /\ call[c].pc \in {"ask", "fetch"} /\ call[c].kind \in Kinds
        /\ call[c].caller \in Callers /\ call[c].query \in Queries
        /\ call[c].waited \in 0..MaxAge
        /\ call[c].kind = "knowledge" => call[c].waited <= Timeout /\ call[c].token
        /\ UNCHANGED <<cache, made>>
    BY CallFacts DEF Reply, CallKept, CallType, Kinds
  <1>2. PICK g \in Grades(call[c].kind) :
          call' = [call EXCEPT ![c] =
                     [@ EXCEPT !.pc = "keep", !.asked = TRUE,
                               !.answer = [kind |-> call[c].kind, caller |-> call[c].caller,
                                           query |-> call[c].query, grade |-> g,
                                           age |-> call[c].waited]]]
    BY DEF Reply
  <1>3. PICK a : a = [kind |-> call[c].kind, caller |-> call[c].caller,
                      query |-> call[c].query, grade |-> g, age |-> call[c].waited]
    OBVIOUS
  <1>4. g \in {"good", "uncited", "malformed"}
    BY DEF Grades
  <1>5. /\ a \in Answers /\ a.kind = call[c].kind /\ a.caller = call[c].caller
        /\ a.query = call[c].query /\ a.age = call[c].waited
    BY <1>1, <1>3, <1>4 DEF Answers
  <1>6. PICK new : new = [call[c] EXCEPT !.pc = "keep", !.asked = TRUE, !.answer = a]
    OBVIOUS
  <1>7. /\ new \in CallType
        /\ new.pc = "keep" /\ new.kind = call[c].kind /\ new.caller = call[c].caller
        /\ new.query = call[c].query /\ new.token = call[c].token
        /\ new.asked = TRUE /\ new.answer = a
    BY <1>5, <1>6, CallFacts DEF CallType, PCs
  <1>8. Fits(new.answer, new)
    BY <1>1, <1>5, <1>7, AnswerCacheAssumption DEF Fits, MaxAge
  <1>9. CallKept(new)
    BY <1>1, <1>5, <1>7, <1>8, AnswerCacheAssumption DEF CallKept, Kinds
  <1>10. call' = [call EXCEPT ![c] = new]
    BY <1>2, <1>3, <1>6
  <1> QED
    BY <1>1, <1>7, <1>9, <1>10, CallFacts, StepKeeps

(* The service fails, or is not waited for any longer.                         *)
LEMMA FailIInv ==
    ASSUME IInv, NEW c \in Calls, Fails(c) \/ TimedOut(c) PROVE IInv'
  <1>1. /\ call[c].pc \in Waiting /\ UNCHANGED <<cache, made>>
        /\ call' = [call EXCEPT ![c] = [@ EXCEPT !.pc = "failed", !.asked = TRUE]]
    BY DEF Fails, TimedOut, Waiting
  <1>2. PICK new : new = [call[c] EXCEPT !.pc = "failed", !.asked = TRUE]
    OBVIOUS
  <1>3. /\ new \in CallType
        /\ new.pc = "failed" /\ new.kind = call[c].kind /\ new.caller = call[c].caller
        /\ new.query = call[c].query /\ new.asked = TRUE
    BY <1>2, CallFacts DEF CallType, PCs
  <1>4. CallKept(new)
    BY <1>1, <1>3, CallFacts, AnswerCacheAssumption DEF CallKept, Kinds, Waiting
  <1>5. call' = [call EXCEPT ![c] = new]
    BY <1>1, <1>2
  <1> QED
    BY <1>1, <1>3, <1>4, <1>5, CallFacts, StepKeeps

LEMMA KeepIInv ==
    ASSUME IInv, NEW c \in Calls, Keep(c) PROVE IInv'
  <1>1. /\ call[c].pc = "keep" /\ made' = made
        /\ Fits(call[c].answer, call[c]) /\ call[c].asked
        /\ call[c].answer.query = call[c].query
        /\ call[c].kind = "knowledge" => call[c].answer.age <= Timeout
        /\ call[c].kind \in Kinds
    BY CallFacts DEF Keep, CallKept, CallType
  <1>2. PICK new \in CallType :
           /\ call' = [call EXCEPT ![c] = new]
           /\ new.pc = "validate" /\ new.kind = call[c].kind /\ new.caller = call[c].caller
           /\ new.query = call[c].query /\ new.token = call[c].token
           /\ new.asked = call[c].asked /\ new.answer = call[c].answer
    <2>1. Goto(c, "validate") /\ "validate" \in PCs
      BY DEF Keep, PCs
    <2> QED
      BY <2>1, GotoIs
  <1>3. Fits(new.answer, new)
    BY <1>1, <1>2 DEF Fits
  <1>4. CallKept(new)
    BY <1>1, <1>2, <1>3, CallFacts, AnswerCacheAssumption DEF CallKept, Kinds
  <1>5. CASE cache' = cache
    BY <1>1, <1>2, <1>4, <1>5, CallFacts, StepKeeps
  <1>6. CASE /\ call[c].answer.grade # "uncited"
             /\ cache' = {e \in cache : e.key # Key(c)}
                           \cup {[key |-> Key(c), answer |-> call[c].answer, left |-> Ttl]}
    <2>1. PICK entry : entry = [key |-> Key(c), answer |-> call[c].answer, left |-> Ttl]
      OBVIOUS
    <2>2. entry.key = Key(c) /\ entry.answer = call[c].answer /\ entry.left = Ttl
      BY <2>1
    <2>3. call[c].query \in Queries /\ call[c].caller \in Callers
      BY <1>1, CallFacts DEF CallKept
    <2>4. \E a \in Answers : KeyOf(a) = Key(c)
      <3>1. PICK a : a = [kind |-> call[c].kind, caller |-> call[c].caller,
                          query |-> call[c].query, grade |-> "good", age |-> 0]
        OBVIOUS
      <3>2. a \in Answers
        BY <1>1, <2>3, <3>1, AnswerCacheAssumption DEF Answers, MaxAge
      <3>3. KeyOf(a) = KeyOf(call[c])
        BY <3>1, KeyOfSame
      <3> QED
        BY <3>2, <3>3 DEF Key, KeyOf
    <2>5. call[c].answer \in Answers /\ Ttl \in 1..Ttl
      BY <1>1, AnswerCacheAssumption DEF Fits
    <2>6. entry \in EntryType
      BY <2>1, <2>4, <2>5 DEF EntryType
    <2>7. entry.key = KeyOf(entry.answer)
      <3>1. KeyOf(call[c].answer) = KeyOf(call[c])
        BY <1>1, KeyOfSame DEF Fits
      <3> QED
        BY <2>2, <3>1 DEF Key, KeyOf
    <2>8. EntryKept(entry)
      BY <1>1, <1>6, <2>2, <2>7, AnswerCacheAssumption DEF EntryKept, Fits, Answers, MaxAge
    <2>9. cache' \subseteq EntryType /\ \A e \in cache' : EntryKept(e)
      BY <1>6, <2>1, <2>6, <2>8 DEF IInv, Typed
    <2>10. call' \in [Calls -> CallType] /\ \A d \in Calls : CallKept(call'[d])
      BY <1>2, <1>4 DEF IInv, Typed
    <2> QED
      BY <1>1, <2>9, <2>10 DEF IInv, Typed
  <1> QED
    BY <1>1, <1>5, <1>6 DEF Keep

LEMMA ValidateIInv ==
    ASSUME IInv, NEW c \in Calls, Validate(c) PROVE IInv'
  <1>1. /\ call[c].pc = "validate" /\ UNCHANGED <<cache, made>>
        /\ Fits(call[c].answer, call[c])
        /\ call[c].answer.grade = "uncited" => call[c].asked
    BY CallFacts DEF Validate, CallKept
  <1>2. PICK l \in {"told", "insufficient_evidence", "failed"} :
           /\ Goto(c, l)
           /\ l = "insufficient_evidence" => call[c].answer.grade = "uncited"
           /\ l = "failed" => call[c].answer.grade = "malformed"
    BY <1>1 DEF Validate, Fits, Answers
  <1>3. PICK new \in CallType :
           /\ call' = [call EXCEPT ![c] = new]
           /\ new.pc = l /\ new.kind = call[c].kind /\ new.caller = call[c].caller
           /\ new.query = call[c].query /\ new.token = call[c].token
           /\ new.asked = call[c].asked /\ new.answer = call[c].answer
    BY <1>2, GotoIs DEF PCs
  <1>4. Fits(new.answer, new) /\ new.answer \in Answers
    BY <1>1, <1>3 DEF Fits
  <1>5. CallKept(new)
    BY <1>1, <1>2, <1>3, <1>4, CallFacts, AnswerCacheAssumption DEF CallKept, Kinds
  <1> QED
    BY <1>1, <1>3, <1>5, CallFacts, StepKeeps

(* Time passes: an entry's answer ages as its life runs out.                   *)
LEMMA TickEntries ==
    ASSUME IInv, Tick
    PROVE  cache' \subseteq EntryType /\ \A e \in cache' : EntryKept(e)
  <1> SUFFICES ASSUME NEW e \in cache' PROVE e \in EntryType /\ EntryKept(e)
    OBVIOUS
  <1>1. PICK x \in cache : /\ x.left > 1
                           /\ e = [x EXCEPT !.left = @ - 1, !.answer.age = Older(@)]
    BY DEF Tick
  <1>2. x \in EntryType /\ EntryKept(x)
    BY <1>1 DEF IInv, Typed
  <1>3. PICK a : a = [x.answer EXCEPT !.age = Older(@)]
    OBVIOUS
  <1>4. x.answer \in Answers /\ x.answer.age \in 0..MaxAge /\ x.left \in 1..Ttl
    BY <1>2 DEF EntryType, Answers
  <1>5. /\ Older(x.answer.age) \in 0..MaxAge
        /\ x.answer.age < Ttl + Timeout => Older(x.answer.age) = x.answer.age + 1
    BY <1>4, AnswerCacheAssumption DEF Older, MaxAge
  <1>6. /\ a \in Answers /\ a.kind = x.answer.kind /\ a.caller = x.answer.caller
        /\ a.query = x.answer.query /\ a.grade = x.answer.grade
        /\ a.age = Older(x.answer.age)
    BY <1>3, <1>4, <1>5 DEF Answers
  <1>7. e = [key |-> x.key, answer |-> a, left |-> x.left - 1]
    BY <1>1, <1>2, <1>3 DEF EntryType
  <1>8. e.key = x.key /\ e.answer = a /\ e.left = x.left - 1
    BY <1>7
  <1>9. e \in EntryType
    BY <1>1, <1>2, <1>4, <1>6, <1>7, AnswerCacheAssumption DEF EntryType
  <1>10. KeyOf(x.answer) = KeyOf(a)
    BY <1>6, KeyOfSame
  <1>11. a.kind = "knowledge" => a.age + e.left <= Ttl + Timeout
    BY <1>1, <1>2, <1>4, <1>5, <1>6, <1>8, AnswerCacheAssumption DEF EntryKept
  <1> QED
    BY <1>2, <1>6, <1>8, <1>9, <1>10, <1>11 DEF EntryKept

LEMMA TickIInv ==
    ASSUME IInv, Tick PROVE IInv'
  <1>1. ASSUME NEW c \in Calls PROVE call'[c] \in CallType /\ CallKept(call'[c])
    <2>1. CASE call[c].pc = "idle"
      BY <2>1, CallFacts DEF Tick
    <2>2. CASE call[c].pc # "idle"
      <3>1. PICK new : new = [call[c] EXCEPT !.waited = Older(@)]
        OBVIOUS
      <3>2. call'[c] = new
        BY <2>2, <3>1 DEF Tick
      <3>3. call[c].waited \in 0..MaxAge
        BY CallFacts DEF CallType
      <3>4. /\ Older(call[c].waited) \in 0..MaxAge
            /\ call[c].waited < Timeout => Older(call[c].waited) <= Timeout
        BY <3>3, AnswerCacheAssumption DEF Older, MaxAge
      <3>5. /\ new \in CallType
            /\ new.pc = call[c].pc /\ new.kind = call[c].kind /\ new.caller = call[c].caller
            /\ new.query = call[c].query /\ new.token = call[c].token
            /\ new.waited = Older(call[c].waited)
        BY <3>1, <3>4, CallFacts DEF CallType
      <3>6. /\ call[c].pc \in Waiting
            /\ call[c].pc \in {"tools", "ask"} => call[c].waited < Timeout
        BY <2>2 DEF Tick
      <3>7. CallKept(new)
        BY <3>4, <3>5, <3>6, CallFacts DEF CallKept, Waiting
      <3> QED
        BY <3>2, <3>5, <3>7
    <2> QED
      BY <2>1, <2>2
  <1>2. call' \in [Calls -> CallType] /\ made' \in Nat
    BY <1>1, CallFacts DEF Tick, IInv, Typed
  <1> QED
    BY <1>1, <1>2, TickEntries DEF IInv, Typed

LEMMA NextIInv == IInv /\ [Next]_vars => IInv'
  <1> SUFFICES ASSUME IInv, [Next]_vars PROVE IInv'
    OBVIOUS
  <1>1. CASE UNCHANGED vars
    BY <1>1 DEF vars, IInv, Typed
  <1>2. ASSUME NEW c \in Calls, Return(c) \/ Drop(c) PROVE IInv'
    BY <1>2, FinishKeeps DEF Return, Drop
  <1> QED
    BY <1>1, <1>2, BeginIInv, CheckTokenIInv, HitIInv, MissIInv, ToolsIInv, ReplyIInv,
       FailIInv, KeepIInv, ValidateIInv, TickIInv DEF Next, Step

LEMMA InvariantHolds == Spec => []IInv
  <1>1. Init => IInv
    BY IdleKept DEF Init, IInv, Typed
  <1> QED
    BY <1>1, NextIInv, PTL DEF Spec

-----------------------------------------------------------------------------
(* An answer only ever reaches a call of the same kind, by the same tenant,    *)
(* operator and employee with the same permissions, for the same question but  *)
(* for blanks at its ends; knowledge only one that carries a token.            *)
THEOREM AnswersAreKeptApart == Spec => []KeptApart
  <1>1. IInv => KeptApart
    BY DEF IInv, CallKept, Fits, KeptApart, Told
  <1> QED
    BY <1>1, InvariantHolds, PTL

(* No knowledge answer is older than the TTL and the time the service may take *)
(* to give it.                                                                 *)
THEOREM AgeIsBounded == Spec => []AgeBounded
  <1>1. IInv => AgeBounded
    BY DEF IInv, CallKept, Fits, AgeBounded, Told
  <1> QED
    BY <1>1, InvariantHolds, PTL

(* A call fails, or is told that there is no evidence, only if it has no token *)
(* or asked the service itself, but for kept answers it cannot use.            *)
THEOREM BadNewsIsNews == Spec => []BadNewsIsFresh
  <1>1. IInv => BadNewsIsFresh
    BY AnswerCacheAssumption DEF IInv, CallKept, BadNewsIsFresh
  <1> QED
    BY <1>1, InvariantHolds, PTL

=============================================================================
