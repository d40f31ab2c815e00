------------------------------ MODULE AnswerCache ------------------------------
(* The read-through caches in front of the Java RAG service (knowledge answers) *)
(* and of GitLab (activity lists).  Calls of many callers share one Redis; an  *)
(* entry is found by a key made of who asks and what is asked, and ends with   *)
(* its TTL: nothing invalidates it.                                            *)
(*                                                                             *)
(* Both services are external, and so is Redis, which may fail any command.    *)
(* The digest in a key is taken to be injective.  Time is counted in ticks     *)
(* that are longer than a command to Redis (socket timeout 0.5 s), so that     *)
(* only waiting for a service takes time.                                      *)
EXTENDS Naturals

CONSTANTS
    Calls,        \* the calls that can be in progress at a time
    MaxCalls,     \* bound: calls in all
    Questions,    \* what a call can be: its kind ("knowledge" or "gitlab"), its caller
                  \* (tenant, operator, employee, permissions: the roles and scopes), its
                  \* query (a text, or a range of dates), whether it carries a token
    Queries,      \* the queries of the questions
    Trimmed,      \* str.strip of a query
    Ttl,          \* the life of an entry
    Timeout,      \* knowledge_mcp_timeout_seconds, for each request to the service
    None

MaxAge == Ttl + Timeout     \* bound: ages are not told apart beyond

Kinds == {"knowledge", "gitlab"}

Callers == {q.caller : q \in Questions}

Answers == [kind : Kinds, caller : Callers, query : Queries,
            grade : {"good", "uncited", "malformed"}, age : 0..MaxAge]

ASSUME AnswerCacheAssumption ==
    /\ MaxCalls \in Nat
    /\ Ttl \in Nat \ {0}
    /\ Timeout \in Nat
    /\ Trimmed \in [Queries -> Queries]
    /\ Questions \subseteq [kind : Kinds, caller : Callers, query : Queries, token : BOOLEAN]
    /\ \A w \in Callers : w = [tenant |-> w.tenant, operator |-> w.operator,
                              employee |-> w.employee, permissions |-> w.permissions]
    /\ None \notin Kinds \cup Answers

VARIABLES
    cache,        \* entries of Redis: key, answer, time left
    call,         \* the calls in progress
    made          \* calls made so far

vars == <<cache, call, made>>

Idle == [pc |-> "idle", kind |-> None, caller |-> None, query |-> None,
         token |-> FALSE,
         waited |-> 0,         \* ticks since the service was asked
         asked |-> FALSE,      \* history: this call got to the service
         answer |-> None]      \* what it asked for whom, how good it is, how old

(* A service takes its time; everything else a call does takes none.           *)
Waiting == {"tools", "ask", "fetch"}

Older(n) == IF n < MaxAge THEN n + 1 ELSE MaxAge

Goto(c, l) == call' = [call EXCEPT ![c].pc = l]

Finish(c) == call' = [call EXCEPT ![c] = Idle]

\* Mutant: the permissions of the caller are left out.
KeyNoPermissions(r) ==
    <<"knowledge", r.caller.tenant, r.caller.operator, r.caller.employee,
      Trimmed[r.query]>>

(* scoped_cache_key with the parts that each of the two connectors gives it.   *)
KnowledgeKey(r) ==
    <<"knowledge", r.caller.tenant, r.caller.operator, r.caller.employee,
      r.caller.permissions, Trimmed[r.query]>>

ActivityKey(r) ==
    <<"gitlab", r.caller.tenant, r.caller.operator, r.caller.employee,
      r.query, r.caller.permissions>>

Key(c) == IF call[c].kind = "knowledge" THEN KnowledgeKey(call[c]) ELSE ActivityKey(call[c])

Init ==
    /\ cache = {}
    /\ call = [c \in Calls |-> Idle]
    /\ made = 0

-----------------------------------------------------------------------------
(* A request asks KnowledgeService or, through the collector, GitLab.  The     *)
(* middleware has bound the token it carries, if any, to this request alone.   *)
Begin(c) ==
    /\ call[c].pc = "idle"
    /\ made < MaxCalls
    /\ made' = made + 1
    /\ \E q \in Questions :
          call' = [call EXCEPT ![c] = [Idle EXCEPT !.pc = IF q.kind = "knowledge" THEN "token"
                                                                                 ELSE "lookup",
                                                   !.kind = q.kind, !.caller = q.caller,
                                                   !.query = q.query, !.token = q.token]]
    /\ UNCHANGED cache

(* get_access_token: without a token the call ends here (401).                 *)
CheckToken(c) ==
    /\ call[c].pc = "token"
    /\ Goto(c, IF call[c].token THEN "lookup" ELSE "failed")
    /\ UNCHANGED <<cache, made>>

\* Mutant: a hit gives the entry its whole TTL again.
HitRenews(c) ==
    /\ call[c].pc = "lookup"
    /\ \E e \in cache :
          /\ e.key = Key(c)
          /\ call' = [call EXCEPT ![c] = [@ EXCEPT !.pc = "validate", !.answer = e.answer]]
          /\ cache' = (cache \ {e}) \cup {[e EXCEPT !.left = Ttl]}
    /\ UNCHANGED made

Hit(c) ==
    /\ call[c].pc = "lookup"
    /\ \E e \in cache :
          /\ e.key = Key(c)
          /\ call' = [call EXCEPT ![c] = [@ EXCEPT !.pc = "validate", !.answer = e.answer]]
    /\ UNCHANGED <<cache, made>>

(* No entry, or a Redis that fails: the service is asked.  (Entries that do    *)
(* not parse or have another shape are not written by this code.)              *)
Miss(c) ==
    /\ call[c].pc = "lookup"
    /\ Goto(c, IF call[c].kind = "knowledge" THEN "tools" ELSE "fetch")
    /\ UNCHANGED <<cache, made>>

(* The MCP client asks for the server's tools; the answer tool may be missing. *)
Tools(c) ==
    /\ call[c].pc = "tools"
    /\ \E l \in {"ask", "failed"} :
          call' = [call EXCEPT ![c] = [@ EXCEPT !.pc = l, !.waited = 0, !.asked = TRUE]]
    /\ UNCHANGED <<cache, made>>

(* How good an answer is: it holds an answer and citations, no citations, or   *)
(* citations beside something KnowledgeService cannot use.  A list of GitLab   *)
(* activity is good as it is.                                                  *)
Grades(kind) == IF kind = "knowledge" THEN {"good", "uncited", "malformed"} ELSE {"good"}

(* The service answers; what it says may be as old as the question.            *)
Reply(c) ==
    /\ call[c].pc \in {"ask", "fetch"}
    /\ \E g \in Grades(call[c].kind) :
          call' = [call EXCEPT ![c] =
                     [@ EXCEPT !.pc = "keep", !.asked = TRUE,
                               !.answer = [kind |-> call[c].kind, caller |-> call[c].caller,
                                           query |-> call[c].query, grade |-> g,
                                           age |-> call[c].waited]]]
    /\ UNCHANGED <<cache, made>>

(* The service is down, refuses, or answers nonsense.                          *)
Fails(c) ==
    /\ call[c].pc \in Waiting
    /\ call' = [call EXCEPT ![c] = [@ EXCEPT !.pc = "failed", !.asked = TRUE]]
    /\ UNCHANGED <<cache, made>>

\* Mutant: only the answer is waited for with a timeout.
TimedOutAsk(c) ==
    /\ call[c].pc = "ask"
    /\ call[c].waited = Timeout
    /\ call' = [call EXCEPT ![c] = [@ EXCEPT !.pc = "failed", !.asked = TRUE]]
    /\ UNCHANGED <<cache, made>>

(* wait_for gives up, for each of the two requests to the MCP server.  (The    *)
(* timeout of the GitLab client is one per read and does not end the whole.)   *)
TimedOut(c) ==
    /\ call[c].pc \in {"tools", "ask"}
    /\ call[c].waited = Timeout
    /\ call' = [call EXCEPT ![c] = [@ EXCEPT !.pc = "failed", !.asked = TRUE]]
    /\ UNCHANGED <<cache, made>>

\* Mutant: every answer is kept.
KeepAny(c) ==
    /\ call[c].pc = "keep"
    /\ cache' = {e \in cache : e.key # Key(c)}
                  \cup {[key |-> Key(c), answer |-> call[c].answer, left |-> Ttl]}
    /\ Goto(c, "validate")
    /\ UNCHANGED made

(* An answer with citations, and any list of activity, is kept, unless Redis   *)
(* fails; it takes the place of what another call may have kept meanwhile.     *)
Keep(c) ==
    /\ call[c].pc = "keep"
    /\ \/ UNCHANGED cache
       \/ /\ call[c].answer.grade # "uncited"
          /\ cache' = {e \in cache : e.key # Key(c)}
                        \cup {[key |-> Key(c), answer |-> call[c].answer, left |-> Ttl]}
    /\ Goto(c, "validate")
    /\ UNCHANGED made

(* KnowledgeService looks at the answer, wherever it came from: without        *)
(* citations it is no evidence; one it cannot use is an error (503).           *)
Validate(c) ==
    /\ call[c].pc = "validate"
    /\ Goto(c, CASE call[c].answer.grade = "good" -> "told"
                 [] call[c].answer.grade = "uncited" -> "insufficient_evidence"
                 [] call[c].answer.grade = "malformed" -> "failed")
    /\ UNCHANGED <<cache, made>>

Return(c) ==
    /\ call[c].pc \in {"told", "insufficient_evidence", "failed"}
    /\ Finish(c)
    /\ UNCHANGED <<cache, made>>

(* The client goes away, or the process ends.                                  *)
Drop(c) ==
    /\ call[c].pc # "idle"
    /\ Finish(c)
    /\ UNCHANGED <<cache, made>>

(* Time passes, for the entries and for the calls that wait for a service.     *)
Tick ==
    /\ \A c \in Calls : /\ call[c].pc \in Waiting \cup {"idle"}
                        /\ call[c].pc \in {"tools", "ask"} => call[c].waited < Timeout
    /\ cache' = {[e EXCEPT !.left = @ - 1, !.answer.age = Older(@)] :
                    e \in {x \in cache : x.left > 1}}
    /\ call' = [c \in Calls |-> IF call[c].pc = "idle" THEN call[c]
                                ELSE [call[c] EXCEPT !.waited = Older(@)]]
    /\ UNCHANGED made

(* The steps the event loop and its timers take by themselves.                 *)
Step(c) ==
    \/ CheckToken(c)
    \/ Hit(c)
    \/ Miss(c)
    \/ TimedOut(c)
    \/ Keep(c)
    \/ Validate(c)
    \/ Return(c)

Next ==
    \/ \E c \in Calls :
          \/ Begin(c)
          \/ Step(c)
          \/ Tools(c)
          \/ Reply(c)
          \/ Fails(c)
          \/ Drop(c)
    \/ Tick

(* Coroutines go on and time passes; no service need ever answer.              *)
Fairness == WF_vars(Tick) /\ \A c \in Calls : WF_vars(Step(c))

Spec == Init /\ [][Next]_vars /\ Fairness

-----------------------------------------------------------------------------
Told(c) == call[c].pc \in {"told", "insufficient_evidence"}

(* An answer only ever reaches a call of the same tenant, operator, employee   *)
(* and permissions as the call it was fetched for, of the same kind, and for   *)
(* the same question but for blanks at its ends; and the cache is no way       *)
(* around the SSO: an answer of the knowledge service needs a token.           *)
KeptApart ==
    \A c \in Calls : Told(c) =>
        /\ call[c].answer.caller = call[c].caller
        /\ call[c].answer.kind = call[c].kind
        /\ Trimmed[call[c].answer.query] = Trimmed[call[c].query]
        /\ call[c].kind = "knowledge" => call[c].token

(* No knowledge answer is older than the TTL and the time the service may take *)
(* to give it, however often it is found in the cache, and whichever of two    *)
(* overlapping calls kept its answer last.                                     *)
AgeBounded ==
    \A c \in Calls : call[c].kind = "knowledge" /\ Told(c) =>
        call[c].answer.age < Ttl + Timeout

(* Bad news is never old news: a call fails, or is told that there is no       *)
(* evidence, only if the service was asked by this very call, and never        *)
(* because Redis fails.  (The exception are answers with citations the service *)
(* cannot use, which are kept before they are looked at.)                      *)
BadNewsIsFresh ==
    \A c \in Calls :
        /\ call[c].pc = "failed" => \/ call[c].asked
                                    \/ call[c].kind = "knowledge" /\ ~call[c].token
                                    \/ /\ call[c].answer # None
                                       /\ call[c].answer.grade = "malformed"
        /\ call[c].pc = "insufficient_evidence" => call[c].asked

(* Every question to the knowledge service is answered or fails, even if the   *)
(* MCP server accepts requests and never answers.                              *)
KnowledgeEnds ==
    \A c \in Calls : (call[c].kind = "knowledge") ~> (call[c].kind # "knowledge")

=============================================================================
