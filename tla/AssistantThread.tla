--------------------------- MODULE AssistantThread ---------------------------
(* Human approval on one assistant thread.  A run of the agent graph stops     *)
(* before controlled writes (interrupts, kept in the checkpoint; several when  *)
(* sub-agents were delegated to side by side), the API keeps an approval       *)
(* record beside it, and a resume request checks the record, resumes the graph *)
(* with its decision for every pending write, and closes the record, in        *)
(* separate transactions.                                                      *)
(*                                                                             *)
(* The graph runtime is external: a run loads the checkpoint when it starts    *)
(* and replaces it when it ends, its branches run side by side, and runs on    *)
(* one thread do not exclude each other.                                       *)
EXTENDS Naturals, Sequences

CONSTANTS
    Requests,      \* the HTTP requests clients may make, each of them once
    Actions,       \* the controlled writes (calls of submit_report, ...)
    Scope,         \* the scope each action needs
    StopSets,      \* the sets of actions that can be pending at one stop
    AnyScope,      \* "assistant:review", needed unless one scope does for all of them
    ScopeSets,     \* the sets of scopes operators come with
    None

ASSUME AssistantThreadAssumption ==
    /\ \A p \in StopSets : p \subseteq Actions /\ p # {}
    /\ \A s \in ScopeSets : s \subseteq {Scope[a] : a \in Actions} \cup {AnyScope}

VARIABLES
    graph,        \* the checkpoint: the writes pending in it, and at which stop
    stops,        \* stops made so far
    approvals,    \* rows of approval_tasks for the thread, oldest first
    req,          \* the requests
    writes,       \* controlled writes made: by which request, at which stop
    calm          \* history: no requests overlapped, none timed out, crashed, or
                  \* failed after a write

vars == <<graph, stops, approvals, req, writes, calm>>

Unused ==
    [pc |-> "unused", kind |-> None, approved |-> FALSE, scopes |-> {},
     record |-> 0,       \* the pending record the gate found
     at |-> {},          \* the writes pending when the run was resumed
     left |-> {},        \* ... those of them still to be made
     stop |-> 0,         \* ... and which stop that was
     interrupted |-> FALSE,
     closes |-> 0]       \* the pending record decide found

Steps == {"gate", "scope", "load", "node", "commit",
          "decide", "close", "look", "insert"}

Active(r) == req[r].pc \in Steps

Pending == {i \in DOMAIN approvals : approvals[i] = "pending"}

OnePending == \E i \in Pending : Pending = {i}

(* _required_scope: the scope of the pending actions, if one does for all.     *)
RequiredScope(actions) ==
    LET scopes == {Scope[a] : a \in actions}
    IN  IF \E s \in scopes : scopes = {s} THEN CHOOSE s \in scopes : TRUE ELSE AnyScope

Several(actions) == \E a, b \in actions : a # b

-----------------------------------------------------------------------------
Init ==
    /\ graph = [at |-> {}, stop |-> 0]
    /\ stops = 0
    /\ approvals = <<>>
    /\ req = [r \in Requests |-> Unused]
    /\ writes = {}
    /\ calm = TRUE

Goto(r, l) == req' = [req EXCEPT ![r].pc = l]

-----------------------------------------------------------------------------
(* A client sends a request; POST invoke starts a run with a new message, POST *)
(* resume brings an operator's decision.                                       *)
Start(r) ==
    /\ req[r].pc = "unused"
    /\ \/ req' = [req EXCEPT ![r] = [@ EXCEPT !.pc = "load", !.kind = "invoke"]]
       \/ \E yes \in BOOLEAN, s \in ScopeSets :
             req' = [req EXCEPT ![r] = [@ EXCEPT !.pc = "gate", !.kind = "resume",
                                                 !.approved = yes, !.scopes = s]]
    /\ calm' = (calm /\ \A q \in Requests : ~Active(q))
    /\ UNCHANGED <<graph, stops, approvals, writes>>

(* require_pending: none is answered 404, two rows raise MultipleResultsFound. *)
Gate(r) ==
    /\ req[r].pc = "gate"
    /\ IF OnePending
       THEN \E i \in Pending :
               req' = [req EXCEPT ![r] = [@ EXCEPT !.pc = "scope", !.record = i]]
       ELSE Goto(r, "done")
    /\ UNCHANGED <<graph, stops, approvals, writes, calm>>

(* aget_state and permissions.require: what is pending now asks for.           *)
CheckScope(r) ==
    /\ req[r].pc = "scope"
    /\ Goto(r, IF RequiredScope(graph.at) \in req[r].scopes THEN "load" ELSE "done")
    /\ UNCHANGED <<graph, stops, approvals, writes, calm>>

(* The run loads the checkpoint.  A new message leaves a pending interrupt     *)
(* behind; a decision for a graph that is not stopped resumes nothing, one for *)
(* a graph that is stopped resumes every pending write with a copy of itself.  *)
Load(r) ==
    /\ req[r].pc = "load"
    /\ \/ req[r].kind = "invoke" /\ Goto(r, "commit")
       \/ req[r].kind = "resume" /\ graph.at = {} /\ Goto(r, "decide")
       \/ /\ req[r].kind = "resume"
          /\ graph.at # {}
          /\ req' = [req EXCEPT ![r] = [@ EXCEPT !.pc = "node", !.at = graph.at,
                                                 !.left = graph.at, !.stop = graph.stop]]
    /\ UNCHANGED <<graph, stops, approvals, writes, calm>>

Write(r, a) == [by |-> r, action |-> a, stop |-> req[r].stop]

(* The run goes on when the last of its branches has.                          *)
Finish(r, a) ==
    req' = [req EXCEPT ![r] =
              [@ EXCEPT !.left = req[r].left \ {a},
                        !.pc = IF req[r].left = {a} THEN "commit" ELSE "node"]]

(* The nodes go on after their interrupt().  A rejection skips the writes ...   *)
Rejected(r) ==
    /\ req[r].pc = "node"
    /\ ~req[r].approved
    /\ Goto(r, "commit")
    /\ UNCHANGED <<graph, stops, approvals, writes, calm>>

\* Mutant: the services rely on the gate for the operator's scope.
WrittenTrustsGate(r, a) ==
    /\ req[r].pc = "node"
    /\ req[r].approved
    /\ a \in req[r].left
    /\ Finish(r, a)
    /\ writes' = writes \cup {Write(r, a)}
    /\ UNCHANGED <<graph, stops, approvals, calm>>

(* ... an approval makes each of them, in any order, if its service finds the  *)
(* scope of the action.                                                        *)
Written(r, a) ==
    /\ req[r].pc = "node"
    /\ req[r].approved
    /\ a \in req[r].left
    /\ Scope[a] \in req[r].scopes
    /\ Finish(r, a)
    /\ writes' = writes \cup {Write(r, a)}
    /\ UNCHANGED <<graph, stops, approvals, calm>>

\* Mutant: the failure of the service ends the run like a rejection.
RaisedIsCaught(r) ==
    /\ req[r].pc = "node"
    /\ req[r].approved
    /\ Goto(r, "commit")
    /\ UNCHANGED <<graph, stops, approvals, writes, calm>>

(* A service that raises, for a missing scope or another reason, fails the     *)
(* request undecided, and so does the graph runtime when it does not take one  *)
(* value for several interrupts.  Writes of other branches stay made ...       *)
Raised(r) ==
    /\ req[r].pc = "node"
    /\ req[r].approved \/ Several(req[r].at)
    /\ Goto(r, "done")
    /\ calm' = (calm /\ req[r].left = req[r].at)
    /\ UNCHANGED <<graph, stops, approvals, writes>>

(* ... and so does the write whose answer was lost, for which a service raises *)
(* just as well.                                                               *)
WrittenRaised(r, a) ==
    /\ req[r].pc = "node"
    /\ req[r].approved
    /\ a \in req[r].left
    /\ Scope[a] \in req[r].scopes
    /\ Goto(r, "done")
    /\ writes' = writes \cup {Write(r, a)}
    /\ calm' = FALSE
    /\ UNCHANGED <<graph, stops, approvals>>

\* Mutant: stops are not counted.
CommitUncounted(r) ==
    /\ req[r].pc = "commit"
    /\ \E p \in StopSets : graph' = [at |-> p, stop |-> stops + 1]
    /\ req' = [req EXCEPT ![r] =
                 [@ EXCEPT !.pc = IF req[r].kind = "resume" THEN "decide" ELSE "look",
                           !.interrupted = TRUE]]
    /\ UNCHANGED <<stops, approvals, writes, calm>>

(* The run ends, at its end or at its next stop; a resume goes on to decide,   *)
(* an interrupted invoke to create_pending.                                    *)
Commit(r) ==
    /\ req[r].pc = "commit"
    /\ \/ /\ graph' = [at |-> {}, stop |-> stops]
          /\ Goto(r, IF req[r].kind = "resume" THEN "decide" ELSE "done")
          /\ UNCHANGED stops
       \/ /\ \E p \in StopSets : graph' = [at |-> p, stop |-> stops + 1]
          /\ stops' = stops + 1
          /\ req' = [req EXCEPT ![r] =
                       [@ EXCEPT !.pc = IF req[r].kind = "resume" THEN "decide" ELSE "look",
                                 !.interrupted = TRUE]]
    /\ UNCHANGED <<approvals, writes, calm>>

(* asyncio.timeout in ainvoke: the run is dropped with its checkpoint as it    *)
(* was, and the caller is told "failed" and goes on as after any other run.    *)
Timeout(r) ==
    /\ req[r].pc \in {"node", "commit"}
    /\ Goto(r, IF req[r].kind = "resume" THEN "decide" ELSE "done")
    /\ calm' = FALSE
    /\ UNCHANGED <<graph, stops, approvals, writes>>

\* Mutant: a run that stopped again keeps its approval for the next decision.
DecideAtTheEnd(r) ==
    /\ req[r].pc = "decide"
    /\ IF OnePending /\ ~req[r].interrupted
       THEN \E i \in Pending :
               req' = [req EXCEPT ![r] = [@ EXCEPT !.pc = "close", !.closes = i]]
       ELSE Goto(r, "done")
    /\ UNCHANGED <<graph, stops, approvals, writes, calm>>

(* decide selects the pending row, with no lock, ...                           *)
Decide(r) ==
    /\ req[r].pc = "decide"
    /\ IF OnePending
       THEN \E i \in Pending :
               req' = [req EXCEPT ![r] = [@ EXCEPT !.pc = "close", !.closes = i]]
       ELSE Goto(r, "done")
    /\ UNCHANGED <<graph, stops, approvals, writes, calm>>

\* Mutant: a resume that stops again asks for no new approval.
CloseOnly(r) ==
    /\ req[r].pc = "close"
    /\ approvals' = [approvals EXCEPT ![req[r].closes] =
                        IF req[r].approved THEN "approved" ELSE "rejected"]
    /\ Goto(r, "done")
    /\ UNCHANGED <<graph, stops, writes, calm>>

(* ... and writes the decision to it.                                          *)
Close(r) ==
    /\ req[r].pc = "close"
    /\ approvals' = [approvals EXCEPT ![req[r].closes] =
                        IF req[r].approved THEN "approved" ELSE "rejected"]
    /\ Goto(r, IF req[r].interrupted THEN "look" ELSE "done")
    /\ UNCHANGED <<graph, stops, writes, calm>>

(* create_pending: a row that is pending already serves this stop too, two     *)
(* raise; no unique constraint keeps a second insert away.                     *)
Look(r) ==
    /\ req[r].pc = "look"
    /\ Goto(r, IF Pending = {} THEN "insert" ELSE "done")
    /\ UNCHANGED <<graph, stops, approvals, writes, calm>>

Insert(r) ==
    /\ req[r].pc = "insert"
    /\ approvals' = Append(approvals, "pending")
    /\ Goto(r, "done")
    /\ UNCHANGED <<graph, stops, writes, calm>>

(* The API process ends, or the client goes away and the request is cancelled. *)
Crash(r) ==
    /\ Active(r)
    /\ Goto(r, "done")
    /\ calm' = FALSE
    /\ UNCHANGED <<graph, stops, approvals, writes>>

Next == \E r \in Requests :
    \/ Start(r)
    \/ Gate(r)
    \/ CheckScope(r)
    \/ Load(r)
    \/ Rejected(r)
    \/ \E a \in Actions : Written(r, a) \/ WrittenRaised(r, a)
    \/ Raised(r)
    \/ Commit(r)
    \/ Timeout(r)
    \/ Decide(r)
    \/ Close(r)
    \/ Look(r)
    \/ Insert(r)
    \/ Crash(r)

Spec == Init /\ [][Next]_vars

-----------------------------------------------------------------------------
(* Types: what is pending in the checkpoint are actions, requests are at one   *)
(* of their steps, record numbers exist.                                       *)
TypeOK ==
    /\ graph \in [at : SUBSET Actions, stop : Nat]
    /\ stops \in Nat
    /\ approvals \in Seq({"pending", "approved", "rejected"})
    /\ \A r \in Requests :
          /\ req[r].pc \in Steps \cup {"unused", "done"}
          /\ req[r].kind \in {None, "invoke", "resume"}
          /\ req[r].approved \in BOOLEAN
          /\ req[r].scopes \in ScopeSets \cup {{}}
          /\ {req[r].record, req[r].closes} \subseteq 0..Len(approvals)
          /\ req[r].stop \in 0..stops
          /\ req[r].at \subseteq Actions
          /\ req[r].left \subseteq req[r].at
          /\ req[r].interrupted \in BOOLEAN
    /\ writes \subseteq [by : Requests, action : Actions, stop : 1..stops]
    /\ calm \in BOOLEAN

(* Whatever overlaps, times out or crashes, a controlled write is made only by *)
(* a request that says yes, that found the thread's approval pending when it   *)
(* came, and whose operator holds the scope of the very action it makes, even  *)
(* if the graph moved on to another one after the gate had looked.             *)
WritesAuthorised ==
    \A x \in writes : /\ req[x.by].kind = "resume"
                      /\ req[x.by].approved
                      /\ req[x.by].record > 0
                      /\ Scope[x.action] \in req[x.by].scopes

(* An approval is consumed once, and what waited at a stop is made once: all   *)
(* the writes on one record, and all the writes of one stop, are made by one   *)
(* request, the several ones its one decision was copied to.                   *)
SingleUse ==
    \A x, y \in writes :
        \/ req[x.by].record = req[y.by].record
        \/ x.stop = y.stop
        => x.by = y.by

(* A stopped thread can be resumed: once its requests are served, exactly one  *)
(* approval is pending.                                                        *)
Resumable ==
    graph.at # {} /\ (\A r \in Requests : ~Active(r)) => OnePending

(* While requests come one at a time, and none is cut short or fails with some *)
(* of its writes made, an approval is consumed once ...                        *)
CalmSingleUse == calm => SingleUse

(* ... and a stopped thread waits for exactly one decision.                    *)
CalmResumable == calm => Resumable

=============================================================================
