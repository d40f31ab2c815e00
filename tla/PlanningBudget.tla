---------------------------- MODULE PlanningBudget ----------------------------
(* The main agent's loop under PlanningBudgetMiddleware: before each model     *)
(* call the middleware reads the thread's messages and withholds tool "task"   *)
(* (delegation) or "write_todos" (planning).  The model then calls any of the  *)
(* tools it is offered, several at once, and their answers join the messages.  *)
(* A long history is summarised: its older part gives way to one message, and  *)
(* the calls and failures that stood there are not seen again.                 *)
(*                                                                             *)
(* Three things are external: the model, which may make any calls it is        *)
(* offered, the agent loop of the libraries, and the summarisation that comes  *)
(* with Deep Agents (docs/architecture.md:57), modelled from how the           *)
(* middleware and SupervisorRuntime use them.                                  *)
(*                                                                             *)
(* The names of the specification's parts begin with Agent, so that another    *)
(* component's module can be extended together with this one.                  *)
EXTENDS Integers, Sequences, FiniteSetsExt

CONSTANTS
    MaxDelegations,   \* AGENT_MAX_DELEGATIONS
    MaxPlanUpdates,   \* AGENT_MAX_PLAN_UPDATES
    MaxParallel,      \* bound: tool calls in one answer of the model
    RecursionLimit,   \* model calls in one invocation
    MaxInvocations,   \* bound: requests on the thread
    MaxSummaries      \* bound: summaries on the thread

ASSUME PlanningBudgetAssumption ==
    /\ MaxDelegations \in Nat \ {0}     \* the constructor's check
    /\ MaxPlanUpdates \in Nat \ {0}
    /\ MaxParallel \in Nat \ {0}
    /\ RecursionLimit \in Nat
    /\ MaxInvocations \in Nat
    /\ MaxSummaries \in Nat

VARIABLES
    messages,      \* what the middleware is given of the thread's history
    phase,         \* "idle", or what the running invocation does next
    steps,         \* model calls of the running invocation
    invocations,   \* invocations so far
    summaries,     \* history: summaries so far
    spent          \* history: calls of the two limited tools ever made on the thread

agentVars == <<messages, phase, steps, invocations, summaries, spent>>

Limited == {"task", "write_todos"}

Tools == Limited \cup {"other"}

Budget(tool) == IF tool = "task" THEN MaxDelegations ELSE MaxPlanUpdates

(* The calls of one answer, as how often each tool is called.                  *)
Calls     == [Tools -> 0..MaxParallel]
Total(c)  == c["task"] + c["write_todos"] + c["other"]
NoCalls   == [tool \in Tools |-> 0]

(* A message: what it calls (an AI message), or whether it carries one of the  *)
(* failure markers (a tool message).  The answers to the calls of one AI       *)
(* message stand together in the history, and count as one message.            *)
Human     == [kind |-> "human", calls |-> NoCalls, failed |-> FALSE]
AI(c)     == [kind |-> "ai", calls |-> c, failed |-> FALSE]
Tool(f)   == [kind |-> "tool", calls |-> NoCalls, failed |-> f]

-----------------------------------------------------------------------------
(* The calls of a tool: of message i the first, the second, ...               *)
CallsOf(ms, tool) == UNION {{i} \X (1..ms[i].calls[tool]) : i \in DOMAIN ms}

CountToolCalls(ms, tool) == Cardinality(CallsOf(ms, tool))

RequiresReplan(ms) ==
    LET Latest(P(_)) == Max({0} \cup {i \in DOMAIN ms : P(ms[i])})
        LatestFailure == Latest(LAMBDA m : m.kind = "tool" /\ m.failed)
        LatestPlan    == Latest(LAMBDA m : m.kind = "ai" /\ m.calls["write_todos"] > 0)
    IN  LatestFailure > LatestPlan

\* Mutant: a budget is exhausted one answer later.
ExhaustedLate(ms) == {tool \in Limited : CountToolCalls(ms, tool) > Budget(tool)}

Exhausted(ms) == {tool \in Limited : CountToolCalls(ms, tool) >= Budget(tool)}

\* Mutant: no look at failures.
OfferBudgetsOnly(ms) == Tools \ Exhausted(ms)

(* _limited_request: an exhausted budget withholds its tool and ends the       *)
(* matter; only with both budgets left does a pending failure withhold "task". *)
Offer(ms) ==
    IF Exhausted(ms) # {} THEN Tools \ Exhausted(ms)
    ELSE IF RequiresReplan(ms) THEN Tools \ {"task"}
    ELSE Tools

-----------------------------------------------------------------------------
AgentInit ==
    /\ messages = <<>>
    /\ phase = "idle"
    /\ steps = 0
    /\ invocations = 0
    /\ summaries = 0
    /\ spent = [tool \in Limited |-> 0]

(* SupervisorRuntime.ainvoke with a new user message.                          *)
Invoke ==
    /\ phase = "idle"
    /\ invocations < MaxInvocations
    /\ invocations' = invocations + 1
    /\ messages' = Append(messages, Human)
    /\ phase' = "model"
    /\ steps' = 0
    /\ UNCHANGED <<summaries, spent>>

(* Before a model call the older part of the history gives way to a summary,   *)
(* which joins as a message of the user; an answer of the model stays together *)
(* with the answers to its calls.  The checkpoint may keep the rest, but the   *)
(* requests no longer carry it.                                                *)
Summarise ==
    /\ phase = "model"
    /\ summaries < MaxSummaries
    /\ summaries' = summaries + 1
    /\ \E k \in 2..Len(messages) :
          /\ messages[k].kind # "tool"
          /\ messages' = <<Human>> \o SubSeq(messages, k, Len(messages))
    /\ UNCHANGED <<phase, steps, invocations, spent>>

(* awrap_model_call: the request goes out with the tools of Offer.             *)
CallModel ==
    /\ phase = "model"
    /\ steps < RecursionLimit
    /\ steps' = steps + 1
    /\ \E c \in Calls :
          /\ Total(c) <= MaxParallel
          /\ \A tool \in Tools \ Offer(messages) : c[tool] = 0
          /\ messages' = Append(messages, AI(c))
          /\ spent' = [tool \in Limited |-> spent[tool] + c[tool]]
          /\ phase' = IF c = NoCalls THEN "idle" ELSE "tools"
    /\ UNCHANGED <<invocations, summaries>>

(* The calls of the last answer run side by side; their answers carry failure  *)
(* markers or not, those of write_todos included, which repeat the plan's text.*)
RunTools ==
    /\ phase = "tools"
    /\ \E failed \in BOOLEAN : messages' = Append(messages, Tool(failed))
    /\ phase' = "model"
    /\ UNCHANGED <<steps, invocations, summaries, spent>>

(* The recursion limit or the run's timeout ends the invocation; the history   *)
(* up to the last finished step stays in the checkpoint.                       *)
CutOff ==
    /\ phase # "idle"
    /\ phase' = "idle"
    /\ UNCHANGED <<messages, steps, invocations, summaries, spent>>

AgentNext == Invoke \/ Summarise \/ CallModel \/ RunTools \/ CutOff

AgentSpec == AgentInit /\ [][AgentNext]_agentVars

-----------------------------------------------------------------------------
(* The budgets are kept by counting in the messages the middleware is given.   *)
(* Over the whole thread a limited tool is called no more often than its       *)
(* budget and the calls made side by side with the last one within it, once,   *)
(* and once more for each summary: a summary takes calls out of sight, but     *)
(* never more than one such budget's worth.                                    *)
OvershootBounded ==
    \A tool \in Limited :
        spent[tool] <= (summaries + 1) * (Budget(tool) - 1 + MaxParallel)

Delegates == spent'["task"] > spent["task"]

(* A plan is older than the failure it does not answer: while budget for       *)
(* another plan is left, nothing is delegated between a failed sub-task the    *)
(* middleware still sees and the plan update that follows it.                  *)
ReplanBeforeDelegation ==
    [][Delegates /\ RequiresReplan(messages) =>
          CountToolCalls(messages, "write_todos") >= MaxPlanUpdates]_agentVars

(* The documented rule, with no exception for an exhausted plan budget.        *)
NoDelegationAfterFailure == [][Delegates => ~RequiresReplan(messages)]_agentVars

=============================================================================
