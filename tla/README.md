# office-multi-agent: TLA+ models, checks and proofs

This directory models the parts of the office assistant in which ordering, failure
and concurrency decide whether it is correct: the background task queue, the
agent's planning budget, human approval of controlled writes, the submission of
reports and the mailing of minutes, the collection of work events, uploaded files
and their exports, and the caches in front of memories, GitLab and the RAG service.
Paths below are relative to `src/`; `app/` is the implementation.

## 1. The system

One FastAPI process (`Dockerfile` starts one uvicorn) serves the HTTP routes and
runs the agents; separate processes `python -m app.workers` execute background
tasks. They share PostgreSQL; Redis is a cache only. Inside a process everything
is asyncio: a coroutine gives way at every `await`, and every repository call is a
transaction of its own.

| Component | State | Operations | What is hard | Module |
|---|---|---|---|---|
| Task queue and worker (`services/task_worker.py`, `services/runtime_state.py`, `repositories/runtime.py`, `workers.py`) | rows of `background_tasks`; per worker the copy of the claimed row | create, cancel, claim, run handler, succeed, fail, poll | several workers, leases, timeouts, crashes, late saves, lost acknowledgements | `TaskQueue`, `TaskLifecycle` |
| Supervisor loop (`orchestration/middleware.py`, `supervisor.py`) | messages in the checkpoint | model call, tools, cut-off | parallel calls against a budget, replanning rule against exhaustion | `PlanningBudget` |
| Assistant thread and approvals (`api/routes.py`, `repositories/persistence.py`, `orchestration/worker_graphs.py`) | checkpoint, rows of `approval_tasks` | invoke, resume | check-then-act over a long run, overlapping resumes, crash between stores | `AssistantThread`, `ApprovedSubmission` |
| Reports (`domain/reports.py`) | row, audit log, idempotency record, external record | generate, review, submit | four stores in four transactions, lost answers, lost updates, calls inside runs that time out | `ReportSubmission`, `ReportOutcome`, `ApprovedSubmission`, `WorkCollection` |
| Meeting minutes (`domain/meeting_minutes.py`) | row, audit log, idempotency record, mail | generate, review, send, list | regeneration under a known id, stale copies | `MeetingMinutes`, `MinutesOutcome` |
| Work events (`services/work_events.py`) | none of its own | collect | four sources in any order, partial failure | `WorkCollection` |
| Memories (`services/runtime_state.py`, `services/cache.py`) | rows, Redis entry, memory file | remember, list, sync | cache fill racing invalidation, Redis failing | `MemoryCache` |
| Files and artifacts (`services/files.py`, `services/artifacts.py`) | disk, rows, two dictionaries of the process | upload, read, export, delete | resuming after an await, crash between stores, tenants sharing memory | `FileStore` |
| Knowledge and GitLab answers (`domain/knowledge.py`, `connectors/cached.py`, `connectors/mcp_knowledge.py`, `connectors/gitlab.py`, `security/sso.py`) | Redis entries, the token of a request | answer, list_activity | who shares an entry, how old it gets, what is worth keeping, a server that never answers | `AnswerCache` |
| Schedules, data analysis, e-mail polishing, wiring | see `PROJECT.json` | | stateless, or no executor | not modelled |

Interactions: the agent's drafting nodes and `POST /reports/generate` call the
collector, which asks connectors and `MeetingMinutesService.list_for_report`; the
interrupting nodes of the worker graphs call the report and minutes services only
after a resume, inside the run that the resume started; the minutes tool creates
background tasks; before a run the supervisor copies the confirmed memories into the
file the agent reads.

The hazards these properties are for are listed, line by line, in `PROJECT.json`.

## 2. Modules and how they correspond to the code

Each action is one transaction, one external call, or one stretch of a coroutine
between two awaits. `PROJECT.json` maps every definition to its lines.

* **TaskQueue** — a row per task and a program counter per worker. `Create`, `Cancel`
  are the API's; `Claim`/`ClaimCloses` are `claim_next_task`; `ReadCancel`, `Submit`,
  `Ask` are the steps of `MeetingTranscriptionHandler`, `TimedOut` and `Raises` the ways
  out of it; `Succeed`, `Fail` with `Save` are the settlement through
  `save_claimed_task`; `SucceedRaises` is the commit that took effect and is reported as
  failed. Time is relative: `Tick` ages locks and workers and lets delays run out; a
  worker inside its handler does not pass `Timeout`, one that settles does not pass
  `Timeout + Slack`. A claim skips nothing (the SKIP LOCKED of a transaction that is one
  action is invisible), and takes any claimable row rather than the oldest, which
  allows more behaviours.
* **TaskLifecycle** — what the queue promises of a task without workers, leases and
  time: it waits, starts at most `MaxAttempts` times, ends once. `TaskQueue` implements
  it under the mapping `LifecycleState` (property `ImplementsLifecycle`).
* **PlanningBudget** — the messages of one thread. `Offer` is `_limited_request`;
  `CallModel` lets the model make any calls it is offered, up to `MaxParallel` side by
  side; `RunTools` answers them, with or without a failure marker; `CutOff` is the
  recursion limit or the timeout. History survives from one invocation to the next,
  but not whole: `Summarise` (external, the framework's summarisation that
  `docs/architecture.md:57` speaks of) replaces any older part of it by a summary. The
  middleware counts what is left of `request.messages`, so its counts start lower after
  it; `spent` is history, the calls the tools have really answered.
* **AssistantThread** — the checkpoint (`graph`), the approval rows and the requests.
  A resume goes `Gate` (get_pending), `CheckScope`, `Load`, then through its node by
  `Rejected`, `Written`, `Raised` or `WrittenRaised`, then `Commit`, `Decide`, `Close`,
  `Look`, `Insert`; an invoke starts at `Load`. Runs on one thread do not exclude each
  other; `Timeout` ends a run and keeps its checkpoint unwritten. A stop holds the
  writes of all branches that were delegated to side by side: the gate asks for the one
  scope that does for all of them or for `AnyScope` (`RequiredScope`), the run copies its
  decision to each, and each is made, or raises, by itself and in any order. What the
  graph runtime does when one branch raises after another has written, and whether it
  takes one value for several interrupts at all, is not in this repository; the model
  allows the run to go on and to fail (`Several`, `Raised`).
* **ReportSubmission**, **MeetingMinutes** — requests that walk through steps
  (`ReviewSteps`, `SubmitSteps`, `SendSteps`), each a store, with a copy of the row. The
  report system and the mail system are external: one record per idempotency key.
  What tells one key from another is modelled: the employee for a report, nothing for
  a meeting.
* **ReportOutcome** — what becomes of a report, without rows, statuses, copies and steps:
  a review is logged, then the report system gets the report, in one or several names,
  then a submission is logged; one of those the report system holds is settled on, for
  good, and is what every client is told. `ReportSubmission` implements it (property
  `ImplementsOutcome`): what is logged is read off the audit log, what is settled off the
  idempotency record.
* **MinutesOutcome** — what the minutes of a meeting come to: contents get approved, one
  approved content is mailed, once, and reports may quote approved contents or none.
  `MeetingMinutes` implements it (`ImplementsOutcome`): approved is what the audit log
  says, quotable what the row says.
* **ApprovedSubmission** — the two composed: `INSTANCE`s of `AssistantThread` for the
  conversations and of `ReportSubmission` for HTTP requests and the calls of runs
  together: one request for each conversation and each action it may make (two calls of
  one tool at a stop are two actions), and several of them may be under way in one run.
  `Call` is a node of a resumed run entering `ReportService`; `Quiet` are the steps of
  the call the thread does not see; `Effect` is the step in which the controlled write
  counts (the row of a review; the record of a submission, or the answer of an earlier
  one), a joint step of both parts; `NoEffect` and `NotPermitted` raise, `NotResumed` is
  the runtime refusing one value for several interrupts. Whatever ends a run (one branch
  that raises, `CutShort` for a timeout or a crash) takes its other calls with it, wherever
  they are, through `Cancelled`. In `AssistantThread` alone the write
  is one step; here it is up to six, and `ImplementsThread` says that the difference
  does not show.
* **WorkCollection** — four sources answer in any order, fail, or raise; `SafeCollect`,
  `Deduplicate`, `DailyDraft` are pure operators, checked against a definition by
  quantifiers (`BestEventKept`). Titles are compared through the constant `Normal`,
  which stands for lower-casing and folding blanks.
* **MemoryCache** — values are commit numbers, so "newer" is "greater". `Fill` stores
  what was read before, `Invalidate` may be ignored, `Expire` is the TTL.
* **FileStore** — one file. `Ask`/`Select`/`Note` are `get_metadata` cut at its await,
  `Open`/`Keep` are `get_rows`, `Unlink`/`Pop`/`Remove` are `delete`, `Write`/`List` are
  `export_analysis`, one step per file written and one for the row. `Restart` restarts
  the process on the same disk. The compose file gives only uploads a volume, so what is
  said of artifacts holds for a restarted process and not for a recreated container.
* **AnswerCache** — entries of Redis with the time they have left, and calls. `CheckToken`
  comes before `Hit` and `Miss`; `Tools` and `Reply` are the two requests to the MCP
  server, each under `TimedOut`; `Keep` stores; `Validate` is `KnowledgeService` looking at
  the answer. GitLab calls go from `Miss` to `Reply` and have no token. An answer
  carries, as history, for whom and for what it was fetched and how old it is.
  `KnowledgeKey` and `ActivityKey` are the parts of the two cache keys; the digest is
  taken to be injective. `Drop` is a client that goes away.

Definitions marked `Mutant` are deliberate faults of the definition below them. Each
property of a passing run has one that violates it, which shows that the property
depends on the code it is about.

## 3. Runs

`tlc -config <cfg> <module>` in this directory.

| Run | Question | Bounds | Result |
|---|---|---|---|
| `MCTaskQueue` | do two workers share tasks safely, do tasks end, is the lifecycle kept | 2 tasks (one without a handler), 2 workers, 3 attempts, lease 4, timeout 2, slack 1, 1 crash | holds, 90,638 states |
| `MCTaskQueueCancel` | is a cancelled running task never put back | same parameters of time | violated (finding) |
| `MCPlanningBudget` (module `PlanningBudget`) | budgets and replanning | 2 delegations, 1 plan update, 2 parallel calls, 2 model calls, 2 invocations, 1 summary | holds, 265,934 states |
| `MCAssistantThread` | authorisation and single use of approvals | 3 requests, 2 actions, alone or together at a stop, 3 operators | holds, 199,345 states |
| `MCReportSubmission` | reviewed, agreed on, audited, remembered; is the outcome kept | 4 requests, 2 employees | holds, 195,629 states |
| `MCApprovedSubmission` | does the composition keep what its parts promise; are records and approvals truthful | 3 conversations and 2 HTTP requests, of which 3 are made; submission alone or with a review at a stop; 2 employees | holds, about 2,290,000 states (3 minutes) |
| `MCApprovedSubmissionTwice` (module `MCApprovedSubmission`) | one submission per approval | same | violated (finding) |
| `MCMeetingMinutes` | only approved content leaves; is the outcome kept | 3 requests at a time, 6 in all | holds, 82,491 states |
| `MCMemoryCache` (module `MemoryCache`) | reads after writes, end of staleness | 2 keys, 3 calls at a time, 4 in all | holds, 730,055 states |
| `MCAnswerCache` | who shares answers, how old they get, what failures are kept, do calls end | 5 questions of 2 callers, 2 calls at a time, 3 in all, TTL 2, timeout 1 | holds, 521,340 states |
| `MCFileStore` (module `FileStore`) | durability, deletion, tenants, whole artifacts | 3 calls at a time, 5 in all, 8 files per artifact | holds, 4,967,970 states |
| `MCWorkCollection` | partial results, filtering, order independence | up to 2 items per source, up to 3 given events | holds, 162,272 states |

Why the bounds are enough: every race above is between two actors, and a third
request or a fourth call is what it takes to observe the result (a reader after a
race of a reader and a writer; a third resume after two overlapped; in `AnswerCache`
one call that fills the cache, one that finds the entry, one that meets what is left).
Three attempts give a first, a middle and a last one. The lease of 4 ticks leaves one
tick of margin over timeout and slack; with slack 2 TLC refutes `OneWorkerPerTask`, so
the margin is what the property lives on. The budgets of `PlanningBudget` are the
smallest for which "exhausted", "one left" and "overshoot" differ. In
`MCApprovedSubmission` any three of the conversations and HTTP requests are made
(`MaxClients`): one conversation stops the thread, one resumes it, and the third resumes
it too, or is the HTTP request that reviews the report or competes for it; with a review
among the pending writes a conversation can bring its own. The questions of `MCAnswerCache`
differ from the first in one thing each: blanks, token, permissions, kind (a tenant or
operator is one more component of the same key). `MaxCrashes`, `MaxRequests`,
`MaxCalls`, `MaxClients`, `MaxInvocations`, `MaxSummaries`, `MaxParallel` and `MaxAge` are bounds of the exploration,
not of the code. Symmetry is used only for requests, conversations and employees, in
runs without liveness. Deadlock checking is off where clients may simply stop asking.

**Calm properties.** Where overlap or a crash breaks what one would wish for, the
history variable `calm` records that neither has happened, and `Calm...` states what
holds then; in `AssistantThread` it also excludes a run that failed with some of its
writes made. The unrestricted form is either a violation run or a finding, or no
document promises it and the hazard's note says so. A calm property says nothing of
overlap and crashes themselves: the hazards it is listed under are those it bears on.

**Fairness.** `TaskQueue` assumes weak fairness of the clock and of the steps of each
live worker: event loop and timers run. Nothing makes a client call, a handler raise,
a process end or come back; `EventuallyFinished` therefore rests on the lease and on
one worker staying alive (`MaxCrashes` is less than the number of workers).
`AnswerCache` assumes weak fairness of the clock and of the steps the event loop takes
by itself (`Step`, with the `wait_for` of `TimedOut` in it); a service need never answer,
so `KnowledgeEnds` rests on the two timeouts. `MemoryCache` assumes only that an entry
with a TTL expires. The other modules have no liveness property: no request is obliged
to come, and none to be finished.

## 4. Findings

`PROJECT.json` quotes the documents. In short:

* a cancelled running task is retried when its handler fails (run `cancel_then_retry`);
* the replanning rule is not looked at once a budget is used up;
* an approval can carry two submissions, and one report can be submitted twice, when
  resumes by two employees overlap (run `approval_used_twice` shows both at once);
* no status is queried after a write to the outside, so a lost answer is not found out;
* a crash between checkpoint and approval row, or a resume that times out, leaves a
  thread that cannot be resumed; the timed-out one has its approval closed as decided;
* the minutes routes audit into process memory;
* the memory cache may be refilled with what was read before the invalidation;
* database errors escape the collector's partial-failure handling;
* a knowledge answer with citations that cannot be used is cached, and its failure
  repeated until the TTL ends.

Met on the way, and against no document: a submission cut short between the report row
and the idempotency record can only be repeated after a new review
(`CalmSubmittedIsRemembered`); minutes generated and approved anew after a sending are
not mailed again, as the idempotency key names the meeting only.

## 5. Proofs

`tlapm <module>`; all obligations are proved with SMT, Zenon and LS4.

* **TaskQueueProofs** — `TypeCorrect` for every value of the constants, and, from the
  inductive invariant `IInv` and the assumption `NoOverrun`
  (`Timeout + Slack < Lease`), `SafePreemption`, `OwnershipKept`, `RetriesBounded` and
  `TerminalStays`. `OneWorkerPerTask` is not inductive: a second claim is kept away only
  by the age of the lock, so the invariant ties the age of the lock to the age of the
  worker (a worker that owns its row has been at it exactly as long), bounds the
  worker's age by timeout and slack, and says that an uncertain success is the only
  way not to own one's row. `run_worker` checks only `Timeout < Lease`;
  `NoOverrun` is what operation has to add, and is true of the shipped defaults
  (360 s and 300 s) when an outcome is written within a minute. `CancelOnlyOnRequest`
  needs neither `NoOverrun` nor `IInv`. `QueueImplementsLifecycle`: under `NoOverrun`
  every step maps, through `LifecycleState`, to one step of `TaskLifecycle` or to none. The
  writes of an outcome are one lemma step: `PutBack` or `End` while the worker owns its
  row, `Reopen` when its success is recorded without its knowing.
* **AssistantThreadProofs** — `TypeCorrect` and `WritesAreAuthorised` without further
  assumptions. The invariant adds what each request has established at its step
  (`Authority`), that stops are counted (`StopsCounted`) and that writes belong to
  requests past their node, or at it with some of their writes made (`WritersArePast`). The proof has a lemma per action.
  `ApprovalsAreConsumedOnce` and `StoppedThreadsWait` are the calm properties. Neither
  is inductive: that a write's approval is used up depends on where the request is that
  made it. `CalmInv` says that requests come one at a time (`Alone`), at most one row is
  pending, at which steps it is the request's own (`AtStep`), that a stopped graph has its
  row or a request about to insert it (`Waits`), and that the record of a write is closed
  unless its request is on the way to close it (`Consumed`), and that what waits at the
  present stop has been written by no one but the run that is at it (`Fresh`). Single use
  is stated for stops with several writes: those on one record, and those of one stop,
  are all made by one request.
* **ReportSubmissionProofs** — `TypeCorrect`, `SubmissionsAreReviewed`, `AnswersAlwaysAgree`
  and `ReplaysAreAudited`, for any requests and employees. None of the three is
  inductive: the invariant says for each step what the request there has behind it. A
  report that is approved or submitted, in the row or in a copy, has its approving
  review in the audit log (a review is audited before it is saved); a request past its
  audit is in the log; a request past the report system has its record there.
  `ReportsAreSubmittedOnce` and `SubmissionsAreRemembered` (calm): the invariant there says
  that the record is remembered or its submission on the way to remember it
  (`OnTheWay`), so that no record exists when a submission gets to the report system.
  `ServiceImplementsOutcome`: each step is a step of `ReportOutcome` or none, action by
  action under the invariant. Four steps show: `Submitted` is `Submit`, `Audit` is `Log`,
  `Remember` is `Settle` or `Tell`, `Replayed` is `Tell`; that the step is allowed there
  (a review is logged before anything is held, a submission before it is settled, the
  report system holds what is settled) is what the invariant is needed for.
* **ApprovedSubmissionProofs** — `CompositionImplementsThread` and
  `CompositionImplementsReports`: every step of the composition is a step of each part, or
  leaves it alone, action by action. The invariants proved of the parts then hold of the
  composition, through an instance of each proof module: `CallsAreAuthorised`,
  `SubmissionsStayReviewed`. (An instance repeats the definitions; `SameThread` and
  `SameReports` say that they are the same.) `RecordsAreAccountedFor` needs both parts at
  once: the linking invariant `Links` says that a conversation with a call to the service was
  resumed with a yes on a pending record, for a write that was pending, and with its
  scope (`Linked`), that a write on record has its call (`Backed`), and what stands behind
  each record (`Behind`); it is preserved because a thread past its node and a request under way
  keep what they came with (`ThreadMoveKeeps`, `ReportStepKeeps`).
  `CompositionImplementsOutcome`: refinements compose, so the outcome of a report is the
  same with agent runs in front of it.
  `ApprovalsTellTheTruth` (calm) speaks of each write that was pending: at every step
  of the thread one of them is still to be made, is under way past its effect
  (`UnderWay`), or has done its part (`Complete`), and after the node only the last is
  left (`AnswersFor`); from there it is what the closed approval says (`TruthOf`).
* **MeetingMinutesProofs** — `MailIsApproved` and `QuotesAreApproved` for any number of
  requests and regenerations. Rows and copies carry the number of their content; the
  invariant says that whoever is about to mail content, or to write it back as approved
  or sent, holds a copy of that very content with its review in the audit log
  (`CopiesApproved`). `CalmSentIsTheMail` adds that mail is remembered or about to be.
  `MinutesImplementOutcome`: a review's audit is `Approve`, a connector call `Mail` or, with
  a known key, nothing; every write of the row, by whichever stale copy, is `Publish`.
* **FileStoreProofs** — `UploadsAreDurable`, `BytesHaveTheirRow`, `TenantsAreApart`,
  `ArtifactsAreWhole` and `CalmDeletionIsFinal`. The invariant has the file's history
  (`FileThere`), what the stores must be for a call to be where it is (`StoresAgree`), and
  that an upload is alone, as nobody knows its id before it answers (`OneUpload`);
  `ArtifactInv` follows the one export; `CalmInv` keeps the dictionaries empty from `Pop`
  on.
* **CacheProofs** — `AnswersAreKeptApart`, `AgeIsBounded`, `BadNewsIsNews`,
  for any callers, questions, TTL and timeout. Every answer in the cache or on its way
  fits its key (`EntryKept`, `CallKept`), and an entry's age and what it has left to live
  add up to at most TTL and timeout.
* **RunProofs** — three components an agent run goes through. Of `PlanningBudget`:
  `OvershootIsBounded`, `FailuresAreReplanned` and `DelegationsFollowPlans`. A tool is
  withheld once its budget is reached, so the count before the last answer was below it.
  Over the whole thread that gives one budget and one overshoot for each stretch between
  summaries: the invariant says that the calls ever made exceed those still in sight by
  no more than the summaries account for. `CountAppend` says what an answer adds,
  `ScanFindsFailure` what `RequiresReplan` finds:
  a failure with no plan after it. Of `WorkCollection`: `BestEventIsKept`, `SensitiveStays`
  and `PartialResults` (an item is in the draft, or it is itself left out and the draft warns
  for its own reason), for sources that answer anything of any length. They rest on what
  the two loops compute: `DeduplicateKeepsBest` (exactly the events no other beats, and
  no project and title lost) and `EventsAreKept` (an event of each item that is listed
  and not left out). Of `MemoryCache`: `SettledIsRead`. Its invariant has two parts: commits
  only grow and floors are settled, always (`Committed`); and in calm histories a remember
  is alone (`Alone`) and what is settled is in the entry, in the file a run will load and
  in every list on its way (`Settled`).

Induction over data: the library's induction principles take an operator, which the
provers cannot instantiate. `RunProofs` does without, by the least counterexample: a
non-empty set of numbers has a smallest member (`Smallest`, from `WFMin` and
`NatLessThanWellFounded`); hence induction up to a bound (`Upwards`); hence a loop's
recursive function exists (`Loop`), and what its rounds keep holds at its end.
`Deduplicate` and `Events` are written as recursive functions for this reason, round by
round as the code's `for` loops are, rather than with folds, whose operator argument has
the same difficulty.

What the proofs changed in the models: `WithMetadata` of `FileStore` had a CASE whose
arms overlapped; what the instances always gave the constants (callers, questions and
answers are not `None` or `Failed`, marks are those a source can have, confidences are
numbers) is now a named assumption; `CountToolCalls` counts the calls as a set; the
names of the parts of `PlanningBudget` begin with `Agent` and those of `MemoryCache` with
`Memory`, so that one proof module can extend both together with `WorkCollection`; what
the mail system does with a key it knows is an operator of its own (`Mail`).

How the proofs are kept quick to check: a leaf names the few facts it needs, typing is
proved per variable, and an action with several outcomes is split into them before
anything is expanded. Types are proved in every module, as part of its invariant;
`TypeOK` is checked by TLC as an invariant only where it says more than the types
(`AssistantThread`, where a request's record number stays within the rows there are).

What stays with TLC: liveness under fairness (`EventuallyFinished`, `StaleEnds`,
`KnowledgeEnds`), which the prover does not handle. Every other property of a passing
run, the three refinements of abstract specifications and the refinement of the
composition among them, is a theorem for all values of the constants. No definition the proofs use is a
RECURSIVE operator.

## 6. Not modelled

Prompts, intent parsing and model quality; regular expressions, parsers and the text
of drafts and exports; the in-memory repositories used without a database; schedules,
which nothing executes; how headers become a request context; several API processes
(the deployment starts one; `FileStore` would need a dictionary per process); the
meeting agent's calls inside a run, which have the shape of the report agent's in
`ApprovedSubmission`. A summary that takes a failure out of sight takes the duty to replan with
it: the rule is stated on what the middleware is given. Row-level locking inside a transaction is not visible, as a
transaction is one action. What is left unmodelled is declarations, pure functions and
wiring; their behaviour is fixed by a line, not by an order of events.

## 7. Plan

1. Done: the modules above; theorems for every safety property of the passing runs;
   abstract specifications, with proofs that they are implemented, of the queue, the
   reports, the minutes and the approval flow around the report service.
2. Possible next: the same for the life of a file, and for the caches as a register of
   bounded staleness, which have invariants only.
3. Not planned: what section 6 lists.
