------------------------------ MODULE TaskQueue ------------------------------
(* The durable task queue: rows of table background_tasks, written by the API  *)
(* process (create, cancel) and by worker processes that claim a row under a   *)
(* lease, run the meeting transcription handler and persist the outcome from   *)
(* the copy of the row they took when they claimed it.                         *)
(*                                                                             *)
(* Every database transaction is one action.  Time is relative: a running row  *)
(* keeps the age of its lock, a waiting row the time left to available_at, a   *)
(* worker the time since its claim; Tick moves them all.                       *)
EXTENDS Naturals, FiniteSets

CONSTANTS
    Tasks,        \* the rows an API client may create
    Workers,      \* the worker processes
    None,         \* NULL in column locked_by, and "no task" of an idle worker
    MaxAttempts,  \* max_attempts of a task (the API leaves the default, 3)
    Lease,        \* TASK_WORKER_LEASE_SECONDS, in ticks
    Timeout,      \* TASK_WORKER_TIMEOUT_SECONDS, in ticks
    Slack,        \* ticks past Timeout by which the outcome has been written
    RetryDelay,   \* TASK_WORKER_RETRY_DELAY_SECONDS, in ticks
    Unhandled,    \* the tasks whose kind this deployment has no handler for
    AckLoss,      \* whether a commit may succeed and be reported as failed
    MaxCrashes    \* bound: worker processes that end, over a whole behaviour

ASSUME TaskQueueAssumption ==
    /\ None \notin Workers
    /\ None \notin Tasks
    /\ MaxAttempts \in Nat \ {0}
    /\ Lease \in Nat
    /\ Timeout \in Nat
    /\ Timeout < Lease              \* the check run_worker makes at start-up
    /\ Slack \in Nat
    /\ RetryDelay \in Nat
    /\ Unhandled \subseteq Tasks
    /\ AckLoss \in BOOLEAN
    /\ MaxCrashes \in Nat

VARIABLES
    status,           \* column status of each row; "absent" before it is created
    attempts,         \* column attempts
    cancelRequested,  \* column cancel_requested
    lockedBy,         \* column locked_by
    lockAge,          \* now - locked_at of a running row, at most Lease
    delay,            \* available_at - now of a row, at least 0
    pc,               \* where each worker is in run_once
    task,             \* the task the worker claimed
    tries,            \* attempts in the worker's copy of the row
    age,              \* time since the worker's claim
    asrJobs,          \* transcription jobs the ASR service holds for each task
    crashes           \* worker processes that ended so far

rowVars    == <<status, attempts, cancelRequested, lockedBy, lockAge, delay>>
workerVars == <<pc, task, tries, age>>
vars       == <<rowVars, workerVars, asrJobs, crashes>>

Waiting  == {"queued", "retry_wait"}
Terminal == {"succeeded", "failed", "cancelled"}
Status   == {"absent", "running"} \cup Waiting \cup Terminal

(* Inside asyncio.timeout, that is, inside the handler.                        *)
InHandler == {"check", "submit", "poll", "ask", "sleep"}

(* Past the handler: the last look at the row, and the write of the outcome    *)
(* ("retry", "giveUp" and "cancel" are the three ways fail() is called).       *)
Settling == {"verify", "succeed", "retry", "giveUp", "cancel"}

Busy == InHandler \cup Settling

-----------------------------------------------------------------------------
Init ==
    /\ status = [t \in Tasks |-> "absent"]
    /\ attempts = [t \in Tasks |-> 0]
    /\ cancelRequested = [t \in Tasks |-> FALSE]
    /\ lockedBy = [t \in Tasks |-> None]
    /\ lockAge = [t \in Tasks |-> 0]
    /\ delay = [t \in Tasks |-> 0]
    /\ pc = [w \in Workers |-> "idle"]
    /\ task = [w \in Workers |-> None]
    /\ tries = [w \in Workers |-> 0]
    /\ age = [w \in Workers |-> 0]
    /\ asrJobs = [t \in Tasks |-> 0]
    /\ crashes = 0

-----------------------------------------------------------------------------
(* The API process.                                                            *)

Create(t) ==
    /\ status[t] = "absent"
    /\ status' = [status EXCEPT ![t] = "queued"]
    /\ UNCHANGED <<attempts, cancelRequested, lockedBy, lockAge, delay,
                   workerVars, asrJobs, crashes>>

\* Mutant: any row that is not running is cancelled, finished ones included.
CancelFinished(t) ==
    /\ status[t] # "absent"
    /\ cancelRequested' = [cancelRequested EXCEPT ![t] = TRUE]
    /\ status' = [status EXCEPT ![t] = IF @ # "running" THEN "cancelled" ELSE @]
    /\ UNCHANGED <<attempts, lockedBy, lockAge, delay, workerVars, asrJobs, crashes>>

(* request_task_cancel: the flag is set whatever the status is; only a waiting *)
(* row changes status, a running one is left to its worker.                    *)
Cancel(t) ==
    /\ status[t] # "absent"
    /\ cancelRequested' = [cancelRequested EXCEPT ![t] = TRUE]
    /\ status' = [status EXCEPT ![t] = IF @ \in Waiting THEN "cancelled" ELSE @]
    /\ UNCHANGED <<attempts, lockedBy, lockAge, delay, workerVars, asrJobs, crashes>>

-----------------------------------------------------------------------------
(* claim_next_task.  SKIP LOCKED passes over rows other transactions hold, so  *)
(* any claimable row may be the one that is returned.                          *)

\* Mutant: the lease is measured with the handler's timeout.
ClaimableAtTimeout(t) ==
    \/ status[t] \in Waiting /\ delay[t] = 0
    \/ status[t] = "running" /\ lockAge[t] >= Timeout

\* Mutant: a running row is never taken over.
ClaimableOnlyWaiting(t) == status[t] \in Waiting /\ delay[t] = 0

Claimable(t) ==
    \/ status[t] \in Waiting /\ delay[t] = 0
    \/ status[t] = "running" /\ lockAge[t] >= Lease

\* Mutant: one attempt too many.
OutOfAttemptsLate(t) == status[t] = "running" /\ attempts[t] > MaxAttempts

OutOfAttempts(t) == status[t] = "running" /\ attempts[t] >= MaxAttempts

(* A claim that meets a cancelled or exhausted row closes it and hands out     *)
(* nothing; locked_by keeps the name of the last owner.                        *)
ClaimCloses(w, t) ==
    /\ pc[w] = "idle"
    /\ Claimable(t)
    /\ \/ /\ cancelRequested[t]
          /\ status' = [status EXCEPT ![t] = "cancelled"]
       \/ /\ ~cancelRequested[t]
          /\ OutOfAttempts(t)
          /\ status' = [status EXCEPT ![t] = "failed"]
    /\ UNCHANGED <<attempts, cancelRequested, lockedBy, lockAge, delay,
                   workerVars, asrJobs, crashes>>

Claim(w, t) ==
    /\ pc[w] = "idle"
    /\ Claimable(t)
    /\ ~cancelRequested[t]
    /\ ~OutOfAttempts(t)
    /\ status' = [status EXCEPT ![t] = "running"]
    /\ attempts' = [attempts EXCEPT ![t] = @ + 1]
    /\ lockedBy' = [lockedBy EXCEPT ![t] = w]
    /\ lockAge' = [lockAge EXCEPT ![t] = 0]
    /\ pc' = [pc EXCEPT ![w] = IF t \in Unhandled THEN "giveUp" ELSE "check"]
    /\ task' = [task EXCEPT ![w] = t]
    /\ tries' = [tries EXCEPT ![w] = attempts[t] + 1]
    /\ age' = [age EXCEPT ![w] = 0]
    /\ UNCHANGED <<cancelRequested, delay, asrJobs, crashes>>

-----------------------------------------------------------------------------
(* MeetingTranscriptionHandler.__call__                                        *)

Goto(w, l) ==
    /\ pc' = [pc EXCEPT ![w] = l]
    /\ UNCHANGED <<rowVars, task, tries, age, crashes>>

(* tasks.get before the submission, in every turn of the polling loop, and     *)
(* once more by run_once when the handler has returned.                        *)
ReadCancel(w) ==
    LET Look(from, l) ==
            pc[w] = from /\ Goto(w, IF cancelRequested[task[w]] THEN "cancel" ELSE l)
    IN  /\ Look("check", "submit") \/ Look("poll", "ask") \/ Look("verify", "succeed")
        /\ UNCHANGED asrJobs

(* submit_transcription; its answer may be lost, or lack the job's id, after   *)
(* the job was accepted.                                                       *)
Submit(w) ==
    /\ pc[w] = "submit"
    /\ asrJobs' = [asrJobs EXCEPT ![task[w]] = @ + 1]
    /\ \E l \in {"poll", "retry", "giveUp"} : Goto(w, l)

(* get_transcription_status: completed, failed, or not yet.                    *)
Ask(w) ==
    /\ pc[w] = "ask"
    /\ \E l \in {"verify", "retry", "sleep"} : Goto(w, l)
    /\ UNCHANGED asrJobs

(* asyncio.timeout fires at whichever call the handler is waiting in.          *)
TimedOut(w) ==
    /\ pc[w] \in InHandler
    /\ age[w] = Timeout
    /\ Goto(w, "retry")
    /\ UNCHANGED asrJobs

(* A call raises: the handler's (KeyError, TypeError and ValueError use up the *)
(* attempts, anything else is retried) or the re-read's, a database error.     *)
Raises(w) ==
    /\ \/ pc[w] \in InHandler \ {"sleep"} /\ \E l \in {"retry", "giveUp"} : Goto(w, l)
       \/ pc[w] = "verify" /\ Goto(w, "retry")
    /\ UNCHANGED asrJobs

-----------------------------------------------------------------------------
(* save_claimed_task: the outcome is written from the worker's copy, without a *)
(* look at locked_by or at the status the row has by now.  attempts is not     *)
(* among the columns it writes.                                                *)

\* Mutant: the flag is cleared with the lock.
SaveClearsFlag(w, outcome, cancelCopy, wait) ==
    LET t == task[w] IN
    /\ status' = [status EXCEPT ![t] = outcome]
    /\ cancelRequested' = [cancelRequested EXCEPT ![t] = FALSE]
    /\ lockedBy' = [lockedBy EXCEPT ![t] = None]
    /\ lockAge' = [lockAge EXCEPT ![t] = 0]
    /\ delay' = [delay EXCEPT ![t] = wait]
    /\ UNCHANGED <<attempts, asrJobs, crashes>>

Save(w, outcome, cancelCopy, wait) ==
    LET t == task[w] IN
    /\ status' = [status EXCEPT ![t] = outcome]
    /\ cancelRequested' = [cancelRequested EXCEPT ![t] = cancelCopy]
    /\ lockedBy' = [lockedBy EXCEPT ![t] = None]
    /\ lockAge' = [lockAge EXCEPT ![t] = 0]
    /\ delay' = [delay EXCEPT ![t] = wait]
    /\ UNCHANGED <<attempts, asrJobs, crashes>>

Leave(w, l) ==
    /\ pc' = [pc EXCEPT ![w] = l]
    /\ task' = [task EXCEPT ![w] = None]
    /\ tries' = [tries EXCEPT ![w] = 0]
    /\ age' = [age EXCEPT ![w] = 0]

Succeed(w) ==
    /\ pc[w] = "succeed"
    /\ Save(w, "succeeded", FALSE, 0)
    /\ Leave(w, "idle")

(* The write raises: before the commit, or after it, when only the             *)
(* acknowledgement is lost.  run_once takes both for a failed execution.       *)
SucceedRaises(w) ==
    /\ pc[w] = "succeed"
    /\ \/ Goto(w, "retry") /\ UNCHANGED asrJobs
       \/ /\ AckLoss
          /\ Save(w, "succeeded", FALSE, 0)
          /\ pc' = [pc EXCEPT ![w] = "retry"]
          /\ UNCHANGED <<task, tries, age>>

\* Mutant: the last attempt is put back for another one.
FailOneMore(w) ==
    /\ \/ pc[w] = "cancel" /\ Save(w, "cancelled", TRUE, 0)
       \/ pc[w] = "giveUp" /\ Save(w, "failed", FALSE, 0)
       \/ pc[w] = "retry" /\ tries[w] <= MaxAttempts
            /\ Save(w, "retry_wait", FALSE, RetryDelay)
       \/ pc[w] = "retry" /\ tries[w] > MaxAttempts
            /\ Save(w, "failed", FALSE, 0)
    /\ Leave(w, "idle")

(* fail(): a copy with cancel_requested ends cancelled, one with attempts left *)
(* waits for a retry, any other ends failed.                                   *)
Fail(w) ==
    /\ \/ pc[w] = "cancel" /\ Save(w, "cancelled", TRUE, 0)
       \/ pc[w] = "giveUp" /\ Save(w, "failed", FALSE, 0)
       \/ pc[w] = "retry" /\ tries[w] < MaxAttempts
            /\ Save(w, "retry_wait", FALSE, RetryDelay)
       \/ pc[w] = "retry" /\ tries[w] >= MaxAttempts
            /\ Save(w, "failed", FALSE, 0)
    /\ Leave(w, "idle")

-----------------------------------------------------------------------------
(* The process ends at any point: killed, stopped, or by the exception of a    *)
(* claim or of a fail(), which nothing catches.  Its row is left as it is.     *)
Crash(w) ==
    /\ pc[w] # "down"
    /\ crashes < MaxCrashes
    /\ crashes' = crashes + 1
    /\ Leave(w, "down")
    /\ UNCHANGED <<rowVars, asrJobs>>

Restart(w) ==
    /\ pc[w] = "down"
    /\ Goto(w, "idle")
    /\ UNCHANGED asrJobs

(* One tick of the clock; it also ends the sleeps of the polling loops.  No    *)
(* handler outlives its timeout and no worker is still settling Slack ticks    *)
(* after it.                                                                   *)
Tick ==
    /\ \A w \in Workers : /\ pc[w] \in InHandler => age[w] < Timeout
                          /\ pc[w] \in Settling => age[w] < Timeout + Slack
    /\ age' = [w \in Workers |-> IF pc[w] \in Busy THEN age[w] + 1 ELSE age[w]]
    /\ pc' = [w \in Workers |-> IF pc[w] = "sleep" THEN "poll" ELSE pc[w]]
    /\ lockAge' = [t \in Tasks |-> IF status[t] = "running" /\ lockAge[t] < Lease
                                   THEN lockAge[t] + 1 ELSE lockAge[t]]
    /\ delay' = [t \in Tasks |-> IF delay[t] > 0 THEN delay[t] - 1 ELSE 0]
    /\ UNCHANGED <<status, attempts, cancelRequested, lockedBy, task, tries,
                   asrJobs, crashes>>

-----------------------------------------------------------------------------
(* What a live worker does of its own accord.                                  *)
WorkerStep(w) ==
    \/ \E t \in Tasks : Claim(w, t) \/ ClaimCloses(w, t)
    \/ ReadCancel(w)
    \/ Submit(w)
    \/ Ask(w)
    \/ TimedOut(w)
    \/ Succeed(w)
    \/ Fail(w)

Next ==
    \/ \E t \in Tasks : Create(t) \/ Cancel(t)
    \/ \E w \in Workers : \/ WorkerStep(w)
                          \/ Raises(w)
                          \/ SucceedRaises(w)
                          \/ Crash(w)
                          \/ Restart(w)
    \/ Tick

Spec == Init /\ [][Next]_vars

(* Live processes keep executing and timers fire; nothing makes a client call, *)
(* a call fail, or a process end or come back.                                 *)
Fairness == WF_vars(Tick) /\ \A w \in Workers : WF_vars(WorkerStep(w))

FairSpec == Spec /\ Fairness

-----------------------------------------------------------------------------
(* Types: every column and every worker register keeps its domain; a busy      *)
(* worker holds a task, a lock is never older than the lease it is compared    *)
(* with, a row never waits longer than the retry delay.                        *)
TypeOK ==
    /\ status \in [Tasks -> Status]
    /\ attempts \in [Tasks -> Nat]
    /\ cancelRequested \in [Tasks -> BOOLEAN]
    /\ lockedBy \in [Tasks -> Workers \cup {None}]
    /\ lockAge \in [Tasks -> 0..Lease]
    /\ delay \in [Tasks -> 0..RetryDelay]
    /\ pc \in [Workers -> Busy \cup {"idle", "down"}]
    /\ task \in [Workers -> Tasks \cup {None}]
    /\ \A w \in Workers : pc[w] \in Busy => task[w] \in Tasks
    /\ tries \in [Workers -> Nat]
    /\ age \in [Workers -> Nat]
    /\ asrJobs \in [Tasks -> Nat]
    /\ crashes \in 0..MaxCrashes

(* Safe preemption: no two workers execute the same task at the same time.     *)
(* Nothing but the lease keeps a second claim away from a running row, so this *)
(* holds only if an outcome is written before the lease ends.                  *)
OneWorkerPerTask ==
    \A v, w \in Workers :
        v # w /\ pc[v] \in Busy /\ pc[w] \in Busy => task[v] # task[w]

(* A worker at work still owns what it works on: the row is running, locked by *)
(* it since its claim, at the attempt its copy says.  Or its success is        *)
(* recorded and it believes it is not.                                         *)
Owns(w) ==
    /\ status[task[w]] = "running"
    /\ lockedBy[task[w]] = w
    /\ lockAge[task[w]] = age[w]

SuccessUnknown(w) == pc[w] = "retry" /\ status[task[w]] = "succeeded"

WorkerOwnsItsRow ==
    \A w \in Workers :
        pc[w] \in Busy => /\ tries[w] = attempts[task[w]]
                          /\ Owns(w) \/ (AckLoss /\ SuccessUnknown(w))

(* Bounded retries: takeovers and retries together never start a task more     *)
(* than max_attempts times, and the ASR service never gets more jobs for it.   *)
AttemptsBounded ==
    \A t \in Tasks : attempts[t] <= MaxAttempts /\ asrJobs[t] <= attempts[t]

(* A task only ends cancelled when its client asked for that, and the row      *)
(* still says so: claim, worker and API agree on who cancelled it.  The other  *)
(* direction is not claimed: a cancellation that a worker's copy overwrites is *)
(* lost, and this does not show it.                                            *)
CancelledMeansRequested ==
    \A t \in Tasks : status[t] = "cancelled" => cancelRequested[t]

(* What a client has been told is final stays: no late worker, no cancel and   *)
(* no takeover changes a terminal status.  The one exception is the worker     *)
(* whose own commit of "succeeded" was reported to it as failed.               *)
TerminalIsFinal ==
    [][\A t \in Tasks :
          status[t] \in Terminal /\ status'[t] # status[t] =>
             /\ AckLoss
             /\ status[t] = "succeeded"
             /\ \E w \in Workers : task[w] = t /\ pc[w] = "retry"]_vars

(* Cooperative cancellation as promised: a running task whose cancellation was *)
(* accepted is not put back for another attempt.                               *)
NoRetryAfterCancel ==
    [][\A t \in Tasks :
          status[t] = "running" /\ cancelRequested[t] => status'[t] # "retry_wait"]_vars

(* Every task a client created comes to an end that lasts, whatever handlers   *)
(* raise and processes crash, as long as one worker lives.                     *)
EventuallyFinished ==
    \A t \in Tasks : status[t] # "absent" ~> [](status[t] \in Terminal)

-----------------------------------------------------------------------------
(* The queue implements TaskLifecycle: both waiting statuses are its "waiting".*)
LifecycleState ==
    [t \in Tasks |-> IF status[t] \in Waiting THEN "waiting" ELSE status[t]]

Lifecycle == INSTANCE TaskLifecycle WITH state <- LifecycleState, MayReopen <- AckLoss

(* Every step of the API, of a worker and of the clock is one step of a task's *)
(* life or none of it: no attempt starts beyond the limit or after the end,    *)
(* and a task is only put back when it has an attempt left.                    *)
ImplementsLifecycle == Lifecycle!Spec

=============================================================================
