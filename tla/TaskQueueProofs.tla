--------------------------- MODULE TaskQueueProofs ---------------------------
(* Theorems about TaskQueue, for any set of tasks and workers and any timing.  *)
EXTENDS TaskQueue, TLAPS

(* A worker that has an outcome writes it before its lease can end.            *)
NoOverrun == Timeout + Slack < Lease

-----------------------------------------------------------------------------
(* Types hold whatever the timing.                                             *)

LEMMA InitTypeOK == Init => TypeOK
  BY TaskQueueAssumption DEF Init, TypeOK, Status, Waiting, Terminal, Busy, InHandler, Settling

LEMMA NextTypeOK == TypeOK /\ [Next]_vars => TypeOK'
  <1> SUFFICES ASSUME TypeOK, [Next]_vars PROVE TypeOK'
    OBVIOUS
  <1> USE TaskQueueAssumption DEF TypeOK, Status, Waiting, Terminal, Busy, InHandler, Settling
  <1>1. ASSUME NEW t \in Tasks, Create(t) PROVE TypeOK'
    BY <1>1 DEF Create, workerVars
  <1>2. ASSUME NEW t \in Tasks, Cancel(t) PROVE TypeOK'
    BY <1>2 DEF Cancel, workerVars
  <1>3. ASSUME NEW w \in Workers, NEW t \in Tasks, Claim(w, t) PROVE TypeOK'
    BY <1>3 DEF Claim
  <1>4. ASSUME NEW w \in Workers, NEW t \in Tasks, ClaimCloses(w, t) PROVE TypeOK'
    BY <1>4 DEF ClaimCloses, workerVars
  <1>5. ASSUME NEW w \in Workers, ReadCancel(w) PROVE TypeOK'
    BY <1>5 DEF ReadCancel, Goto, rowVars
  <1>6. ASSUME NEW w \in Workers, Submit(w) PROVE TypeOK'
    BY <1>6 DEF Submit, Goto, rowVars
  <1>7. ASSUME NEW w \in Workers, Ask(w) PROVE TypeOK'
    BY <1>7 DEF Ask, Goto, rowVars
  <1>8. ASSUME NEW w \in Workers, TimedOut(w) PROVE TypeOK'
    BY <1>8 DEF TimedOut, Goto, rowVars
  <1>9. ASSUME NEW w \in Workers, Raises(w) PROVE TypeOK'
    BY <1>9 DEF Raises, Goto, rowVars
  <1>10. ASSUME NEW w \in Workers, Succeed(w) PROVE TypeOK'
    BY <1>10 DEF Succeed, Save, Leave
  <1>11. ASSUME NEW w \in Workers, SucceedRaises(w) PROVE TypeOK'
    <2>1. CASE Goto(w, "retry") /\ UNCHANGED asrJobs
      BY <1>11, <2>1 DEF SucceedRaises, Goto, rowVars
    <2>2. CASE Save(w, "succeeded", FALSE, 0) /\ pc' = [pc EXCEPT ![w] = "retry"]
               /\ UNCHANGED <<task, tries, age>>
      BY <1>11, <2>2 DEF SucceedRaises, Save
    <2> QED
      BY <1>11, <2>1, <2>2 DEF SucceedRaises
  <1>12. ASSUME NEW w \in Workers, Fail(w) PROVE TypeOK'
    <2>1. CASE Save(w, "cancelled", TRUE, 0)
      BY <1>12, <2>1 DEF Fail, Save, Leave
    <2>2. CASE Save(w, "failed", FALSE, 0)
      BY <1>12, <2>2 DEF Fail, Save, Leave
    <2>3. CASE Save(w, "retry_wait", FALSE, RetryDelay)
      BY <1>12, <2>3 DEF Fail, Save, Leave
    <2> QED
      BY <1>12, <2>1, <2>2, <2>3 DEF Fail
  <1>13. ASSUME NEW w \in Workers, Crash(w) PROVE TypeOK'
    BY <1>13 DEF Crash, Leave, rowVars
  <1>14. ASSUME NEW w \in Workers, Restart(w) PROVE TypeOK'
    BY <1>14 DEF Restart, Goto, rowVars
  <1>15. ASSUME Tick PROVE TypeOK'
    BY <1>15 DEF Tick
  <1>16. CASE UNCHANGED vars
    BY <1>16 DEF vars, rowVars, workerVars
  <1> QED
    BY <1>1, <1>2, <1>3, <1>4, <1>5, <1>6, <1>7, <1>8, <1>9, <1>10, <1>11, <1>12,
       <1>13, <1>14, <1>15, <1>16 DEF Next, WorkerStep

(* Every column of a row and every register of a worker keeps its domain.      *)
THEOREM TypeCorrect == Spec => []TypeOK
  BY InitTypeOK, NextTypeOK, PTL DEF Spec

-----------------------------------------------------------------------------
(* The inductive invariant.  OneWorkerPerTask is not inductive: that a claim   *)
(* finds no other worker on its row takes WorkerOwnsItsRow, which says the     *)
(* lock of a row in work is as old as the worker's claim, and AgeBounded,      *)
(* which with NoOverrun says that claim is younger than the lease.             *)

AgeBounded == \A w \in Workers : pc[w] \in Busy => age[w] <= Timeout + Slack

AttemptLeft ==
    \A t \in Tasks : status[t] \in Waiting \cup {"absent"} => attempts[t] < MaxAttempts

(* The attempt under way has no transcription job before its Submit.           *)
NotYetSubmitted ==
    \A w \in Workers :
        pc[w] \in {"check", "submit"} => asrJobs[task[w]] < attempts[task[w]]

IInv ==
    /\ TypeOK
    /\ WorkerOwnsItsRow
    /\ OneWorkerPerTask
    /\ AgeBounded
    /\ AttemptsBounded
    /\ AttemptLeft
    /\ NotYetSubmitted

LEMMA InitIInv == Init => IInv
  BY InitTypeOK, TaskQueueAssumption
     DEF Init, IInv, WorkerOwnsItsRow, OneWorkerPerTask, AgeBounded, AttemptsBounded,
         AttemptLeft, NotYetSubmitted, Waiting, Busy, InHandler, Settling

LEMMA OwnerFacts ==
  ASSUME IInv, NEW w \in Workers, pc[w] \in Busy
  PROVE  /\ tries[w] = attempts[task[w]]
         /\ Owns(w) \/ (AckLoss /\ SuccessUnknown(w))
  BY Zenon DEF IInv, WorkerOwnsItsRow

LEMMA ClaimFindsNoWorker ==
  ASSUME NoOverrun, IInv, NEW t \in Tasks, Claimable(t), NEW w \in Workers, pc[w] \in Busy
  PROVE  task[w] # t
  <1> SUFFICES ASSUME task[w] = t PROVE FALSE
    OBVIOUS
  <1>1. status[t] = "running" \/ status[t] = "succeeded"
    BY DEF IInv, WorkerOwnsItsRow, Owns, SuccessUnknown
  <1>2. status[t] = "running" /\ lockAge[t] >= Lease
    BY <1>1 DEF Claimable, Waiting
  <1>3. lockAge[t] = age[w]
    BY <1>2 DEF IInv, WorkerOwnsItsRow, Owns, SuccessUnknown
  <1>4. age[w] <= Timeout + Slack
    BY DEF IInv, AgeBounded
  <1> QED
    BY <1>2, <1>3, <1>4, TaskQueueAssumption DEF NoOverrun, IInv, TypeOK

LEMMA NextIInv ==
  ASSUME NoOverrun, IInv, [Next]_vars
  PROVE  IInv'
  <1> USE TaskQueueAssumption DEF IInv, TypeOK, Status, Waiting, Terminal,
             Busy, InHandler, Settling
  <1>a. TypeOK'
    BY NextTypeOK
  <1>1. ASSUME NEW t \in Tasks, Create(t) PROVE IInv'
    BY <1>a, <1>1 DEF Create, workerVars, WorkerOwnsItsRow, Owns, SuccessUnknown,
       OneWorkerPerTask, AgeBounded, AttemptsBounded, AttemptLeft, NotYetSubmitted
  <1>2. ASSUME NEW t \in Tasks, Cancel(t) PROVE IInv'
    BY <1>a, <1>2 DEF Cancel, workerVars, WorkerOwnsItsRow, Owns, SuccessUnknown,
       OneWorkerPerTask, AgeBounded, AttemptsBounded, AttemptLeft, NotYetSubmitted
  <1>3. ASSUME NEW w \in Workers, NEW t \in Tasks, Claim(w, t) PROVE IInv'
    <2>c. \A v \in Workers : pc[v] \in Busy => task[v] # t
      BY <1>3, ClaimFindsNoWorker DEF Claim
    <2>1. WorkerOwnsItsRow'
      <3> SUFFICES ASSUME NEW v \in Workers, pc'[v] \in Busy
                   PROVE  /\ tries'[v] = attempts'[task'[v]]
                          /\ Owns(v)' \/ (AckLoss /\ SuccessUnknown(v)')
        BY DEF WorkerOwnsItsRow
      <3>1. CASE v = w
        <4>1. task'[v] = t /\ tries'[v] = attempts'[t]
          BY <1>3, <3>1 DEF Claim
        <4>2. Owns(v)'
          BY <1>3, <3>1, <4>1 DEF Claim, Owns
        <4> QED
          BY <4>1, <4>2, Zenon
      <3>2. CASE v # w
        <4>1. /\ pc[v] \in Busy /\ task'[v] = task[v] /\ task[v] # t /\ task[v] \in Tasks
              /\ tries'[v] = tries[v] /\ age'[v] = age[v] /\ pc'[v] = pc[v]
          BY <1>3, <2>c, <3>2 DEF Claim
        <4>2. \A u \in Tasks : u # t => /\ attempts'[u] = attempts[u]
                                        /\ status'[u] = status[u]
                                        /\ lockedBy'[u] = lockedBy[u]
                                        /\ lockAge'[u] = lockAge[u]
          BY <1>3 DEF Claim
        <4>3. tries[v] = attempts[task[v]] /\ (Owns(v) \/ (AckLoss /\ SuccessUnknown(v)))
          BY <4>1, OwnerFacts
        <4>4. tries'[v] = attempts'[task'[v]]
          BY <4>1, <4>2, <4>3
        <4>5. Owns(v) => Owns(v)'
          BY <4>1, <4>2 DEF Owns
        <4>6. SuccessUnknown(v) => SuccessUnknown(v)'
          BY <4>1, <4>2 DEF SuccessUnknown
        <4> QED
          BY <4>3, <4>4, <4>5, <4>6, Zenon
      <3> QED
        BY <3>1, <3>2
    <2>2. OneWorkerPerTask'
      BY <1>3, <2>c DEF Claim, OneWorkerPerTask
    <2>3. AgeBounded'
      BY <1>3 DEF Claim, AgeBounded
    <2>4. AttemptsBounded'
      BY <1>3 DEF Claim, AttemptsBounded, OutOfAttempts, Claimable, AttemptLeft
    <2>5. AttemptLeft'
      BY <1>3 DEF Claim, AttemptLeft
    <2>6. NotYetSubmitted'
      BY <1>3 DEF Claim, NotYetSubmitted, AttemptsBounded
    <2> QED
      BY <1>a, <2>1, <2>2, <2>3, <2>4, <2>5, <2>6
  <1>4. ASSUME NEW w \in Workers, NEW t \in Tasks, ClaimCloses(w, t) PROVE IInv'
    <2>c. \A v \in Workers : pc[v] \in Busy => task[v] # t
      BY <1>4, ClaimFindsNoWorker DEF ClaimCloses
    <2>1. WorkerOwnsItsRow'
      BY <1>4, <2>c DEF ClaimCloses, workerVars, WorkerOwnsItsRow, Owns, SuccessUnknown
    <2>2. OneWorkerPerTask'
      BY <1>4 DEF ClaimCloses, workerVars, OneWorkerPerTask
    <2>3. AgeBounded'
      BY <1>4 DEF ClaimCloses, workerVars, AgeBounded
    <2>4. AttemptsBounded'
      BY <1>4 DEF ClaimCloses, workerVars, AttemptsBounded
    <2>5. AttemptLeft'
      BY <1>4 DEF ClaimCloses, workerVars, AttemptLeft
    <2>6. NotYetSubmitted'
      BY <1>4 DEF ClaimCloses, workerVars, NotYetSubmitted
    <2> QED
      BY <1>a, <2>1, <2>2, <2>3, <2>4, <2>5, <2>6
  <1>5. ASSUME NEW w \in Workers, ReadCancel(w) PROVE IInv'
    BY <1>a, <1>5 DEF ReadCancel, Goto, rowVars, WorkerOwnsItsRow, Owns, SuccessUnknown,
       OneWorkerPerTask, AgeBounded, AttemptsBounded, AttemptLeft, NotYetSubmitted
  <1>6. ASSUME NEW w \in Workers, Submit(w) PROVE IInv'
    <2>1. WorkerOwnsItsRow'
      BY <1>6 DEF Submit, Goto, rowVars, WorkerOwnsItsRow, Owns, SuccessUnknown
    <2>2. OneWorkerPerTask'
      BY <1>6 DEF Submit, Goto, rowVars, OneWorkerPerTask
    <2>3. AgeBounded'
      BY <1>6 DEF Submit, Goto, rowVars, AgeBounded
    <2>4. AttemptsBounded'
      BY <1>6 DEF Submit, Goto, rowVars, AttemptsBounded, NotYetSubmitted
    <2>5. AttemptLeft'
      BY <1>6 DEF Submit, Goto, rowVars, AttemptLeft
    <2>6. NotYetSubmitted'
      BY <1>6 DEF Submit, Goto, rowVars, NotYetSubmitted, OneWorkerPerTask
    <2> QED
      BY <1>a, <2>1, <2>2, <2>3, <2>4, <2>5, <2>6
  <1>7. ASSUME NEW w \in Workers, Ask(w) PROVE IInv'
    BY <1>a, <1>7 DEF Ask, Goto, rowVars, WorkerOwnsItsRow, Owns, SuccessUnknown,
       OneWorkerPerTask, AgeBounded, AttemptsBounded, AttemptLeft, NotYetSubmitted
  <1>8. ASSUME NEW w \in Workers, TimedOut(w) PROVE IInv'
    BY <1>a, <1>8 DEF TimedOut, Goto, rowVars, WorkerOwnsItsRow, Owns, SuccessUnknown,
       OneWorkerPerTask, AgeBounded, AttemptsBounded, AttemptLeft, NotYetSubmitted
  <1>9. ASSUME NEW w \in Workers, Raises(w) PROVE IInv'
    BY <1>a, <1>9 DEF Raises, Goto, rowVars, WorkerOwnsItsRow, Owns, SuccessUnknown,
       OneWorkerPerTask, AgeBounded, AttemptsBounded, AttemptLeft, NotYetSubmitted
  <1>10. ASSUME NEW w \in Workers, Succeed(w) PROVE IInv'
    <2>1. WorkerOwnsItsRow'
      BY <1>10 DEF Succeed, Save, Leave, WorkerOwnsItsRow, Owns, SuccessUnknown, OneWorkerPerTask
    <2>2. OneWorkerPerTask'
      BY <1>10 DEF Succeed, Save, Leave, OneWorkerPerTask
    <2>3. AgeBounded'
      BY <1>10 DEF Succeed, Save, Leave, AgeBounded
    <2>4. AttemptsBounded'
      BY <1>10 DEF Succeed, Save, Leave, AttemptsBounded
    <2>5. AttemptLeft'
      BY <1>10 DEF Succeed, Save, Leave, AttemptLeft
    <2>6. NotYetSubmitted'
      BY <1>10 DEF Succeed, Save, Leave, NotYetSubmitted
    <2> QED
      BY <1>a, <2>1, <2>2, <2>3, <2>4, <2>5, <2>6
  <1>11. ASSUME NEW w \in Workers, SucceedRaises(w) PROVE IInv'
    <2>1. WorkerOwnsItsRow'
      BY <1>11 DEF SucceedRaises, Save, Goto, rowVars, WorkerOwnsItsRow, Owns, SuccessUnknown, OneWorkerPerTask
    <2>2. OneWorkerPerTask'
      BY <1>11 DEF SucceedRaises, Save, Goto, rowVars, OneWorkerPerTask
    <2>3. AgeBounded'
      BY <1>11 DEF SucceedRaises, Save, Goto, rowVars, AgeBounded
    <2>4. AttemptsBounded'
      BY <1>11 DEF SucceedRaises, Save, Goto, rowVars, AttemptsBounded
    <2>5. AttemptLeft'
      BY <1>11 DEF SucceedRaises, Save, Goto, rowVars, AttemptLeft
    <2>6. NotYetSubmitted'
      BY <1>11 DEF SucceedRaises, Save, Goto, rowVars, NotYetSubmitted
    <2> QED
      BY <1>a, <2>1, <2>2, <2>3, <2>4, <2>5, <2>6
  <1>12. ASSUME NEW w \in Workers, Fail(w) PROVE IInv'
    <2>1. WorkerOwnsItsRow'
      BY <1>12 DEF Fail, Save, Leave, WorkerOwnsItsRow, Owns, SuccessUnknown, OneWorkerPerTask
    <2>2. OneWorkerPerTask'
      BY <1>12 DEF Fail, Save, Leave, OneWorkerPerTask
    <2>3. AgeBounded'
      BY <1>12 DEF Fail, Save, Leave, AgeBounded
    <2>4. AttemptsBounded'
      BY <1>12 DEF Fail, Save, Leave, AttemptsBounded
    <2>5. AttemptLeft'
      <3>1. tries[w] = attempts[task[w]]
        <4>1. pc[w] \in Busy
          BY <1>12 DEF Fail
        <4> QED
          BY <4>1, OwnerFacts
      <3>2. attempts' = attempts
        BY <1>12 DEF Fail, Save
      <3>3. \A t \in Tasks : t # task[w] => status'[t] = status[t]
        BY <1>12 DEF Fail, Save
      <3>4. status'[task[w]] \in Waiting \cup {"absent"} => tries[w] < MaxAttempts
        BY <1>12 DEF Fail, Save
      <3> QED
        BY <3>1, <3>2, <3>3, <3>4 DEF AttemptLeft
    <2>6. NotYetSubmitted'
      BY <1>12 DEF Fail, Save, Leave, NotYetSubmitted
    <2> QED
      BY <1>a, <2>1, <2>2, <2>3, <2>4, <2>5, <2>6
  <1>13. ASSUME NEW w \in Workers, Crash(w) PROVE IInv'
    BY <1>a, <1>13 DEF Crash, Leave, rowVars, WorkerOwnsItsRow, Owns, SuccessUnknown,
       OneWorkerPerTask, AgeBounded, AttemptsBounded, AttemptLeft, NotYetSubmitted
  <1>14. ASSUME NEW w \in Workers, Restart(w) PROVE IInv'
    BY <1>a, <1>14 DEF Restart, Goto, rowVars, WorkerOwnsItsRow, Owns, SuccessUnknown,
       OneWorkerPerTask, AgeBounded, AttemptsBounded, AttemptLeft, NotYetSubmitted
  <1>15. ASSUME Tick PROVE IInv'
    <2>1. WorkerOwnsItsRow'
      <3> SUFFICES ASSUME NEW v \in Workers, pc'[v] \in Busy
                   PROVE  /\ tries'[v] = attempts'[task'[v]]
                          /\ Owns(v)' \/ (AckLoss /\ SuccessUnknown(v)')
        BY DEF WorkerOwnsItsRow
      <3>1. /\ pc[v] \in Busy /\ age'[v] = age[v] + 1 /\ age[v] < Timeout + Slack
            /\ pc[v] = "retry" => pc'[v] = "retry"
        BY <1>15 DEF Tick
      <3>2. UNCHANGED <<status, attempts, lockedBy, task, tries>>
        BY <1>15 DEF Tick
      <3>3. /\ tries[v] = attempts[task[v]]
            /\ Owns(v) \/ (AckLoss /\ SuccessUnknown(v))
        BY <3>1, OwnerFacts
      <3>4. Owns(v) => Owns(v)'
        <4>1. Owns(v) => lockAge'[task[v]] = lockAge[task[v]] + 1
          BY <1>15, <3>1 DEF Tick, Owns, NoOverrun
        <4> QED
          BY <3>1, <3>2, <4>1 DEF Owns
      <3>5. SuccessUnknown(v) => SuccessUnknown(v)'
        BY <3>1, <3>2 DEF SuccessUnknown
      <3>6. tries'[v] = attempts'[task'[v]]
        BY <3>2, <3>3
      <3> QED
        BY <3>3, <3>4, <3>5, <3>6, Zenon
    <2>2. OneWorkerPerTask'
      BY <1>15 DEF Tick, OneWorkerPerTask
    <2>3. AgeBounded'
      BY <1>15 DEF Tick, AgeBounded
    <2>4. AttemptsBounded'
      BY <1>15 DEF Tick, AttemptsBounded
    <2>5. AttemptLeft'
      BY <1>15 DEF Tick, AttemptLeft
    <2>6. NotYetSubmitted'
      BY <1>15 DEF Tick, NotYetSubmitted
    <2> QED
      BY <1>a, <2>1, <2>2, <2>3, <2>4, <2>5, <2>6
  <1>16. CASE UNCHANGED vars
    BY <1>a, <1>16 DEF vars, rowVars, workerVars, WorkerOwnsItsRow, Owns, SuccessUnknown,
       OneWorkerPerTask, AgeBounded, AttemptsBounded, AttemptLeft, NotYetSubmitted
  <1> QED
    BY <1>1, <1>2, <1>3, <1>4, <1>5, <1>6, <1>7, <1>8, <1>9, <1>10, <1>11, <1>12, <1>13, <1>14, <1>15, <1>16 DEF Next, WorkerStep

LEMMA InvariantHolds == ASSUME NoOverrun PROVE Spec => []IInv
  <1>1. IInv /\ [Next]_vars => IInv'
    BY NextIInv
  <1> QED
    BY InitIInv, <1>1, PTL DEF Spec

-----------------------------------------------------------------------------
(* With outcomes written before the lease ends, no two workers ever execute    *)
(* the same task.                                                              *)
THEOREM SafePreemption == ASSUME NoOverrun PROVE Spec => []OneWorkerPerTask
  <1>1. IInv => OneWorkerPerTask
    BY DEF IInv
  <1> QED
    BY <1>1, InvariantHolds, PTL

(* ... a worker at work owns its row and knows its attempt.                    *)
THEOREM OwnershipKept == ASSUME NoOverrun PROVE Spec => []WorkerOwnsItsRow
  <1>1. IInv => WorkerOwnsItsRow
    BY DEF IInv
  <1> QED
    BY <1>1, InvariantHolds, PTL

(* ... no task is started, or sent to the ASR service, too often.              *)
THEOREM RetriesBounded == ASSUME NoOverrun PROVE Spec => []AttemptsBounded
  <1>1. IInv => AttemptsBounded
    BY DEF IInv
  <1> QED
    BY <1>1, InvariantHolds, PTL

-----------------------------------------------------------------------------
(* A terminal status changes only for the worker that could not know it had    *)
(* succeeded.                                                                  *)

FinalStep ==
    \A t \in Tasks :
       status[t] \in Terminal /\ status'[t] # status[t] =>
          /\ AckLoss
          /\ status[t] = "succeeded"
          /\ \E w \in Workers : task[w] = t /\ pc[w] = "retry"

LEMMA SaveIsTheOwners ==
  ASSUME IInv, NEW w \in Workers, pc[w] \in Busy,
         NEW t \in Tasks, status[t] \in Terminal, t = task[w]
  PROVE  AckLoss /\ SuccessUnknown(w)
  <1>1. ~Owns(w)
    BY DEF Owns, Terminal
  <1> QED
    BY <1>1, OwnerFacts, Zenon

LEMMA NextFinal ==
  ASSUME NoOverrun, IInv, [Next]_vars
  PROVE  FinalStep
  <1> SUFFICES ASSUME NEW t \in Tasks, status[t] \in Terminal, status'[t] # status[t]
               PROVE  /\ AckLoss
                      /\ status[t] = "succeeded"
                      /\ \E w \in Workers : task[w] = t /\ pc[w] = "retry"
    BY DEF FinalStep
  <1> USE DEF IInv, TypeOK
  <1>1. ASSUME NEW u \in Tasks, Create(u) \/ Cancel(u) PROVE FALSE
    BY <1>1 DEF Create, Cancel, Terminal, Waiting
  <1>2. ASSUME NEW w \in Workers, NEW u \in Tasks, Claim(w, u) \/ ClaimCloses(w, u)
        PROVE  FALSE
    BY <1>2 DEF Claim, ClaimCloses, Claimable, Terminal, Waiting
  <1>3. ASSUME NEW w \in Workers, NEW l, Goto(w, l) PROVE FALSE
    BY <1>3 DEF Goto, rowVars
  <1>4. ASSUME NEW w \in Workers, ReadCancel(w) \/ Submit(w) \/ Ask(w) \/ TimedOut(w)
                                  \/ Raises(w) \/ Restart(w) \/ Crash(w)
        PROVE  FALSE
    BY <1>4, <1>3 DEF ReadCancel, Submit, Ask, TimedOut, Raises, Restart, Crash, rowVars
  <1>5. ASSUME NEW w \in Workers, Succeed(w) \/ SucceedRaises(w) \/ Fail(w)
        PROVE  task[w] = t /\ pc[w] \in Busy
    <2>1. pc[w] \in Busy
      BY <1>5 DEF Succeed, SucceedRaises, Fail, Busy, Settling
    <2>2. \A u \in Tasks : u # task[w] => status'[u] = status[u]
      BY <1>5 DEF Succeed, SucceedRaises, Fail, Save, Goto, rowVars
    <2> QED
      BY <2>1, <2>2
  <1>6. ASSUME Tick \/ UNCHANGED vars PROVE FALSE
    BY <1>6 DEF Tick, vars, rowVars
  <1>7. PICK w \in Workers : Succeed(w) \/ SucceedRaises(w) \/ Fail(w)
    BY <1>1, <1>2, <1>4, <1>6 DEF Next, WorkerStep
  <1>8. AckLoss /\ SuccessUnknown(w)
    BY <1>5, <1>7, SaveIsTheOwners
  <1> QED
    BY <1>5, <1>7, <1>8 DEF SuccessUnknown

(* ... terminal statuses are final, but for a success whose commit was not     *)
(* acknowledged.                                                               *)
THEOREM TerminalStays == ASSUME NoOverrun PROVE Spec => TerminalIsFinal
  <1>1. IInv /\ [Next]_vars => [FinalStep]_vars
    BY NextFinal
  <1> QED
    BY <1>1, InvariantHolds, PTL DEF Spec, TerminalIsFinal, FinalStep

-----------------------------------------------------------------------------
(* Cancellation needs neither the lease nor the owner: the flag of a cancelled *)
(* row is set by the same transaction, and later ones only set it again.       *)

CancelInv == TypeOK /\ CancelledMeansRequested

LEMMA NextCancel == CancelInv /\ [Next]_vars => CancelInv'
  <1> SUFFICES ASSUME CancelInv, [Next]_vars PROVE CancelInv'
    OBVIOUS
  <1> USE DEF CancelInv, CancelledMeansRequested, TypeOK
  <1>a. TypeOK'
    BY NextTypeOK
  <1>1. ASSUME NEW t \in Tasks, Create(t) \/ Cancel(t) PROVE CancelledMeansRequested'
    BY <1>1 DEF Create, Cancel
  <1>2. ASSUME NEW w \in Workers, NEW t \in Tasks, Claim(w, t) \/ ClaimCloses(w, t)
        PROVE  CancelledMeansRequested'
    BY <1>2 DEF Claim, ClaimCloses
  <1>3. ASSUME NEW w \in Workers, ReadCancel(w) \/ Submit(w) \/ Ask(w) \/ TimedOut(w)
                                  \/ Raises(w) \/ Restart(w) \/ Crash(w)
        PROVE  CancelledMeansRequested'
    BY <1>3 DEF ReadCancel, Submit, Ask, TimedOut, Raises, Restart, Crash, Goto, rowVars
  <1>4. ASSUME NEW w \in Workers, Succeed(w) \/ SucceedRaises(w)
        PROVE  CancelledMeansRequested'
    BY <1>4 DEF Succeed, SucceedRaises, Save, Goto, rowVars
  <1>5. ASSUME NEW w \in Workers, Fail(w) PROVE CancelledMeansRequested'
    <2>1. task[w] \in Tasks
      BY <1>5 DEF Fail, Busy, Settling
    <2> QED
      BY <1>5, <2>1 DEF Fail, Save
  <1>6. ASSUME Tick \/ UNCHANGED vars PROVE CancelledMeansRequested'
    BY <1>6 DEF Tick, vars, rowVars
  <1> QED
    BY <1>a, <1>1, <1>2, <1>3, <1>4, <1>5, <1>6 DEF Next, WorkerStep

(* A cancelled task is one whose client asked for it, whatever the timing.     *)
THEOREM CancelOnlyOnRequest == Spec => []CancelledMeansRequested
  <1>1. Init => CancelInv
    BY InitTypeOK DEF Init, CancelInv, CancelledMeansRequested
  <1>2. CancelInv => CancelledMeansRequested
    BY DEF CancelInv
  <1> QED
    BY <1>1, <1>2, NextCancel, PTL DEF Spec

-----------------------------------------------------------------------------
(* The queue implements TaskLifecycle: every step of the API, of a worker or   *)
(* of the clock is one step of one task's life, or none.                       *)

(* The lifecycle's state of a row, and the values it may have.                 *)
LEMMA StateOf ==
  ASSUME TypeOK, NEW t \in Tasks
  PROVE  /\ LifecycleState[t] = IF status[t] \in Waiting THEN "waiting" ELSE status[t]
         /\ LifecycleState \in [Tasks -> {"absent", "waiting", "running", "succeeded",
                                          "failed", "cancelled"}]
  BY DEF LifecycleState, TypeOK, Status, Waiting, Terminal

(* What a new status of one row does to the state of the lifecycle.            *)
LEMMA NewStatus ==
  ASSUME TypeOK, NEW t \in Tasks, NEW s \in Status,
         status' = [status EXCEPT ![t] = s]
  PROVE  LifecycleState' =
           [LifecycleState EXCEPT ![t] = IF s \in Waiting THEN "waiting" ELSE s]
  BY DEF LifecycleState, TypeOK

(* ... and that a step which leaves the rows' status alone stutters.           *)
LEMMA SameStatus ==
  ASSUME status' = status
  PROVE  LifecycleState' = LifecycleState
  BY DEF LifecycleState

-----------------------------------------------------------------------------
LEMMA InitRefines == Init => Lifecycle!Init
  BY DEF Init, Lifecycle!Init, LifecycleState, Waiting

(* One step per action; <1>5 stands for every write of an outcome, which is   *)
(* PutBack or End while the worker owns its row and Reopen when its success    *)
(* is recorded without its knowing.                                            *)
LEMMA NextRefines ==
  ASSUME NoOverrun, IInv, [Next]_vars
  PROVE  Lifecycle!Next \/ UNCHANGED <<LifecycleState, attempts>>
  <1> DEFINE Step == Lifecycle!Next \/ UNCHANGED <<LifecycleState, attempts>>
  <1>t. TypeOK
    BY DEF IInv
  <1>1. ASSUME NEW t \in Tasks, Create(t) PROVE Step
    <2>1. LifecycleState' = [LifecycleState EXCEPT ![t] = "waiting"]
      BY <1>t, <1>1, NewStatus DEF Create, Status, Waiting
    <2>2. Lifecycle!Submit(t)
      BY <1>t, <1>1, <2>1, StateOf DEF Create, Waiting, Lifecycle!Submit, Lifecycle!Move
    <2> QED
      BY <2>2 DEF Lifecycle!Next
  <1>2. ASSUME NEW t \in Tasks, Cancel(t) PROVE Step
    <2>1. CASE status[t] \in Waiting
      <3>1. LifecycleState' = [LifecycleState EXCEPT ![t] = "cancelled"]
        BY <1>t, <1>2, <2>1, NewStatus DEF Cancel, Status, Waiting, Terminal
      <3>2. Lifecycle!CancelWaiting(t)
        BY <1>t, <1>2, <2>1, <3>1, StateOf DEF Cancel, Lifecycle!CancelWaiting, Lifecycle!Move
      <3> QED
        BY <3>2 DEF Lifecycle!Next
    <2>2. CASE status[t] \notin Waiting
      BY <1>t, <1>2, <2>2, SameStatus DEF Cancel, TypeOK
    <2> QED
      BY <2>1, <2>2
  <1>3. ASSUME NEW w \in Workers, NEW t \in Tasks, Claim(w, t) PROVE Step
    <2>1. attempts[t] < MaxAttempts
      BY <1>3, TaskQueueAssumption
         DEF Claim, Claimable, OutOfAttempts, IInv, AttemptLeft, TypeOK
    <2>2. LifecycleState' = [LifecycleState EXCEPT ![t] = "running"]
      BY <1>t, <1>3, NewStatus DEF Claim, Status, Waiting
    <2>3. Lifecycle!Start(t)
      BY <1>t, <1>3, <2>1, <2>2, StateOf
         DEF Claim, Claimable, Waiting, Lifecycle!Start
    <2> QED
      BY <2>3 DEF Lifecycle!Next
  <1>4. ASSUME NEW w \in Workers, NEW t \in Tasks, ClaimCloses(w, t) PROVE Step
    <2>1. CASE status[t] \in Waiting
      <3>1. LifecycleState' = [LifecycleState EXCEPT ![t] = "cancelled"]
        BY <1>t, <1>4, <2>1, NewStatus
           DEF ClaimCloses, OutOfAttempts, Status, Waiting, Terminal
      <3>2. Lifecycle!CancelWaiting(t)
        BY <1>t, <1>4, <2>1, <3>1, StateOf
           DEF ClaimCloses, Lifecycle!CancelWaiting, Lifecycle!Move
      <3> QED
        BY <3>2 DEF Lifecycle!Next
    <2>2. CASE status[t] = "running"
      <3>1. PICK s \in {"cancelled", "failed"} : status' = [status EXCEPT ![t] = s]
        BY <1>4 DEF ClaimCloses
      <3>2. LifecycleState' = [LifecycleState EXCEPT ![t] = s]
        BY <1>t, <3>1, NewStatus DEF Status, Waiting, Terminal
      <3>3. Lifecycle!End(t)
        BY <1>t, <1>4, <2>2, <3>2, StateOf
           DEF ClaimCloses, Waiting, Lifecycle!End, Lifecycle!Move, Lifecycle!Ended
      <3> QED
        BY <3>3 DEF Lifecycle!Next
    <2> QED
      BY <1>4, <2>1, <2>2 DEF ClaimCloses, Claimable
  <1>5. ASSUME NEW w \in Workers, NEW s \in {"succeeded", "failed", "cancelled", "retry_wait"},
               NEW c, NEW d, pc[w] \in Busy, Save(w, s, c, d),
               s = "retry_wait" => tries[w] < MaxAttempts,
               pc[w] = "retry" => s \in {"retry_wait", "failed"} \/ Owns(w),
               pc[w] = "retry" /\ s = "failed" => tries[w] >= MaxAttempts
        PROVE  Step
    <2> DEFINE t == task[w]
               a == IF s = "retry_wait" THEN "waiting" ELSE s
    <2>1. /\ t \in Tasks
          /\ tries[w] = attempts[t]
          /\ Owns(w) \/ (AckLoss /\ SuccessUnknown(w))
      BY <1>t, <1>5, OwnerFacts DEF TypeOK
    <2>2. LifecycleState' = [LifecycleState EXCEPT ![t] = a]
      BY <1>t, <1>5, <2>1, NewStatus DEF Save, Status, Waiting, Terminal
    <2>3. attempts' = attempts
      BY <1>5 DEF Save
    <2>4. CASE Owns(w)
      <3>1. LifecycleState[t] = "running"
        BY <1>t, <2>1, <2>4, StateOf DEF Owns, Waiting
      <3>2. CASE s = "retry_wait"
        <4>1. Lifecycle!PutBack(t)
          BY <1>5, <2>1, <2>2, <2>3, <3>1, <3>2 DEF Lifecycle!PutBack, Lifecycle!Move
        <4> QED
          BY <2>1, <4>1 DEF Lifecycle!Next
      <3>3. CASE s # "retry_wait"
        <4>1. Lifecycle!End(t)
          BY <1>5, <2>1, <2>2, <2>3, <3>1, <3>3
             DEF Lifecycle!End, Lifecycle!Move, Lifecycle!Ended
        <4> QED
          BY <2>1, <4>1 DEF Lifecycle!Next
      <3> QED
        BY <3>2, <3>3
    <2>5. CASE ~Owns(w)
      <3>1. AckLoss /\ pc[w] = "retry" /\ LifecycleState[t] = "succeeded"
        BY <1>t, <2>1, <2>5, StateOf DEF SuccessUnknown, Waiting
      <3>2. CASE s = "retry_wait"
        <4>1. Lifecycle!Reopen(t)
          BY <1>5, <2>1, <2>2, <2>3, <3>1, <3>2 DEF Lifecycle!Reopen, Lifecycle!Move
        <4> QED
          BY <2>1, <4>1 DEF Lifecycle!Next
      <3>3. CASE s # "retry_wait"
        <4>1. s = "failed"
          BY <1>5, <2>5, <3>1, <3>3
        <4>2. Lifecycle!Reopen(t)
          BY <1>5, <2>1, <2>2, <2>3, <3>1, <4>1 DEF Lifecycle!Reopen, Lifecycle!Move
        <4> QED
          BY <2>1, <4>2 DEF Lifecycle!Next
      <3> QED
        BY <3>2, <3>3
    <2> QED
      BY <2>4, <2>5
  <1>6. ASSUME NEW w \in Workers, Succeed(w) PROVE Step
    <2>1. pc[w] = "succeed" /\ Save(w, "succeeded", FALSE, 0)
      BY <1>6 DEF Succeed
    <2> QED
      BY <2>1, <1>5 DEF Busy, Settling
  <1>7. ASSUME NEW w \in Workers, SucceedRaises(w) PROVE Step
    <2>1. CASE Goto(w, "retry")
      BY <2>1, SameStatus DEF Goto, rowVars
    <2>2. CASE Save(w, "succeeded", FALSE, 0)
      BY <1>7, <2>2, <1>5 DEF SucceedRaises, Busy, Settling
    <2> QED
      BY <1>7, <2>1, <2>2 DEF SucceedRaises
  <1>8. ASSUME NEW w \in Workers, Fail(w) PROVE Step
    <2>1. CASE pc[w] = "cancel" /\ Save(w, "cancelled", TRUE, 0)
      BY <2>1, <1>5 DEF Busy, Settling
    <2>2. CASE pc[w] = "giveUp" /\ Save(w, "failed", FALSE, 0)
      BY <2>2, <1>5 DEF Busy, Settling
    <2>3. CASE pc[w] = "retry" /\ tries[w] < MaxAttempts
                 /\ Save(w, "retry_wait", FALSE, RetryDelay)
      BY <2>3, <1>5 DEF Busy, Settling
    <2>4. CASE pc[w] = "retry" /\ tries[w] >= MaxAttempts
                 /\ Save(w, "failed", FALSE, 0)
      BY <2>4, <1>5 DEF Busy, Settling
    <2> QED
      BY <1>8, <2>1, <2>2, <2>3, <2>4 DEF Fail
  <1>9. ASSUME NEW w \in Workers, ReadCancel(w) \/ Submit(w) \/ Ask(w) \/ TimedOut(w)
                                  \/ Raises(w) \/ Restart(w) \/ Crash(w)
        PROVE  Step
    <2>1. status' = status /\ attempts' = attempts
      BY <1>9 DEF ReadCancel, Submit, Ask, TimedOut, Raises, Restart, Crash, Goto, rowVars
    <2> QED
      BY <2>1, SameStatus
  <1>10. ASSUME Tick \/ UNCHANGED vars PROVE Step
    <2>1. status' = status /\ attempts' = attempts
      BY <1>10 DEF Tick, vars, rowVars
    <2> QED
      BY <2>1, SameStatus
  <1> QED
    BY <1>1, <1>2, <1>3, <1>4, <1>6, <1>7, <1>8, <1>9, <1>10 DEF Next, WorkerStep

(* Every behaviour of the queue, seen through LifecycleState, is one of the    *)
(* lifecycle: attempts never start beyond the limit or after the end.          *)
THEOREM QueueImplementsLifecycle == ASSUME NoOverrun PROVE Spec => ImplementsLifecycle
  <1>1. IInv /\ [Next]_vars => [Lifecycle!Next]_Lifecycle!vars
    BY NextRefines DEF Lifecycle!vars
  <1> QED
    BY InitRefines, <1>1, InvariantHolds, PTL DEF Spec, ImplementsLifecycle, Lifecycle!Spec
=============================================================================
