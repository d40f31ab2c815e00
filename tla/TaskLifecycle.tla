---------------------------- MODULE TaskLifecycle ----------------------------
(* What the queue promises of a task, without workers, leases and time: it     *)
(* waits, runs at most MaxAttempts times, and ends once.                       *)
EXTENDS Naturals

CONSTANTS
    Tasks,
    MaxAttempts,
    MayReopen      \* whether a recorded success may be taken back

VARIABLES state, attempts

vars == <<state, attempts>>

Ended == {"succeeded", "failed", "cancelled"}

Init ==
    /\ state = [t \in Tasks |-> "absent"]
    /\ attempts = [t \in Tasks |-> 0]

Move(t, from, to) ==
    /\ state[t] \in from
    /\ \E s \in to : state' = [state EXCEPT ![t] = s]
    /\ UNCHANGED attempts

Submit(t) == Move(t, {"absent"}, {"waiting"})

(* A waiting task starts; a running one that lost its worker starts again.     *)
Start(t) ==
    /\ state[t] \in {"waiting", "running"}
    /\ attempts[t] < MaxAttempts
    /\ state' = [state EXCEPT ![t] = "running"]
    /\ attempts' = [attempts EXCEPT ![t] = @ + 1]

(* Back to waiting, only when an attempt is left.                              *)
PutBack(t) == attempts[t] < MaxAttempts /\ Move(t, {"running"}, {"waiting"})

End(t) == Move(t, {"running"}, Ended)

CancelWaiting(t) == Move(t, {"waiting"}, {"cancelled"})

Reopen(t) ==
    /\ MayReopen
    /\ \/ attempts[t] < MaxAttempts /\ Move(t, {"succeeded"}, {"waiting"})
       \/ attempts[t] >= MaxAttempts /\ Move(t, {"succeeded"}, {"failed"})

Next == \E t \in Tasks : \/ Submit(t)
                         \/ Start(t)
                         \/ PutBack(t)
                         \/ End(t)
                         \/ CancelWaiting(t)
                         \/ Reopen(t)

Spec == Init /\ [][Next]_vars
=============================================================================
