----------------------------- MODULE MonitorUse -----------------------------
(* Threads that use a Monitor in every way its interface allows: either they
   only call Enter() and Leave(), or they also use its conditions.         *)
EXTENDS Monitor

CONSTANT MaxCalls   \* bound: calls of one thread
ASSUME UseAssumption == MaxCalls \in Nat

VARIABLES useConditions,
          left                   \* per thread: calls it may still make
vars == <<monitorVars, useConditions, left>>

Init == /\ MonitorInit
        /\ useConditions \in BOOLEAN /\ left = [t \in Threads |-> MaxCalls]

Spend(t) == /\ left[t] > 0 /\ left' = [left EXCEPT ![t] = @ - 1]
            /\ UNCHANGED useConditions

Call(t) ==
  \/ Enter(t) /\ Spend(t)
  \/ useConditions /\ Spend(t) /\ \E c \in Conditions : Wait(t, c)
  \/ useConditions /\ Spend(t) /\ \E c \in Conditions : Signal(t, c)
  \/ useConditions /\ Spend(t) /\ \E c \in Conditions : Broadcast(t, c)

LeaveCall(t) == Leave(t) /\ UNCHANGED <<useConditions, left>>
Step(t) == Inside(t) /\ UNCHANGED <<useConditions, left>>

Next == \E t \in Threads : Call(t) \/ LeaveCall(t) \/ Step(t)
Spec == Init /\ [][Next]_vars

(* A thread in the monitor goes on and leaves it in the end.               *)
FairSpec == Spec /\ \A t \in Threads : WF_vars(Step(t)) /\ WF_vars(LeaveCall(t))

(* Threads that only enter and leave exclude each other, although entry_queue
   is changed without the mutex and whatever comes of that.                *)
EntryExclusion == ~useConditions => MutualExclusion

(* Such threads never take the same element of entry_queue and none is lost or
   woken that does not sleep, as long as no thread uses the queue between the
   two halves of the push of another.                                      *)
EntryQueued == ~useConditions /\ ~raced => OneSemaphore

(* A thread that gave way in Signal() or Broadcast() goes on, and so does one
   that was signalled, unless threads have taken the same element or used a
   queue while another pushed on it.                                       *)
SignallersResume ==
  \A t \in Threads : (t \in Range(queue["signaled"]) \cup Range(queue["waiting"]))
                       ~> (Idle(t) \/ undefined \/ raced)
=============================================================================
