--------------------------- MODULE ReadersWriters ---------------------------
(***************************************************************************)
(* ThreadsMonitorLinux: readers and writers over a Monitor (LibRW.cpp).    *)
(* Its conditions 0 and 1 are called readers and writers, as there.        *)
(* Each access to the counters is a step: a thread that Wait() has woken   *)
(* is in the monitor without its mutex, beside another one.                *)
(***************************************************************************)
EXTENDS Monitor

CONSTANTS Readers, Writers,
          Rounds    \* bound: times a thread reads or writes

VARIABLES nreaders, nwaitingreaders, nwriters, nwaitingwriters,
          rw,       \* per thread: where it is in the functions of LibRW.cpp
          cut,      \* history: a thread has gone on in LibRW.cpp while another
                    \* was in the middle of beginning to wait or of waking, or
                    \* changed a counter that another was to change too
          rounds    \* per thread: rounds left

counters == <<nreaders, nwaitingreaders, nwriters, nwaitingwriters>>
vars == <<monitorVars, counters, rw, cut, rounds>>

Init ==
  /\ MonitorInit
  /\ nreaders = 0 /\ nwaitingreaders = 0 /\ nwriters = 0 /\ nwaitingwriters = 0
  /\ rw = [t \in Threads |-> "idle"] /\ cut = FALSE
  /\ rounds = [t \in Threads |-> Rounds]

Here(t) == t \in entered /\ Idle(t)
Go(t, from, to) == rw[t] = from /\ rw' = [rw EXCEPT ![t] = to]

(* Between the test of a while loop and the push of Wait(), ...            *)
BeginsToWait(t) ==
  \/ rw[t] \in {"counting", "counted"}
  \/ rw[t] = "waiting" /\ (Doing(t, "push") \/ Doing(t, "pushed"))
(* ... and between the change of a counter and the end of Signal() or
   Broadcast().                                                            *)
WakesOthers(t) == rw[t] = "deciding" \/ (rw[t] = "stopped" /\ ~Idle(t))

(* Two threads at these places change the same counter, one of those that wait
   or one of those that are active.  An update can be lost then.           *)
ToCount(t) == rw[t] = "waiting" /\ Here(t)
ToBegin(t) == rw[t] = "passed" \/ (rw[t] = "stopping" /\ Here(t))
SameCounter(t, u) ==
  /\ (t \in Readers) = (u \in Readers)
  /\ (ToCount(t) /\ ToCount(u)) \/ (ToBegin(t) /\ ToBegin(u))

GoesOn(t) ==
  cut' = (cut \/ \E u \in Threads \ {t} :
                   BeginsToWait(u) \/ WakesOthers(u) \/ SameCounter(t, u))
-----------------------------------------------------------------------------
(* Both Start functions and both Stop functions begin with Enter().        *)
Start(t) ==
  /\ rounds[t] > 0 /\ Go(t, "idle", "starting") /\ Enter(t)
  /\ rounds' = [rounds EXCEPT ![t] = @ - 1]
  /\ UNCHANGED <<counters, cut>>

Stop(t) ==
  /\ Go(t, "active", "stopping") /\ Enter(t)
  /\ UNCHANGED <<counters, cut, rounds>>

(* The condition of the while loops.                                       *)
MustWait(t) ==
  IF t \in Readers THEN nwriters + nwaitingwriters > 0
                   ELSE nreaders + nwriters > 0

(* n is added to the counter of the waiting threads of t's kind.           *)
AddWaiting(t, n) ==
  /\ nwaitingreaders' = nwaitingreaders + (IF t \in Readers THEN n ELSE 0)
  /\ nwaitingwriters' = nwaitingwriters + (IF t \in Writers THEN n ELSE 0)
  /\ UNCHANGED <<nreaders, nwriters>>

AddActive(t, n) ==
  /\ nreaders' = nreaders + (IF t \in Readers THEN n ELSE 0)
  /\ nwriters' = nwriters + (IF t \in Writers THEN n ELSE 0)
  /\ UNCHANGED <<nwaitingreaders, nwaitingwriters>>

Tests(t) ==
  /\ Here(t) /\ Go(t, "starting", IF MustWait(t) THEN "counting" ELSE "passed")
  /\ UNCHANGED <<monitorVars, counters, rounds>>

CountsWaiting(t) ==
  /\ Go(t, "counting", "counted") /\ AddWaiting(t, 1)
  /\ UNCHANGED <<monitorVars, rounds>>

CallsWait(t) ==
  /\ Go(t, "counted", "waiting")
  /\ Wait(t, IF t \in Readers THEN "readers" ELSE "writers")
  /\ UNCHANGED <<counters, rounds>>

WaitReturns(t) ==
  /\ Here(t) /\ Go(t, "waiting", "starting")
  /\ AddWaiting(t, -1)
  /\ UNCHANGED <<monitorVars, rounds>>

Begin(t) ==
  /\ Go(t, "passed", "begun")
  /\ AddActive(t, 1)
  /\ UNCHANGED <<monitorVars, rounds>>

LeaveStart(t) ==
  /\ Go(t, "begun", "active") /\ Leave(t)
  /\ UNCHANGED <<counters, rounds>>

End(t) ==
  /\ Here(t) /\ Go(t, "stopping", "deciding")
  /\ AddActive(t, -1)
  /\ UNCHANGED <<monitorVars, rounds>>

(* StopCit() wakes a writer when no reader is left; StopScrit() prefers a
   writer to the readers.                                                  *)
StopWakes_one_reader(t) ==
  CASE t \in Readers /\ nreaders = 0 /\ nwaitingwriters > 0 -> Signal(t, "writers")
    [] t \in Writers /\ nwaitingwriters > 0 -> Signal(t, "writers")
    [] t \in Writers /\ nwaitingwriters = 0 /\ nwaitingreaders > 0 -> Signal(t, "readers")
    [] OTHER -> UNCHANGED monitorVars

StopWakes(t) ==
  CASE t \in Readers /\ nreaders = 0 /\ nwaitingwriters > 0 -> Signal(t, "writers")
    [] t \in Writers /\ nwaitingwriters > 0 -> Signal(t, "writers")
    [] t \in Writers /\ nwaitingwriters = 0 /\ nwaitingreaders > 0 -> Broadcast(t, "readers")
    [] OTHER -> UNCHANGED monitorVars

Decides(t) ==
  /\ Go(t, "deciding", "stopped") /\ StopWakes(t)
  /\ UNCHANGED <<counters, rounds>>

LeaveStop(t) ==
  /\ Go(t, "stopped", "idle") /\ Leave(t)
  /\ UNCHANGED <<counters, rounds>>

(* The steps between Enter() and Leave().                                  *)
Work(t) == \/ Tests(t) \/ CountsWaiting(t) \/ CallsWait(t) \/ WaitReturns(t)
           \/ Begin(t) \/ LeaveStart(t) \/ End(t) \/ Decides(t) \/ LeaveStop(t)

Step(t) == Inside(t) /\ UNCHANGED <<counters, rw, cut, rounds>>

Next == \E t \in Threads : Start(t) \/ Stop(t) \/ (Work(t) /\ GoesOn(t)) \/ Step(t)
Spec == Init /\ [][Next]_vars
-----------------------------------------------------------------------------
Active(T) == {t \in T : rw[t] = "active" /\ Idle(t)}

(* A reader waits while there are writers and a writer waits while there are
   readers or writers.                                                     *)
RWExclusion ==
  /\ Active(Writers) # {} => Active(Readers) = {}
  /\ Cardinality(Active(Writers)) <= 1

(* A thread that waits on a condition of LibRW.cpp has something to wait for:
   an active thread, one on its way to be active or to stop, or a thread that
   has been woken for it.                                                  *)
OnCondition(t) == \E c \in Conditions : t \in Range(queue[c])

SomebodyComes ==
  (\E c \in Conditions : queue[c] # <<>>) =>
    \E t \in Threads : rw[t] # "idle" /\ ~(rw[t] = "waiting" /\ OnCondition(t))

(* The code lets the wake-up be lost when a thread goes on between the test
   of another and its push on the condition, or between the change of a
   counter and the end of Signal(), or when two change a counter at once.
   Otherwise it is not, however many threads are in the monitor at once.   *)
NobodyWaitsInVain == cut \/ raced \/ undefined \/ SomebodyComes
=============================================================================
