---------------------------- MODULE MCMonitors ----------------------------
(* A monitor for TLC.  Its threads either call the interface in any order, as
   in MonitorUse, or are the readers and writers of LibRW.cpp, which creates
   its monitor with two conditions and SIGNAL_AND_CONTINUE.                *)
EXTENDS MonitorUse

CONSTANTS Readers, Writers, Rounds

ASSUME RolesAssumption == Readers \cap Writers = {} /\ Rounds \in Nat

VARIABLES users, nreaders, nwaitingreaders, nwriters, nwaitingwriters, rw, cut,
          rounds

LibRW == INSTANCE ReadersWriters WITH
  Threads <- Readers \cup Writers, Conditions <- {"readers", "writers"},
  Policy <- "SIGNAL_AND_CONTINUE"

rwVars == <<nreaders, nwaitingreaders, nwriters, nwaitingwriters, rw, cut, rounds>>
mcVars == <<vars, users, rwVars>>

AnyInit == /\ users = "any" /\ Init
           /\ rw = <<>> /\ rounds = <<>> /\ cut = FALSE
           /\ nreaders = 0 /\ nwaitingreaders = 0
           /\ nwriters = 0 /\ nwaitingwriters = 0

LibRWInit == users = "LibRW" /\ LibRW!Init /\ useConditions = TRUE /\ left = <<>>

(* Bound: threads that use conditions are followed until two of them have met
   in a way after which nothing is claimed.                                *)
Followed == useConditions => ~raced /\ ~undefined /\ ~cut

AnyStep(A) == users = "any" /\ Followed /\ A /\ UNCHANGED <<users, rwVars>>
LibRWStep(A) == users = "LibRW" /\ Followed /\ A /\ UNCHANGED <<users, useConditions, left>>

MCNext == AnyStep(Next) \/ LibRWStep(LibRW!Next)

MCSpec == /\ (AnyInit \/ LibRWInit) /\ [][MCNext]_mcVars
          /\ \A t \in Threads : /\ WF_mcVars(AnyStep(Step(t)))
                                /\ WF_mcVars(AnyStep(LeaveCall(t)))

(* Threads that use the monitor in any order: one that gave way in Signal() or
   Broadcast() goes on, and so does one that was signalled, unless threads have
   taken the same element or used a queue while another pushed on it.      *)
AnySignallersResume == users = "any" => SignallersResume

(* A reader or writer of LibRW.cpp that waits on a condition has something to
   wait for, unless a thread went on between the test of another and its push
   on the condition, or between the change of a counter and the end of
   Signal(), or two changed one counter at once: StopCit() and StopScrit()
   leave no waiting thread behind with nobody to wake it.                  *)
NobodyWaitsInVain == users = "LibRW" => LibRW!NobodyWaitsInVain
=============================================================================
