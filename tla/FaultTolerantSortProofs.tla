----------------------- MODULE FaultTolerantSortProofs -----------------------
(***************************************************************************)
(* FaultTolerantSort keeps its types, its counters and its tasks, makes no *)
(* run-time error, writes the whole input and implements MergePool, for    *)
(* every input size, packet size, number of workers and number of faults.  *)
(*                                                                         *)
(* First the invariant of the control (Inv): one lemma per conjunct.  Then *)
(* what main() cuts the input into, what each step does to the tasks and   *)
(* the messages, and the invariant of the tasks (WorkInv), again one lemma *)
(* per conjunct.  Last the refinement, from the blocks each step moves.    *)
(***************************************************************************)
EXTENDS FaultTolerantSortInv, FiniteSetTheorems, SequenceTheorems, TLAPS

LEMMA TaskFacts ==
  /\ NoTask \in TaskOrNull /\ Garbage \in TaskOrNull
  /\ NoTask \notin Task /\ Garbage \notin Task
  /\ NoBlock \in Block
  /\ \A t \in TaskOrNull : t.b1 \in Block /\ t.b2 \in Block
  /\ \A t \in TaskOrNull : computeResult(t) \in Block
  /\ \A b \in Block : SortTask(b) \in Task
  /\ \A a, b \in Block : MergeTask(a, b) \in Task
<1>1. NoBlock \in Block
  BY DEF NoBlock, Block
<1>2. NoTask \in TaskOrNull /\ Garbage \in TaskOrNull
  BY DEF TaskOrNull
<1>3. NoTask \notin Task /\ Garbage \notin Task
  BY DEF Task, NoTask, Garbage
<1>4. \A t \in TaskOrNull : t.b1 \in Block /\ t.b2 \in Block
  BY <1>1 DEF TaskOrNull, Task, NoTask, Garbage
<1>5. \A t \in TaskOrNull : computeResult(t) \in Block
  <2> TAKE t \in TaskOrNull
  <2>1. Items(t) \in SUBSET Input
    BY <1>4 DEF Items, Block
  <2>2. (t.kind = "sort" \/ (t.b1.sorted /\ t.b2.sorted)) \in BOOLEAN
    OBVIOUS
  <2> QED  BY <2>1, <2>2, Zenon DEF Block, computeResult
<1>6. \A b \in Block : SortTask(b) \in Task
  BY <1>1 DEF SortTask, Task
<1>7. \A a, b \in Block : MergeTask(a, b) \in Task
  BY DEF MergeTask, Task
<1> QED  BY <1>1, <1>2, <1>3, <1>4, <1>5, <1>6, <1>7

LEMMA CheckPointFacts ==
  /\ Torn \in CheckPointFile /\ Torn.queue = <<>>
  /\ \A f \in CheckPointFile : /\ deserialize(f) \in CheckPointFile
                               /\ deserialize(f).queue = f.queue
BY TaskFacts DEF Torn, CheckPointFile, deserialize

LEMMA SlotFacts ==
  /\ MaxChildren \in Nat \ {0} /\ MaxFaults \in Nat
  /\ MaxComm \in Nat /\ 2 * MaxChildren <= MaxComm
  /\ 0 \in Slots
  /\ \A s \in Slots : s \in Nat /\ s < MaxChildren
BY ModeAssumption DEF Slots, MaxComm

(* Each rank cuts its share of the file into tasks of numbers of the file,
   and rank 0 always has a task.                                           *)
LEMMA OwnTasksFacts ==
  /\ \A r \in {0, 1} : OwnTasks(r) \in Seq(Task)
  /\ OwnTasks(0) # <<>>
<1>1. ASSUME NEW r \in {0, 1}
      PROVE  MyNumbers(r) \in Nat /\ NPackets(r) \in Nat
  BY SizesAssumption DEF MyNumbers, NPackets, OrigSize
<1>2. ASSUME NEW r \in {0, 1}, NEW i \in Nat, i < MyNumbers(r)
      PROVE  MyOffset(r) + i \in Input
  <2>1. CASE r = 0
    BY <1>2, <2>1, SizesAssumption DEF MyOffset, MyNumbers, OrigSize, Input
  <2>2. CASE r = 1
    <3>1. MyOffset(1) = (NumNumbers \div 2) + (NumNumbers % 2)
      BY SizesAssumption DEF MyOffset, MyNumbers, OrigSize
    <3>2. i < NumNumbers \div 2
      BY <1>2, <2>2, SizesAssumption DEF MyNumbers, OrigSize
    <3> QED  BY <3>1, <3>2, <2>2, SizesAssumption DEF Input
  <2> QED  BY <2>1, <2>2
<1>3. ASSUME NEW r \in {0, 1}, NEW k \in Nat
      PROVE  next_task(r, k) \in Task
  <2> DEFINE from == k * OptimSize
             to == IF from + OptimSize <= MyNumbers(r) THEN from + OptimSize
                                                       ELSE MyNumbers(r)
             items == {MyOffset(r) + i : i \in from .. to - 1}
  <2>1. from \in Nat /\ to \in Nat /\ to <= MyNumbers(r)
    BY <1>1, SizesAssumption
  <2>2. items \in SUBSET Input
    BY <1>1, <1>2, <2>1
  <2>3. [items |-> items, sorted |-> FALSE] \in Block
    BY <2>2 DEF Block
  <2> QED  BY <2>3, TaskFacts DEF next_task
<1>4. \A r \in {0, 1} : OwnTasks(r) \in Seq(Task)
  <2> TAKE r \in {0, 1}
  <2>1. \A i \in 1 .. NPackets(r) : next_task(r, i - 1) \in Task
    BY <1>1, <1>3
  <2> QED  BY <1>1, <2>1 DEF OwnTasks
<1>5. OwnTasks(0) # <<>>
  <2>1. MyNumbers(0) >= 1
    BY SizesAssumption DEF MyNumbers, OrigSize
  <2>2. NPackets(0) >= 1
    BY <2>1, <1>1, SizesAssumption DEF NPackets
  <2>3. Len(OwnTasks(0)) = NPackets(0)
    BY <1>1 DEF OwnTasks
  <2> QED  BY <2>2, <2>3
<1> QED  BY <1>4, <1>5

LEMMA HeadTail ==
  ASSUME NEW S, NEW s \in Seq(S), s # <<>>
  PROVE  Head(s) \in S /\ Tail(s) \in Seq(S) /\ Len(Tail(s)) = Len(s) - 1
OBVIOUS

LEMMA LoopFacts ==
  ASSUME Inv
  PROVE  /\ pc = "pick" => /\ queue # <<>> /\ ~sent[cur] /\ comm[cur] \in Comms
                           /\ inq > 1 /\ NoneOut /\ ~Gathering
         /\ pc \in {"recv", "alive", "result"} => ~Gathering
         /\ pc = "recv" /\ it < MaxChildren => it \in Slots /\ comm[it] \in Comms
         /\ pc \in {"alive", "result"} =>
              /\ it \in Slots /\ comm[it] \in Comms /\ sent[it]
              /\ buffered[it] \in Task /\ OneOut
<1> USE SlotFacts DEF Inv, TypeOK, MasterTypes, LoopInv
<1>1. pc = "pick" => ~Gathering /\ NoneOut /\ inq > 1
  BY DEF Gathering
<1>2. pc = "pick" => queue # <<>> /\ ~sent[cur] /\ comm[cur] \in Comms
  BY <1>1 DEF NoneOut, OnlySent, PhaseInv
<1>3. pc \in {"recv", "alive", "result"} => ~Gathering
  BY DEF Gathering
<1>4. pc = "recv" /\ it < MaxChildren => it \in Slots /\ comm[it] \in Comms
  BY <1>3 DEF PhaseInv, Slots
<1>5. pc \in {"alive", "result"} =>
        /\ it \in Slots /\ comm[it] \in Comms /\ sent[it]
        /\ buffered[it] \in Task /\ OneOut
  BY <1>3 DEF PhaseInv, OneOut, OnlySent
<1> QED  BY <1>1, <1>2, <1>3, <1>4, <1>5

(* While a task is picked the queue is not empty and no slot is taken, so
   PickSlave always sends.                                                 *)
LEMMA PickSends ==
  ASSUME Inv, PickSlave
  PROVE  /\ pc = "pick" /\ queue # <<>>
         /\ queue' = Tail(queue)
         /\ buffered' = [buffered EXCEPT ![cur] = Head(queue)]
         /\ torecv' = torecv + 1
         /\ inbox' = [inbox EXCEPT ![comm[cur]] = Append(@, Head(queue))]
         /\ sent' = [sent EXCEPT ![cur] = TRUE]
         /\ pc' = "recv" /\ ret' = "loop" /\ it' = 0
         /\ UNCHANGED <<cur, active, merge1, inq, size, mirrorVars, disk, wst, hdr,
                        echo, res, nextComm, comm, faults>>
BY LoopFacts DEF PickSlave, SendTask, NextSlave

(* The mirror takes over only from a rank 0 that ran its SERVER_CRASH block. *)
LEMMA TakeoverFacts ==
  ASSUME Inv, MirrorTakesOver
  PROVE  /\ notice = <<111>> /\ pc = "dead" /\ active = 0
         /\ ServerCrash /\ ret = "find" /\ nextComm = MaxChildren + 1
<1>1. notice = <<111>>
  BY DEF MirrorTakesOver, Inv, MirrorInv
<1>2. pc = "dead" /\ ServerCrash /\ ret = "find"
  BY <1>1 DEF Inv, MirrorInv
<1>3. active = 0
  BY DEF MirrorTakesOver, Inv, MirrorInv, TypeOK, MasterTypes
<1> QED  BY <1>1, <1>2, <1>3 DEF Inv, MirrorInv, Gathering

LEMMA MasterTypesStep == Inv /\ [Next]_vars => MasterTypes'
<1> SUFFICES ASSUME Inv, [Next]_vars PROVE MasterTypes'
  OBVIOUS
<1> USE DEF vars, manager, loopVars, mirrorVars, disk, chans, workers
<1>1. CASE MirrorSendsTasks
  BY <1>1 DEF MirrorSendsTasks, Inv, TypeOK, MasterTypes
<1>2. CASE ReceiveTask
  BY <1>2 DEF ReceiveTask, Inv, TypeOK, MasterTypes, MirrorTypes
<1>3. CASE EndOfGather
  BY <1>3 DEF EndOfGather, Inv, TypeOK, MasterTypes
<1>4. CASE Barrier
  BY <1>4 DEF Barrier, Inv, TypeOK, MasterTypes
<1>5. CASE MirrorDeserializes
  BY <1>5 DEF MirrorDeserializes, Inv, TypeOK, MasterTypes
<1>6. CASE SpawnWorkers
  BY <1>6, SlotFacts DEF SpawnWorkers, spawn_workers, main_loop, Inv, TypeOK,
     MasterTypes
<1>7. CASE TruncateCheckPoint
  BY <1>7, CheckPointFacts DEF TruncateCheckPoint, Inv, TypeOK, MasterTypes
<1>8. CASE WriteCheckPoint
  BY <1>8 DEF WriteCheckPoint, Inv, TypeOK, MasterTypes, CheckPointFile
<1>9. CASE WhileTest
  <2>1. /\ pc' \in {"truncate", "quit", "recv"} /\ it' \in {0, it}
        /\ ret' \in {"find", "loop", ret}
    BY <1>9 DEF WhileTest, AnotherTask
  <2> QED  BY <1>9, <2>1, SlotFacts DEF WhileTest, AnotherTask, Inv, TypeOK, MasterTypes
<1>10. CASE CrashServer
  BY <1>10 DEF CrashServer, Inv, TypeOK, MasterTypes
<1>11. CASE PickSlave
  <2>1. Head(queue) \in TaskOrNull /\ Tail(queue) \in Seq(Task)
    BY <1>11, PickSends, HeadTail DEF Inv, TypeOK, MasterTypes, TaskOrNull
  <2>2. buffered' \in [Slots -> TaskOrNull] /\ sent' \in [Slots -> BOOLEAN]
    <3>1. /\ buffered' = [buffered EXCEPT ![cur] = Head(queue)]
          /\ sent' = [sent EXCEPT ![cur] = TRUE]
      BY <1>11, PickSends
    <3> QED  BY <2>1, <3>1 DEF Inv, TypeOK, MasterTypes
  <2>3. queue' \in Seq(Task) /\ torecv' \in Int
    <3>1. queue' = Tail(queue) /\ torecv' = torecv + 1
      BY <1>11, PickSends
    <3> QED  BY <2>1, <3>1 DEF Inv, TypeOK, MasterTypes
  <2>4. /\ pc' = "recv" /\ ret' = "loop" /\ it' = 0
        /\ UNCHANGED <<active, merge1, inq, cur, size, disk>>
    BY <1>11, PickSends
  <2> QED  BY <2>2, <2>3, <2>4, SlotFacts DEF Inv, TypeOK, MasterTypes
<1>12. CASE SkipSlot
  BY <1>12, SlotFacts DEF SkipSlot, Inv, TypeOK, MasterTypes
<1>13. CASE EndOfRecv
  BY <1>13 DEF EndOfRecv, Return, Inv, TypeOK, MasterTypes
<1>14. ASSUME NEW h \in {0, 1}, Probe(h) PROVE MasterTypes'
  BY <1>14 DEF Probe, Inv, TypeOK, MasterTypes
<1>15. CASE Alive
  BY <1>15 DEF Alive, Inv, TypeOK, MasterTypes
<1>16. CASE ProbeTimeout
  BY <1>16, SlotFacts, TaskFacts DEF ProbeTimeout, set_task_failed,
           RespawnWorker, Inv, TypeOK, MasterTypes,
     LoopInv, OneOut
<1>17. CASE ReceiveResult
  <2> DEFINE r == Head(res[comm[it]])
  <2>1. it \in Slots /\ comm[it] \in Comms
    BY <1>17, LoopFacts DEF ReceiveResult, putMergeTask
  <2>2. r \in Task /\ r.b1 \in Block
    BY <1>17, <2>1, TaskFacts DEF ReceiveResult, putMergeTask, Inv, TypeOK, WorkerTypes,
       TaskOrNull
  <2>3. MergeTask(merge1.b1, r.b1) \in Task
    BY <2>2, TaskFacts DEF Inv, TypeOK, MasterTypes
  <2>4. merge1' \in TaskOrNull /\ inq' \in Int
    <3>1. merge1' = r \/ merge1' = NoTask
      BY <1>17 DEF ReceiveResult, putMergeTask
    <3>2. inq' = inq - 1 \/ inq' = inq
      BY <1>17 DEF ReceiveResult, putMergeTask
    <3>3. merge1' \in TaskOrNull
      BY <2>2, <3>1, TaskFacts, Zenon DEF TaskOrNull
    <3> QED  BY <3>2, <3>3 DEF Inv, TypeOK, MasterTypes
  <2>5. queue' \in Seq(Task)
    <3>1. CASE merge1 = NoTask
      BY <1>17, <3>1 DEF ReceiveResult, putMergeTask, Inv, TypeOK, MasterTypes
    <3>2. CASE merge1 # NoTask
      BY <1>17, <2>3, <3>2 DEF ReceiveResult, putMergeTask, Inv, TypeOK, MasterTypes
    <3> QED  BY <3>1, <3>2
  <2> QED  BY <1>17, <2>1, <2>4, <2>5, TaskFacts DEF ReceiveResult, putMergeTask, Return,
     Inv, TypeOK,
              MasterTypes
<1>18. CASE send_quit_to_slaves
  BY <1>18 DEF send_quit_to_slaves, Inv, TypeOK, MasterTypes
<1>19. CASE finish_solving
  <2> DEFINE last == computeResult(Head(queue))
             all == IF merge1 = NoTask THEN last
                    ELSE computeResult(MergeTask(last, merge1.b1))
  <2>1. queue # <<>> => last \in Block /\ all \in Block
    <3> SUFFICES ASSUME queue # <<>> PROVE last \in Block /\ all \in Block
      OBVIOUS
    <3>1. Head(queue) \in TaskOrNull /\ merge1.b1 \in Block
      BY HeadTail, TaskFacts DEF Inv, TypeOK, MasterTypes, TaskOrNull
    <3>2. last \in Block
      BY <3>1, TaskFacts
    <3>3. MergeTask(last, merge1.b1) \in TaskOrNull
      BY <3>1, <3>2, TaskFacts DEF TaskOrNull
    <3> QED  BY <3>2, <3>3, TaskFacts
  <2>2. output' \in Block
    BY <1>19, <2>1 DEF finish_solving, Inv, TypeOK, MasterTypes
  <2>3. queue' \in Seq(Task) /\ pc' \in {"segv", "done"}
    BY <1>19, HeadTail DEF finish_solving, Inv, TypeOK, MasterTypes
  <2> QED  BY <1>19, <2>2, <2>3 DEF finish_solving, Inv, TypeOK, MasterTypes
<1>20. CASE MirrorTakesOver
  BY <1>20, SlotFacts DEF MirrorTakesOver, spawn_workers, main_loop, Inv,
     TypeOK, MasterTypes, MirrorTypes, CheckPointFile
<1>21. CASE MirrorIsReleased
  BY <1>21 DEF MirrorIsReleased, Inv, TypeOK, MasterTypes
<1>22. ASSUME NEW c \in Comms, WorkerHeader(c) PROVE MasterTypes'
  BY <1>22 DEF WorkerHeader, Inv, TypeOK, MasterTypes
<1>23. ASSUME NEW c \in Comms, WorkerSolve(c) PROVE MasterTypes'
  BY <1>23 DEF WorkerSolve, Inv, TypeOK, MasterTypes
<1>24. ASSUME NEW c \in Comms, WorkerTimeout(c) PROVE MasterTypes'
  BY <1>24 DEF WorkerTimeout, InService, Inv, TypeOK, MasterTypes
<1>25. ASSUME NEW c \in Comms, WorkerDeath(c) PROVE MasterTypes'
  BY <1>25 DEF WorkerDeath, InService, Inv, TypeOK, MasterTypes
<1>26. CASE MasterDeath \/ MirrorDeath
  BY <1>26 DEF MasterDeath, MirrorDeath, Inv, TypeOK, MasterTypes
<1>27. CASE UNCHANGED vars
  BY <1>27 DEF Inv, TypeOK, MasterTypes
<1> QED
  BY <1>1, <1>2, <1>3, <1>4, <1>5, <1>6, <1>7, <1>8, <1>9, <1>10, <1>11,
     <1>12, <1>13, <1>14, <1>15, <1>16, <1>17, <1>18, <1>19, <1>20, <1>21,
     <1>22, <1>23, <1>24, <1>25, <1>26, <1>27
     DEF Next, Setup, MainLoop, CheckRecv, Finish, Worker

LEMMA MirrorTypesStep == Inv /\ [Next]_vars => MirrorTypes'
<1> SUFFICES ASSUME Inv, [Next]_vars PROVE MirrorTypes'
  OBVIOUS
<1> USE DEF vars, manager, loopVars, mirrorVars, disk, chans, workers
<1>1. CASE MirrorSendsTasks
  BY <1>1, OwnTasksFacts DEF MirrorSendsTasks, Inv, TypeOK, MirrorTypes
<1>2. CASE ReceiveTask
  BY <1>2 DEF ReceiveTask, Inv, TypeOK, MirrorTypes
<1>3. CASE EndOfGather
  BY <1>3 DEF EndOfGather, Inv, TypeOK, MirrorTypes
<1>4. CASE Barrier
  BY <1>4 DEF Barrier, Inv, TypeOK, MirrorTypes
<1>5. CASE MirrorDeserializes
  BY <1>5, CheckPointFacts DEF MirrorDeserializes, Inv, TypeOK, MirrorTypes,
     MasterTypes
<1>6. CASE SpawnWorkers
  BY <1>6 DEF SpawnWorkers, spawn_workers, main_loop, Inv, TypeOK, MirrorTypes
<1>7. CASE TruncateCheckPoint
  BY <1>7 DEF TruncateCheckPoint, Inv, TypeOK, MirrorTypes
<1>8. CASE WriteCheckPoint
  BY <1>8 DEF WriteCheckPoint, Inv, TypeOK, MirrorTypes
<1>9. CASE WhileTest
  BY <1>9 DEF WhileTest, AnotherTask, Inv, TypeOK, MirrorTypes
<1>10. CASE CrashServer
  BY <1>10 DEF CrashServer, Inv, TypeOK, MirrorTypes
<1>11. CASE PickSlave
  BY <1>11 DEF PickSlave, NextSlave, SendTask, Inv, TypeOK, MirrorTypes
<1>12. CASE SkipSlot
  BY <1>12 DEF SkipSlot, Inv, TypeOK, MirrorTypes
<1>13. CASE EndOfRecv
  BY <1>13 DEF EndOfRecv, Return, Inv, TypeOK, MirrorTypes
<1>14. ASSUME NEW h \in {0, 1}, Probe(h) PROVE MirrorTypes'
  BY <1>14 DEF Probe, Inv, TypeOK, MirrorTypes
<1>15. CASE Alive
  BY <1>15 DEF Alive, Inv, TypeOK, MirrorTypes
<1>16. CASE ProbeTimeout
  BY <1>16 DEF ProbeTimeout, set_task_failed,
           RespawnWorker, Inv, TypeOK, MirrorTypes
<1>17. CASE ReceiveResult
  BY <1>17 DEF ReceiveResult, putMergeTask, Return, Inv, TypeOK, MirrorTypes
<1>18. CASE send_quit_to_slaves
  BY <1>18 DEF send_quit_to_slaves, Inv, TypeOK, MirrorTypes
<1>19. CASE finish_solving
  BY <1>19 DEF finish_solving, Inv, TypeOK, MirrorTypes
<1>20. CASE MirrorTakesOver
  BY <1>20 DEF MirrorTakesOver, spawn_workers, main_loop, Inv, TypeOK,
     MirrorTypes
<1>21. CASE MirrorIsReleased
  BY <1>21 DEF MirrorIsReleased, Inv, TypeOK, MirrorTypes
<1>22. ASSUME NEW c \in Comms, WorkerHeader(c) PROVE MirrorTypes'
  BY <1>22 DEF WorkerHeader, Inv, TypeOK, MirrorTypes
<1>23. ASSUME NEW c \in Comms, WorkerSolve(c) PROVE MirrorTypes'
  BY <1>23 DEF WorkerSolve, Inv, TypeOK, MirrorTypes
<1>24. ASSUME NEW c \in Comms, WorkerTimeout(c) PROVE MirrorTypes'
  BY <1>24 DEF WorkerTimeout, InService, Inv, TypeOK, MirrorTypes
<1>25. ASSUME NEW c \in Comms, WorkerDeath(c) PROVE MirrorTypes'
  BY <1>25 DEF WorkerDeath, InService, Inv, TypeOK, MirrorTypes
<1>26. CASE MasterDeath \/ MirrorDeath
  BY <1>26 DEF MasterDeath, MirrorDeath, Inv, TypeOK, MirrorTypes
<1>27. CASE UNCHANGED vars
  BY <1>27 DEF Inv, TypeOK, MirrorTypes
<1> QED
  BY <1>1, <1>2, <1>3, <1>4, <1>5, <1>6, <1>7, <1>8, <1>9, <1>10, <1>11,
     <1>12, <1>13, <1>14, <1>15, <1>16, <1>17, <1>18, <1>19, <1>20, <1>21,
     <1>22, <1>23, <1>24, <1>25, <1>26, <1>27
     DEF Next, Setup, MainLoop, CheckRecv, Finish, Worker

LEMMA WorkerTypesStep == Inv /\ [Next]_vars => WorkerTypes'
<1> SUFFICES ASSUME Inv, [Next]_vars PROVE WorkerTypes'
  OBVIOUS
<1> USE DEF vars, manager, loopVars, mirrorVars, disk, chans, workers
<1>1. CASE MirrorSendsTasks
  BY <1>1 DEF MirrorSendsTasks, Inv, TypeOK, WorkerTypes
<1>2. CASE ReceiveTask
  BY <1>2 DEF ReceiveTask, Inv, TypeOK, WorkerTypes
<1>3. CASE EndOfGather
  BY <1>3 DEF EndOfGather, Inv, TypeOK, WorkerTypes
<1>4. CASE Barrier
  BY <1>4 DEF Barrier, Inv, TypeOK, WorkerTypes
<1>5. CASE MirrorDeserializes
  BY <1>5 DEF MirrorDeserializes, Inv, TypeOK, WorkerTypes
<1>6. CASE SpawnWorkers
  BY <1>6, SlotFacts DEF SpawnWorkers, spawn_workers, main_loop, Inv, TypeOK,
     WorkerTypes, PhaseInv
<1>7. CASE TruncateCheckPoint
  BY <1>7 DEF TruncateCheckPoint, Inv, TypeOK, WorkerTypes
<1>8. CASE WriteCheckPoint
  BY <1>8 DEF WriteCheckPoint, Inv, TypeOK, WorkerTypes
<1>9. CASE WhileTest
  BY <1>9 DEF WhileTest, AnotherTask, Inv, TypeOK, WorkerTypes
<1>10. CASE CrashServer
  BY <1>10 DEF CrashServer, Inv, TypeOK, WorkerTypes
<1>11. CASE PickSlave
  <2>1. comm[cur] \in Comms
    BY <1>11, LoopFacts, PickSends
  <2>2. Head(queue) \in Task
    BY <1>11, PickSends, HeadTail DEF Inv, TypeOK, MasterTypes
  <2>3. inbox' \in [Comms -> Seq(Task)]
    <3>1. inbox' = [inbox EXCEPT ![comm[cur]] = Append(@, Head(queue))]
      BY <1>11, PickSends
    <3>2. Append(inbox[comm[cur]], Head(queue)) \in Seq(Task)
      BY <2>1, <2>2 DEF Inv, TypeOK, WorkerTypes
    <3> QED  BY <3>1, <3>2 DEF Inv, TypeOK, WorkerTypes
  <2>4. UNCHANGED <<wst, hdr, echo, res, nextComm, comm, faults>>
    BY <1>11, PickSends
  <2> QED  BY <2>3, <2>4 DEF Inv, TypeOK, WorkerTypes
<1>12. CASE SkipSlot
  BY <1>12 DEF SkipSlot, Inv, TypeOK, WorkerTypes
<1>13. CASE EndOfRecv
  BY <1>13 DEF EndOfRecv, Return, Inv, TypeOK, WorkerTypes
<1>14. ASSUME NEW h \in {0, 1}, Probe(h) PROVE WorkerTypes'
  <2>1. faults' \in 0 .. MaxFaults
    BY <1>14, SlotFacts DEF Probe, Inv, TypeOK, WorkerTypes
  <2>2. hdr' \in [Comms -> Seq({0, 1})]
    BY <1>14, LoopFacts DEF Probe, Inv, TypeOK, WorkerTypes
  <2> QED  BY <1>14, <2>1, <2>2 DEF Probe, Inv, TypeOK, WorkerTypes
<1>15. CASE Alive
  BY <1>15, LoopFacts DEF Alive, Inv, TypeOK, WorkerTypes
<1>16. CASE ProbeTimeout
  <2>1. faults' \in 0 .. MaxFaults
    BY <1>16, SlotFacts DEF ProbeTimeout, set_task_failed,
           RespawnWorker, Inv, TypeOK, WorkerTypes
  <2>2. comm' \in [Slots -> 0 .. MaxComm] /\ nextComm' \in Nat
    <3>1. nextComm \in 0 .. MaxComm
      BY <1>16, SlotFacts DEF ProbeTimeout, set_task_failed,
           RespawnWorker, Comms
    <3>2. comm' = [comm EXCEPT ![it] = nextComm] /\ nextComm' = nextComm + 1
      BY <1>16 DEF ProbeTimeout, set_task_failed,
           RespawnWorker
    <3>3. nextComm' \in Nat
      BY <3>2 DEF Inv, TypeOK, WorkerTypes
    <3>4. comm \in [Slots -> 0 .. MaxComm]
      BY DEF Inv, TypeOK, WorkerTypes
    <3>5. comm' \in [Slots -> 0 .. MaxComm]
      BY <3>1, <3>2, <3>4
    <3> QED  BY <3>3, <3>5
  <2>3. wst' \in [Comms -> {"unborn", "idle", "task", "exited"}]
    BY <1>16 DEF ProbeTimeout, set_task_failed,
           RespawnWorker, Inv, TypeOK, WorkerTypes
  <2> QED  BY <1>16, <2>1, <2>2, <2>3 DEF ProbeTimeout, set_task_failed,
           RespawnWorker, Inv, TypeOK, WorkerTypes
<1>17. CASE ReceiveResult
  <2>1. res' \in [Comms -> Seq(Task)]
    BY <1>17, LoopFacts DEF ReceiveResult, putMergeTask, Inv, TypeOK, WorkerTypes
  <2> QED  BY <1>17, <2>1 DEF ReceiveResult, putMergeTask, Inv, TypeOK, WorkerTypes
<1>18. CASE send_quit_to_slaves
  BY <1>18 DEF send_quit_to_slaves, Inv, TypeOK, WorkerTypes
<1>19. CASE finish_solving
  BY <1>19 DEF finish_solving, Inv, TypeOK, WorkerTypes
<1>20. CASE MirrorTakesOver
  <2>1. nextComm = MaxChildren + 1
    BY <1>20, TakeoverFacts
  <2>2. comm' \in [Slots -> 0 .. MaxComm] /\ nextComm' \in Nat
    BY <1>20, <2>1, SlotFacts DEF MirrorTakesOver, spawn_workers
  <2>3. wst' \in [Comms -> {"unborn", "idle", "task", "exited"}]
    BY <1>20 DEF MirrorTakesOver, spawn_workers, Inv, TypeOK, WorkerTypes
  <2> QED  BY <1>20, <2>2, <2>3 DEF MirrorTakesOver, spawn_workers, Inv, TypeOK,
              WorkerTypes
<1>21. CASE MirrorIsReleased
  BY <1>21 DEF MirrorIsReleased, Inv, TypeOK, WorkerTypes
<1>22. ASSUME NEW c \in Comms, WorkerHeader(c) PROVE WorkerTypes'
  <2>1. hdr' \in [Comms -> Seq({0, 1})]
    BY <1>22 DEF WorkerHeader, Inv, TypeOK, WorkerTypes
  <2>2. echo' \in [Comms -> Seq({0})]
    <3>1. Append(echo[c], 0) \in Seq({0})
      BY DEF Inv, TypeOK, WorkerTypes
    <3>2. echo' \in {echo, [echo EXCEPT ![c] = Append(@, 0)]}
      BY <1>22 DEF WorkerHeader
    <3> QED  BY <3>1, <3>2 DEF Inv, TypeOK, WorkerTypes
  <2>3. wst' \in [Comms -> {"unborn", "idle", "task", "exited"}]
    BY <1>22 DEF WorkerHeader, Inv, TypeOK, WorkerTypes
  <2> QED  BY <1>22, <2>1, <2>2, <2>3 DEF WorkerHeader, Inv, TypeOK, WorkerTypes
<1>23. ASSUME NEW c \in Comms, WorkerSolve(c) PROVE WorkerTypes'
  <2>1. SortTask(computeResult(Head(inbox[c]))) \in Task
    <3>1. Head(inbox[c]) \in TaskOrNull
      BY <1>23, HeadTail DEF WorkerSolve, Inv, TypeOK, WorkerTypes, TaskOrNull
    <3> QED  BY <3>1, TaskFacts
  <2> QED  BY <1>23, <2>1 DEF WorkerSolve, Inv, TypeOK, WorkerTypes
<1>24. ASSUME NEW c \in Comms, WorkerTimeout(c) PROVE WorkerTypes'
  <2>1. faults' \in 0 .. MaxFaults
    BY <1>24, SlotFacts DEF WorkerTimeout, Inv, TypeOK, WorkerTypes
  <2> QED  BY <1>24, <2>1 DEF WorkerTimeout, Inv, TypeOK, WorkerTypes
<1>25. ASSUME NEW c \in Comms, WorkerDeath(c) PROVE WorkerTypes'
  <2>1. faults' \in 0 .. MaxFaults
    BY <1>25, SlotFacts DEF WorkerDeath, Inv, TypeOK, WorkerTypes
  <2> QED  BY <1>25, <2>1 DEF WorkerDeath, Inv, TypeOK, WorkerTypes
<1>26. CASE MasterDeath \/ MirrorDeath
  BY <1>26 DEF MasterDeath, MirrorDeath, Inv, TypeOK, WorkerTypes
<1>27. CASE UNCHANGED vars
  BY <1>27 DEF Inv, TypeOK, WorkerTypes
<1> QED
  BY <1>1, <1>2, <1>3, <1>4, <1>5, <1>6, <1>7, <1>8, <1>9, <1>10, <1>11,
     <1>12, <1>13, <1>14, <1>15, <1>16, <1>17, <1>18, <1>19, <1>20, <1>21,
     <1>22, <1>23, <1>24, <1>25, <1>26, <1>27
     DEF Next, Setup, MainLoop, CheckRecv, Finish, Worker

LEMMA PhaseStep == Inv /\ [Next]_vars => PhaseInv'
<1> SUFFICES ASSUME Inv, [Next]_vars PROVE PhaseInv'
  OBVIOUS
<1> USE DEF vars, manager, loopVars, mirrorVars, disk, chans, workers
<1>1. CASE MirrorSendsTasks
  BY <1>1 DEF MirrorSendsTasks, Inv, PhaseInv, Gathering
<1>2. CASE ReceiveTask
  BY <1>2 DEF ReceiveTask, Inv, PhaseInv, Gathering, TypeOK, MasterTypes,
     MirrorTypes
<1>3. CASE EndOfGather
  BY <1>3 DEF EndOfGather, Inv, PhaseInv, Gathering
<1>4. CASE Barrier
  BY <1>4 DEF Barrier, Inv, PhaseInv, Gathering
<1>5. CASE MirrorDeserializes
  BY <1>5 DEF MirrorDeserializes, Inv, PhaseInv, Gathering
<1>6. CASE SpawnWorkers
  BY <1>6, SlotFacts DEF SpawnWorkers, spawn_workers, main_loop, Inv,
     PhaseInv, Gathering, Comms
<1>7. CASE TruncateCheckPoint
  BY <1>7 DEF TruncateCheckPoint, Inv, PhaseInv, Gathering
<1>8. CASE WriteCheckPoint
  BY <1>8 DEF WriteCheckPoint, Inv, PhaseInv, Gathering, LoopInv
<1>9. CASE WhileTest
  BY <1>9 DEF WhileTest, AnotherTask, Inv, PhaseInv, Gathering
<1>10. CASE CrashServer
  BY <1>10 DEF CrashServer, Inv, PhaseInv, Gathering
<1>11. CASE PickSlave
  BY <1>11, PickSends DEF Inv, PhaseInv, Gathering
<1>12. CASE SkipSlot
  BY <1>12 DEF SkipSlot, Inv, PhaseInv, Gathering
<1>13. CASE EndOfRecv
  BY <1>13 DEF EndOfRecv, Return, Inv, PhaseInv, Gathering
<1>14. ASSUME NEW h \in {0, 1}, Probe(h) PROVE PhaseInv'
  BY <1>14 DEF Probe, Inv, PhaseInv, Gathering
<1>15. CASE Alive
  BY <1>15 DEF Alive, Inv, PhaseInv, Gathering
<1>16. CASE ProbeTimeout
  BY <1>16, SlotFacts, LoopFacts DEF ProbeTimeout, set_task_failed,
           RespawnWorker, Inv, PhaseInv, Gathering,
     Comms, TypeOK, WorkerTypes
<1>17. CASE ReceiveResult
  BY <1>17 DEF ReceiveResult, putMergeTask, Return, Inv, PhaseInv, Gathering
<1>18. CASE send_quit_to_slaves
  BY <1>18 DEF send_quit_to_slaves, Inv, PhaseInv, Gathering
<1>19. CASE finish_solving
  BY <1>19 DEF finish_solving, Inv, PhaseInv, Gathering
<1>20. CASE MirrorTakesOver
  BY <1>20, SlotFacts, TakeoverFacts DEF MirrorTakesOver, spawn_workers,
     main_loop, Inv, PhaseInv, Gathering, Comms
<1>21. CASE MirrorIsReleased
  BY <1>21 DEF MirrorIsReleased, Inv, PhaseInv, Gathering
<1>22. ASSUME NEW c \in Comms, WorkerHeader(c) PROVE PhaseInv'
  BY <1>22 DEF WorkerHeader, Inv, PhaseInv, Gathering
<1>23. ASSUME NEW c \in Comms, WorkerSolve(c) PROVE PhaseInv'
  BY <1>23 DEF WorkerSolve, Inv, PhaseInv, Gathering
<1>24. ASSUME NEW c \in Comms, WorkerTimeout(c) PROVE PhaseInv'
  BY <1>24 DEF WorkerTimeout, InService, Inv, PhaseInv, Gathering
<1>25. ASSUME NEW c \in Comms, WorkerDeath(c) PROVE PhaseInv'
  BY <1>25 DEF WorkerDeath, InService, Inv, PhaseInv, Gathering
<1>26. CASE MasterDeath \/ MirrorDeath
  BY <1>26 DEF MasterDeath, MirrorDeath, Inv, PhaseInv, Gathering
<1>27. CASE UNCHANGED vars
  BY <1>27 DEF Inv, PhaseInv, Gathering
<1> QED
  BY <1>1, <1>2, <1>3, <1>4, <1>5, <1>6, <1>7, <1>8, <1>9, <1>10, <1>11,
     <1>12, <1>13, <1>14, <1>15, <1>16, <1>17, <1>18, <1>19, <1>20, <1>21,
     <1>22, <1>23, <1>24, <1>25, <1>26, <1>27
     DEF Next, Setup, MainLoop, CheckRecv, Finish, Worker

LEMMA LoopStep ==
  ASSUME NoTornTakeover
  PROVE  Inv /\ [Next]_vars => LoopInv'
<1> SUFFICES ASSUME Inv, [Next]_vars PROVE LoopInv'
  OBVIOUS
<1> USE DEF vars, manager, loopVars, mirrorVars, disk, chans, workers
<1>1. CASE MirrorSendsTasks
  BY <1>1 DEF MirrorSendsTasks, Inv, LoopInv, Gathering, NoneOut, OneOut,
     OnlySent
<1>2. CASE ReceiveTask
  BY <1>2 DEF ReceiveTask, Inv, LoopInv, Gathering, NoneOut, OneOut, OnlySent,
     PhaseInv
<1>3. CASE EndOfGather
  BY <1>3 DEF EndOfGather, Inv, LoopInv, Gathering, NoneOut, OneOut, OnlySent,
     PhaseInv
<1>4. CASE Barrier
  BY <1>4 DEF Barrier, Inv, LoopInv, Gathering, NoneOut, OneOut, OnlySent,
     PhaseInv
<1>5. CASE MirrorDeserializes
  BY <1>5 DEF MirrorDeserializes, Inv, LoopInv, Gathering, NoneOut, OneOut,
     OnlySent
<1>6. CASE SpawnWorkers
  <2>1. Len(queue) >= 1
    BY <1>6 DEF SpawnWorkers, Inv, PhaseInv, TypeOK, MasterTypes
  <2> QED  BY <1>6, <2>1 DEF SpawnWorkers, main_loop, LoopInv, NoneOut, OnlySent
<1>7. CASE TruncateCheckPoint
  BY <1>7 DEF TruncateCheckPoint, Inv, LoopInv, Gathering, NoneOut, OneOut,
     OnlySent
<1>8. CASE WriteCheckPoint
  BY <1>8 DEF WriteCheckPoint, Inv, LoopInv, Gathering, NoneOut, OneOut,
     OnlySent
<1>9. CASE WhileTest
  <2>1. ~Gathering /\ NoneOut /\ inq \in Int /\ inq >= 1
    BY <1>9 DEF WhileTest, AnotherTask, Inv, LoopInv, PhaseInv, Gathering, TypeOK,
       MasterTypes
  <2>2. ~Gathering' /\ NoneOut' /\ inq' >= 1
    BY <1>9, <2>1 DEF WhileTest, AnotherTask, Gathering, NoneOut, OnlySent
  <2>3. \/ pc' = "truncate" /\ ret' = "find" /\ inq' > 1
        \/ pc' = "quit"
    BY <1>9, <2>1 DEF WhileTest, AnotherTask, NoneOut
  <2> QED  BY <2>2, <2>3 DEF LoopInv
<1>10. CASE CrashServer
  BY <1>10 DEF CrashServer, Inv, LoopInv, Gathering, NoneOut, OneOut, OnlySent
<1>11. CASE PickSlave
  <2>1. /\ pc' = "recv" /\ ret' = "loop" /\ it' = 0 /\ cur' = cur
        /\ queue' = Tail(queue) /\ queue # <<>> /\ torecv' = torecv + 1 /\ inq' = inq
        /\ buffered' = [buffered EXCEPT ![cur] = Head(queue)]
        /\ sent' = [sent EXCEPT ![cur] = TRUE]
    BY <1>11, PickSends
  <2>2. NoneOut /\ inq > 1
    BY <1>11, LoopFacts DEF PickSlave
  <2>3. torecv' = 1 /\ inq' = Len(queue') + 1 /\ buffered'[cur] \in Task
    BY <2>1, <2>2, HeadTail DEF NoneOut, Inv, TypeOK, MasterTypes
  <2>4. \A s \in Slots : sent'[s] <=> s \in {cur}
    BY <2>1, <2>2 DEF NoneOut, OnlySent, Inv, TypeOK, MasterTypes
  <2>5. OneOut' /\ it' <= cur'
    BY <2>1, <2>3, <2>4, SlotFacts DEF OneOut, OnlySent, Inv, TypeOK,
       MasterTypes
  <2> QED  BY <2>1, <2>2, <2>5 DEF LoopInv
<1>12. CASE SkipSlot
  BY <1>12, SlotFacts DEF SkipSlot, Inv, LoopInv, Gathering, NoneOut, OneOut,
     OnlySent, TypeOK, MasterTypes
<1>13. CASE EndOfRecv
  <2>1. NoneOut /\ ret = "loop" /\ inq > 1 /\ inq \in Int
    BY <1>13, SlotFacts DEF EndOfRecv, Inv, LoopInv, TypeOK, MasterTypes
  <2> QED  BY <1>13, <2>1 DEF EndOfRecv, Return, LoopInv, NoneOut, OnlySent
<1>14. ASSUME NEW h \in {0, 1}, Probe(h) PROVE LoopInv'
  <2>1. OneOut /\ it = cur /\ ret = "loop" /\ inq > 1
    BY <1>14, LoopFacts DEF Probe, Inv, LoopInv, NoneOut, OneOut, OnlySent
  <2> QED  BY <1>14, <2>1 DEF Probe, LoopInv, OneOut, OnlySent
<1>15. CASE Alive
  BY <1>15 DEF Alive, Inv, LoopInv, Gathering, NoneOut, OneOut, OnlySent
<1>16. CASE ProbeTimeout
  <2>1. /\ OneOut /\ it = cur /\ ret = "loop" /\ inq > 1 /\ buffered[it] # NoTask
        /\ it \in Slots
    BY <1>16, LoopFacts, TaskFacts DEF ProbeTimeout, set_task_failed,
           RespawnWorker, Inv, LoopInv
  <2>2. /\ pc' = "recv" /\ ret' = ret /\ inq' = inq
        /\ queue' = Append(queue, buffered[it]) /\ torecv' = torecv - 1
        /\ sent' = [sent EXCEPT ![it] = FALSE]
    BY <1>16, <2>1 DEF ProbeTimeout, set_task_failed,
           RespawnWorker
  <2>3. torecv' = 0 /\ inq' = Len(queue')
    BY <2>1, <2>2 DEF OneOut, Inv, TypeOK, MasterTypes
  <2>4. \A s \in Slots : sent'[s] <=> s \in {}
    BY <2>1, <2>2 DEF OneOut, OnlySent, Inv, TypeOK, MasterTypes
  <2> QED  BY <2>1, <2>2, <2>3, <2>4 DEF LoopInv, NoneOut, OnlySent
<1>17. CASE ReceiveResult
  <2>1. /\ OneOut /\ it = cur /\ ret = "loop" /\ inq > 1
    BY <1>17, LoopFacts DEF ReceiveResult, putMergeTask, Inv, LoopInv
  <2>2. /\ pc' = "loop" /\ ret' = ret /\ torecv' = torecv - 1
        /\ sent' = [sent EXCEPT ![it] = FALSE]
        /\ \/ inq' = inq - 1 /\ queue' = queue
           \/ inq' = inq /\ \E t : queue' = Append(queue, t)
    BY <1>17, <2>1 DEF ReceiveResult, putMergeTask, Return
  <2>3. torecv' = 0 /\ inq' = Len(queue') /\ inq' >= 1
    BY <2>1, <2>2 DEF OneOut, Inv, TypeOK, MasterTypes
  <2>4. \A s \in Slots : sent'[s] <=> s \in {}
    BY <2>1, <2>2 DEF OneOut, OnlySent, Inv, TypeOK, MasterTypes
  <2> QED  BY <2>2, <2>3, <2>4 DEF LoopInv, NoneOut, OnlySent
<1>18. CASE send_quit_to_slaves
  BY <1>18 DEF send_quit_to_slaves, Inv, LoopInv, Gathering, NoneOut, OneOut,
     OnlySent
<1>19. CASE finish_solving
  BY <1>19 DEF finish_solving, Inv, LoopInv, Gathering, NoneOut, OneOut,
     OnlySent
<1>20. CASE MirrorTakesOver
  <2>1. mirror.queue # <<>> /\ mirror.queue \in Seq(Task)
    BY <1>20, TakeoverFacts DEF MirrorTakesOver, NoTornTakeover, Inv, MirrorInv,
       TypeOK, MirrorTypes, CheckPointFile
  <2>2. Len(mirror.queue) >= 1
    BY <2>1
  <2> QED  BY <1>20, <2>2 DEF MirrorTakesOver, main_loop, LoopInv, NoneOut,
     OnlySent
<1>21. CASE MirrorIsReleased
  BY <1>21 DEF MirrorIsReleased, Inv, LoopInv, Gathering, NoneOut, OneOut,
     OnlySent
<1>22. ASSUME NEW c \in Comms, WorkerHeader(c) PROVE LoopInv'
  BY <1>22 DEF WorkerHeader, Inv, LoopInv, Gathering, NoneOut, OneOut, OnlySent
<1>23. ASSUME NEW c \in Comms, WorkerSolve(c) PROVE LoopInv'
  BY <1>23 DEF WorkerSolve, Inv, LoopInv, Gathering, NoneOut, OneOut, OnlySent
<1>24. ASSUME NEW c \in Comms, WorkerTimeout(c) PROVE LoopInv'
  BY <1>24 DEF WorkerTimeout, InService, Inv, LoopInv, Gathering, NoneOut,
     OneOut, OnlySent
<1>25. ASSUME NEW c \in Comms, WorkerDeath(c) PROVE LoopInv'
  BY <1>25 DEF WorkerDeath, InService, Inv, LoopInv, Gathering, NoneOut,
     OneOut, OnlySent
<1>26. CASE MasterDeath \/ MirrorDeath
  BY <1>26 DEF MasterDeath, MirrorDeath, Inv, LoopInv, Gathering, NoneOut, OneOut, OnlySent
<1>27. CASE UNCHANGED vars
  BY <1>27 DEF Inv, LoopInv, Gathering, NoneOut, OneOut, OnlySent
<1> QED
  BY <1>1, <1>2, <1>3, <1>4, <1>5, <1>6, <1>7, <1>8, <1>9, <1>10, <1>11,
     <1>12, <1>13, <1>14, <1>15, <1>16, <1>17, <1>18, <1>19, <1>20, <1>21,
     <1>22, <1>23, <1>24, <1>25, <1>26, <1>27
     DEF Next, Setup, MainLoop, CheckRecv, Finish, Worker

LEMMA MirrorStep == Inv /\ [Next]_vars => MirrorInv'
<1> SUFFICES ASSUME Inv, [Next]_vars PROVE MirrorInv'
  OBVIOUS
<1> USE DEF vars, manager, loopVars, mirrorVars, disk, chans, workers
<1>1. CASE MirrorSendsTasks
  BY <1>1 DEF MirrorSendsTasks, Inv, MirrorInv, Gathering
<1>2. CASE ReceiveTask
  BY <1>2 DEF ReceiveTask, Inv, MirrorInv, Gathering, PhaseInv
<1>3. CASE EndOfGather
  BY <1>3 DEF EndOfGather, Inv, MirrorInv, Gathering, PhaseInv
<1>4. CASE Barrier
  BY <1>4 DEF Barrier, Inv, MirrorInv, Gathering, PhaseInv
<1>5. CASE MirrorDeserializes
  BY <1>5, CheckPointFacts DEF MirrorDeserializes, Inv, MirrorInv, Gathering,
     PhaseInv, TypeOK, MasterTypes
<1>6. CASE SpawnWorkers
  <2>1. Gathering /\ nextComm = 1 /\ mpc \notin {"send", "barrier"} /\ active = 0
    BY <1>6 DEF SpawnWorkers, Inv, PhaseInv, MirrorInv
  <2> QED  BY <1>6, <2>1, SlotFacts DEF SpawnWorkers, spawn_workers,
     main_loop, Inv,
              MirrorInv, Gathering
<1>7. CASE TruncateCheckPoint
  BY <1>7 DEF TruncateCheckPoint, Inv, MirrorInv, Gathering
<1>8. CASE WriteCheckPoint
  BY <1>8 DEF WriteCheckPoint, Inv, MirrorInv, Gathering
<1>9. CASE WhileTest
  <2>1. pc' \in {"truncate", "quit"} /\ ~Gathering
    BY <1>9 DEF WhileTest, AnotherTask, Inv, LoopInv, PhaseInv, Gathering, NoneOut, TypeOK,
       MasterTypes
  <2> QED  BY <1>9, <2>1 DEF WhileTest, AnotherTask, Inv, MirrorInv, Gathering
<1>10. CASE CrashServer
  <2>1. ~Gathering /\ ret = "find" /\ ServerCrash /\ active = 0 /\ notice = <<>>
    BY <1>10 DEF CrashServer, Inv, LoopInv, MirrorInv, Gathering
  <2>2. notice' = <<111>>
    BY <1>10, <2>1 DEF CrashServer
  <2> QED  BY <1>10, <2>1, <2>2 DEF CrashServer, Inv, MirrorInv, Gathering
<1>11. CASE PickSlave
  BY <1>11, PickSends, LoopFacts DEF Inv, MirrorInv, Gathering
<1>12. CASE SkipSlot
  BY <1>12 DEF SkipSlot, Inv, MirrorInv, Gathering
<1>13. CASE EndOfRecv
  BY <1>13 DEF EndOfRecv, Return, Inv, MirrorInv, Gathering
<1>14. ASSUME NEW h \in {0, 1}, Probe(h) PROVE MirrorInv'
  BY <1>14 DEF Probe, Inv, MirrorInv, Gathering
<1>15. CASE Alive
  BY <1>15 DEF Alive, Inv, MirrorInv, Gathering
<1>16. CASE ProbeTimeout
  BY <1>16 DEF ProbeTimeout, set_task_failed,
           RespawnWorker, Inv, MirrorInv, Gathering
<1>17. CASE ReceiveResult
  BY <1>17 DEF ReceiveResult, putMergeTask, Return, Inv, MirrorInv, Gathering
<1>18. CASE send_quit_to_slaves
  BY <1>18 DEF send_quit_to_slaves, Inv, MirrorInv, Gathering
<1>19. CASE finish_solving
  <2>1. ~Gathering /\ queue # <<>>
    BY <1>19 DEF finish_solving, Inv, LoopInv, PhaseInv, Gathering, NoneOut,
       TypeOK, MasterTypes
  <2> QED  BY <1>19, <2>1 DEF finish_solving, Inv, MirrorInv, Gathering
<1>20. CASE MirrorTakesOver
  <2>1. notice = <<111>>
    BY <1>20, TakeoverFacts
  <2>2. /\ notice' = <<>> /\ active' = 1 /\ mpc' = "leads"
        /\ pc' = "loop" /\ ret' = "loop"
    BY <1>20, <2>1 DEF MirrorTakesOver, main_loop
  <2> QED  BY <2>2 DEF MirrorInv
<1>21. CASE MirrorIsReleased
  <2>1. notice = <<1>>
    BY <1>21 DEF MirrorIsReleased, Inv, MirrorInv
  <2>2. notice' = <<>>
    BY <1>21, <2>1 DEF MirrorIsReleased
  <2> QED  BY <1>21, <2>1, <2>2 DEF MirrorIsReleased, Inv, MirrorInv, Gathering
<1>22. ASSUME NEW c \in Comms, WorkerHeader(c) PROVE MirrorInv'
  BY <1>22 DEF WorkerHeader, Inv, MirrorInv, Gathering
<1>23. ASSUME NEW c \in Comms, WorkerSolve(c) PROVE MirrorInv'
  BY <1>23 DEF WorkerSolve, Inv, MirrorInv, Gathering
<1>24. ASSUME NEW c \in Comms, WorkerTimeout(c) PROVE MirrorInv'
  BY <1>24 DEF WorkerTimeout, InService, Inv, MirrorInv, Gathering
<1>25. ASSUME NEW c \in Comms, WorkerDeath(c) PROVE MirrorInv'
  BY <1>25 DEF WorkerDeath, InService, Inv, MirrorInv, Gathering
<1>26. CASE MasterDeath \/ MirrorDeath
  BY <1>26 DEF MasterDeath, MirrorDeath, Inv, MirrorInv, Gathering, PhaseInv
<1>27. CASE UNCHANGED vars
  BY <1>27 DEF Inv, MirrorInv, Gathering
<1> QED
  BY <1>1, <1>2, <1>3, <1>4, <1>5, <1>6, <1>7, <1>8, <1>9, <1>10, <1>11,
     <1>12, <1>13, <1>14, <1>15, <1>16, <1>17, <1>18, <1>19, <1>20, <1>21,
     <1>22, <1>23, <1>24, <1>25, <1>26, <1>27
     DEF Next, Setup, MainLoop, CheckRecv, Finish, Worker

LEMMA ErrorStep == Inv /\ [Next]_vars => NoRunTimeError'
<1> SUFFICES ASSUME Inv, [Next]_vars PROVE NoRunTimeError'
  OBVIOUS
<1> USE DEF vars, manager, loopVars, mirrorVars, disk, chans, workers
<1>1. CASE PickSlave
  BY <1>1, PickSends DEF NoRunTimeError
<1>2. CASE finish_solving
  <2>1. queue # <<>>
    BY <1>2 DEF finish_solving, Inv, LoopInv, PhaseInv, Gathering, NoneOut,
       TypeOK,
       MasterTypes
  <2> QED  BY <1>2, <2>1 DEF finish_solving, NoRunTimeError
<1>3. CASE Setup
  BY <1>3 DEF Setup, MirrorSendsTasks, ReceiveTask, EndOfGather, Barrier,
     MirrorDeserializes, SpawnWorkers, main_loop, Inv, NoRunTimeError
<1>4. CASE TruncateCheckPoint \/ WriteCheckPoint \/ WhileTest \/ CrashServer
  BY <1>4 DEF TruncateCheckPoint, WriteCheckPoint, WhileTest, AnotherTask, CrashServer, Inv,
     NoRunTimeError
<1>5. CASE CheckRecv
  BY <1>5 DEF CheckRecv, SkipSlot, EndOfRecv, Probe, Alive, ProbeTimeout, set_task_failed, RespawnWorker,
    
     ReceiveResult, putMergeTask, Return, Inv, NoRunTimeError
<1>6. CASE send_quit_to_slaves \/ MirrorTakesOver \/ MirrorIsReleased
  BY <1>6 DEF send_quit_to_slaves, MirrorTakesOver, MirrorIsReleased, main_loop,
     Inv, NoRunTimeError
<1>7. CASE \E c \in Comms : Worker(c)
  BY <1>7 DEF Worker, WorkerHeader, WorkerSolve, WorkerTimeout, WorkerDeath,
     Inv,
     NoRunTimeError
<1>8. CASE MasterDeath \/ MirrorDeath
  BY <1>8 DEF MasterDeath, MirrorDeath, Inv, NoRunTimeError
<1>9. CASE UNCHANGED vars
  BY <1>9 DEF Inv, NoRunTimeError
<1> QED
  BY <1>1, <1>2, <1>3, <1>4, <1>5, <1>6, <1>7, <1>8, <1>9
     DEF Next, MainLoop, Finish

LEMMA InitInv == Init => Inv
<1> SUFFICES ASSUME Init PROVE Inv
  OBVIOUS
<1> USE TaskFacts, CheckPointFacts, SlotFacts, OwnTasksFacts DEF Init
<1>1. MasterTypes
  BY DEF MasterTypes
<1>2. MirrorTypes
  BY DEF MirrorTypes
<1>3. WorkerTypes
  BY DEF WorkerTypes
<1>4. PhaseInv
  BY DEF PhaseInv, Gathering
<1>5. LoopInv
  BY DEF LoopInv, Gathering
<1>6. MirrorInv
  BY DEF MirrorInv, Gathering
<1> QED
  BY <1>1, <1>2, <1>3, <1>4, <1>5, <1>6 DEF Inv, TypeOK, NoRunTimeError

(* The inductive invariant holds, provided a mirror that can be told to take
   over has read a whole checkpoint.                                       *)
THEOREM Invariance ==
  ASSUME NoTornTakeover
  PROVE  Spec => []Inv
<1>1. Inv /\ [Next]_vars => Inv'
  BY MasterTypesStep, MirrorTypesStep, WorkerTypesStep, PhaseStep, LoopStep,
     MirrorStep, ErrorStep DEF Inv, TypeOK
<1> QED  BY InitInv, <1>1, PTL DEF Spec

(* Every variable of the masters, the workers and the files keeps its type:
   in particular no requeued or merged task is garbage and no master uses an
   intercommunicator it was not given.                                     *)
THEOREM TypeCorrect ==
  ASSUME NoTornTakeover
  PROVE  Spec => []TypeOK
<1>1. Inv => TypeOK
  BY DEF Inv
<1> QED  BY Invariance, <1>1, PTL

(* No master, however many workers die or answer late, dereferences a NULL
   task in send_task() or finish_solving() or takes a remainder modulo a
   slaves_size of 0.                                                       *)
THEOREM NoErrors ==
  ASSUME NoTornTakeover
  PROVE  Spec => []NoRunTimeError
<1>1. Inv => NoRunTimeError
  BY DEF Inv
<1> QED  BY Invariance, <1>1, PTL

(* ntasks_in_queue and ntasks_to_receive count the tasks that main_loop()
   believes they count, and one task at most is out with a worker.         *)
THEOREM Counters ==
  ASSUME NoTornTakeover
  PROVE  Spec => []CountersAgree
<1>1. Inv => CountersAgree
  <2> SUFFICES ASSUME Inv, Solving, ~Gathering
               PROVE  /\ inq = Len(queue) + torecv
                      /\ torecv = Cardinality({s \in Slots : sent[s]})
                      /\ torecv \in {0, 1}
                      /\ \A s \in Slots : sent[s] => buffered[s] \in Task
    BY DEF CountersAgree
  <2>1. NoneOut \/ OneOut
    BY DEF Inv, LoopInv, PhaseInv, Solving
  <2>2. CASE NoneOut
    <3>1. {s \in Slots : sent[s]} = {}
      BY <2>2 DEF NoneOut, OnlySent
    <3>2. Cardinality({}) = 0
      BY FS_EmptySet
    <3>3. Cardinality({s \in Slots : sent[s]}) = 0
      BY <3>1, <3>2
    <3>4. torecv = 0 /\ inq = Len(queue) /\ \A s \in Slots : ~sent[s]
      BY <2>2 DEF NoneOut, OnlySent
    <3> QED  BY <3>3, <3>4 DEF Inv, TypeOK, MasterTypes
  <2>3. CASE OneOut
    <3>1. {s \in Slots : sent[s]} = {cur}
      BY <2>3 DEF OneOut, OnlySent, Inv, TypeOK, MasterTypes
    <3>2. Cardinality({cur}) = 1
      BY FS_Singleton
    <3> QED  BY <2>3, <3>1, <3>2 DEF OneOut, OnlySent, Inv, TypeOK, MasterTypes
  <2> QED  BY <2>1, <2>2, <2>3
<1> QED  BY Invariance, <1>1, PTL

-----------------------------------------------------------------------------
(* The tasks main() cuts the input into.                                   *)

LEMMA Division ==
  ASSUME NEW a \in Nat, NEW d \in Nat \ {0}
  PROVE  /\ a \div d \in Nat /\ (a \div d) * d \in Nat
         /\ (a \div d) * d <= a /\ a < (a \div d) * d + d
         /\ a % d = a - (a \div d) * d
OBVIOUS

LEMMA Multiples ==
  ASSUME NEW a \in Nat, NEW b \in Nat, NEW n \in Nat, a < b
  PROVE  a * n \in Nat /\ b * n \in Nat /\ a * n + n <= b * n
<1>1. (a + 1) * n = a * n + n
  OBVIOUS
<1>2. PICK d \in Nat : b = (a + 1) + d
  <2>1. b - (a + 1) \in Nat /\ b = (a + 1) + (b - (a + 1))
    OBVIOUS
  <2> QED  BY <2>1
<1>3. b * n = (a + 1) * n + d * n /\ d * n \in Nat /\ a * n \in Nat
  BY <1>2
<1> QED  BY <1>1, <1>3

(* Rank 0 has the first numbers of the file and rank 1 the others.         *)
LEMMA Shares ==
  /\ MyNumbers(0) \in Nat /\ MyNumbers(1) \in Nat
  /\ MyOffset(0) = 0 /\ MyOffset(1) = MyNumbers(0)
  /\ MyNumbers(0) + MyNumbers(1) = NumNumbers
BY SizesAssumption DEF MyNumbers, MyOffset, OrigSize

LEMMA Packets ==
  ASSUME NEW r \in {0, 1}
  PROVE  /\ NPackets(r) \in Nat /\ NPackets(r) * OptimSize \in Nat
         /\ MyNumbers(r) <= NPackets(r) * OptimSize
         /\ \A k \in Nat : k < NPackets(r) => k * OptimSize \in Nat /\ k * OptimSize < MyNumbers(r)
<1> DEFINE m == MyNumbers(r)
           d == OptimSize
           q == m \div d
           p == NPackets(r)
<1>1. m \in Nat /\ d \in Nat \ {0}
  BY Shares, SizesAssumption
<1>2. q \in Nat /\ q * d \in Nat /\ q * d <= m /\ m < q * d + d /\ m % d = m - q * d
  BY <1>1, Division
<1>3. p = IF m % d = 0 THEN q ELSE q + 1
  BY DEF NPackets
<1> HIDE DEF m, q, p
<1>4. (q + 1) * d = q * d + d
  BY <1>1, <1>2
<1>5. p \in Nat /\ p * d \in Nat /\ m <= p * d
  <2>1. CASE p = q
    BY <1>1, <1>2, <1>3, <2>1
  <2>2. CASE p = q + 1
    BY <1>1, <1>2, <1>4, <2>2
  <2> QED  BY <1>3, <2>1, <2>2
<1>6. ASSUME NEW k \in Nat, k < p PROVE k * d \in Nat /\ k * d < m
  <2>1. CASE k < q
    <3>1. k * d \in Nat /\ k * d + d <= q * d
      BY <1>1, <1>2, <2>1, Multiples
    <3> QED  BY <1>1, <1>2, <3>1
  <2>2. CASE ~(k < q)
    <3>1. k = q /\ m % d # 0
      BY <1>2, <1>3, <1>6, <2>2
    <3> QED  BY <1>1, <1>2, <3>1
  <2> QED  BY <2>1, <2>2
<1> QED  BY <1>5, <1>6 DEF p, m

(* Task k of a rank holds the numbers from k * OptimSize on of its share.  *)
Within(r, k, n) == /\ MyOffset(r) + k * OptimSize <= n
                   /\ n < MyOffset(r) + k * OptimSize + OptimSize
                   /\ n < MyOffset(r) + MyNumbers(r)

LEMMA NextTaskItems ==
  ASSUME NEW r \in {0, 1}, NEW k \in Nat
  PROVE  /\ \A n \in Input : n \in Items(next_task(r, k)) <=> Within(r, k, n)
         /\ next_task(r, k).kind = "sort" /\ next_task(r, k).b2 = NoBlock
         /\ ~next_task(r, k).b1.sorted
         /\ Items(next_task(r, k)) = next_task(r, k).b1.items
<1> DEFINE o == MyOffset(r)
           f == k * OptimSize
           m == MyNumbers(r)
           to == IF f + OptimSize <= m THEN f + OptimSize ELSE m
<1>1. o \in Nat /\ f \in Nat /\ m \in Nat /\ OptimSize \in Nat
  BY Shares, SizesAssumption
<1>2. /\ next_task(r, k) = SortTask([items |-> {o + i : i \in f .. to - 1}, sorted |-> FALSE])
      /\ \A n : Within(r, k, n) <=> (o + f <= n /\ n < o + f + OptimSize /\ n < o + m)
  BY DEF next_task, Within
<1> HIDE DEF o, f, m
<1>3. Items(next_task(r, k)) = {o + i : i \in f .. to - 1}
  BY <1>2 DEF Items, SortTask, NoBlock
<1>4. ASSUME NEW n \in Input
      PROVE  n \in {o + i : i \in f .. to - 1} <=> (o + f <= n /\ n < o + f + OptimSize /\ n < o + m)
  <2>1. n \in Int
    BY SizesAssumption DEF Input
  <2>2. to \in Nat
    BY <1>1
  <2>3. ASSUME o + f <= n, n < o + f + OptimSize, n < o + m PROVE n \in {o + i : i \in f .. to - 1}
    <3>1. n - o \in f .. to - 1 /\ n = o + (n - o)
      BY <1>1, <2>1, <2>2, <2>3
    <3> QED  BY <3>1
  <2>4. ASSUME NEW i \in f .. to - 1, n = o + i PROVE o + f <= n /\ n < o + f + OptimSize /\ n < o + m
    BY <1>1, <2>1, <2>2, <2>4
  <2> QED  BY <2>3, <2>4
<1> DEFINE new == {o + i : i \in f .. to - 1}
<1>5. /\ next_task(r, k) = SortTask([items |-> new, sorted |-> FALSE]) /\ Items(next_task(r, k)) = new
      /\ \A n \in Input : n \in new <=> Within(r, k, n)
  BY <1>2, <1>3, <1>4
<1> HIDE DEF new
<1>6. /\ next_task(r, k).kind = "sort" /\ next_task(r, k).b2 = NoBlock
      /\ ~next_task(r, k).b1.sorted /\ next_task(r, k).b1.items = new
  BY <1>5 DEF SortTask
<1> QED  BY <1>5, <1>6

LEMMA WithinOne ==
  ASSUME NEW r \in {0, 1}, NEW t \in {0, 1}, NEW k \in Nat, NEW l \in Nat, NEW n \in Input,
         Within(r, k, n), Within(t, l, n)
  PROVE  r = t /\ k = l
<1> DEFINE d == OptimSize
<1>1. n \in Int /\ d \in Nat \ {0} /\ k * d \in Nat /\ l * d \in Nat
  BY SizesAssumption DEF Input
<1>2. r = t
  BY <1>1, Shares DEF Within
<1>3. MyOffset(r) \in Nat
  BY Shares
<1>4. k * d < l * d + d /\ l * d < k * d + d
  BY <1>1, <1>2, <1>3 DEF Within
<1> HIDE DEF d
<1>5. ~(k < l)
  BY <1>1, <1>4, Multiples
<1>6. ~(l < k)
  BY <1>1, <1>4, Multiples
<1> QED  BY <1>2, <1>5, <1>6

LEMMA WithinSome ==
  ASSUME NEW n \in Input
  PROVE  \E r \in {0, 1} : \E k \in Nat : k < NPackets(r) /\ Within(r, k, n)
<1> DEFINE r == IF n < MyNumbers(0) THEN 0 ELSE 1
           x == n - MyOffset(r)
           d == OptimSize
           k == x \div d
<1>1. r \in {0, 1} /\ x \in Nat /\ x < MyNumbers(r) /\ n = MyOffset(r) + x /\ d \in Nat \ {0}
      /\ MyOffset(r) \in Nat /\ MyNumbers(r) \in Nat
  BY Shares, SizesAssumption DEF Input
<1>2. k \in Nat /\ k * d \in Nat /\ k * d <= x /\ x < k * d + d
  BY <1>1, Division
<1>3. NPackets(r) \in Nat /\ NPackets(r) * d \in Nat /\ MyNumbers(r) <= NPackets(r) * d
  BY <1>1, Packets
<1> HIDE DEF r, x, k
<1>4. k < NPackets(r)
  <2> SUFFICES ASSUME ~(k < NPackets(r)) PROVE FALSE
    OBVIOUS
  <2>1. CASE k = NPackets(r)
    BY <1>1, <1>2, <1>3, <2>1
  <2>2. CASE NPackets(r) < k
    <3>1. NPackets(r) * d + d <= k * d
      BY <1>1, <1>2, <1>3, <2>2, Multiples
    <3> QED  BY <1>1, <1>2, <1>3, <3>1
  <2> QED  BY <1>2, <1>3, <2>1, <2>2
<1>5. Within(r, k, n)
  BY <1>1, <1>2 DEF Within, d
<1> QED  BY <1>1, <1>2, <1>4, <1>5

LEMMA WithinFirst ==
  ASSUME NEW r \in {0, 1}, NEW k \in Nat, k < NPackets(r)
  PROVE  \E n \in Input : Within(r, k, n)
<1> DEFINE n == MyOffset(r) + k * OptimSize
<1>1. k * OptimSize \in Nat /\ k * OptimSize < MyNumbers(r)
  BY Packets
<1>2. n \in Input /\ Within(r, k, n)
  BY <1>1, Shares, SizesAssumption DEF Input, Within
<1> QED  BY <1>2

(* Task i of the two ranks together is task KOf(i) of rank ROf(i).          *)
ROf(i) == IF i <= NPackets(0) THEN 0 ELSE 1
KOf(i) == IF i <= NPackets(0) THEN i - 1 ELSE i - NPackets(0) - 1

LEMMA AllTasksFacts ==
  /\ AllTasks \in Seq(Task) /\ AllTasks # <<>> /\ Len(AllTasks) = NPackets(0) + NPackets(1)
  /\ NPackets(0) \in Nat /\ NPackets(1) \in Nat
  /\ \A i \in 1 .. Len(AllTasks) : /\ AllTasks[i] = next_task(ROf(i), KOf(i))
                                   /\ ROf(i) \in {0, 1} /\ KOf(i) \in Nat /\ KOf(i) < NPackets(ROf(i))
  /\ \A r \in {0, 1} : \A k \in Nat : k < NPackets(r) =>
       \E i \in 1 .. Len(AllTasks) : ROf(i) = r /\ KOf(i) = k
<1>1. NPackets(0) \in Nat /\ NPackets(1) \in Nat
  BY Packets
<1>2. ASSUME NEW r \in {0, 1}
      PROVE  Len(OwnTasks(r)) = NPackets(r) /\ \A i \in 1 .. NPackets(r) : OwnTasks(r)[i] = next_task(r, i - 1)
  BY <1>1 DEF OwnTasks
<1>3. /\ AllTasks \in Seq(Task) /\ Len(AllTasks) = Len(OwnTasks(0)) + Len(OwnTasks(1))
      /\ \A i \in 1 .. Len(OwnTasks(0)) + Len(OwnTasks(1)) :
           AllTasks[i] = IF i <= Len(OwnTasks(0)) THEN OwnTasks(0)[i] ELSE OwnTasks(1)[i - Len(OwnTasks(0))]
  BY OwnTasksFacts, ConcatProperties DEF AllTasks
<1>4. Len(AllTasks) = NPackets(0) + NPackets(1) /\ AllTasks # <<>>
  <2>1. NPackets(0) # 0
    BY <1>2, OwnTasksFacts, EmptySeq
  <2>2. Len(AllTasks) = NPackets(0) + NPackets(1)
    BY <1>2, <1>3
  <2>3. Len(AllTasks) # 0
    BY <1>1, <2>1, <2>2
  <2> QED  BY <2>2, <2>3, EmptySeq
<1>5. ASSUME NEW i \in 1 .. Len(AllTasks)
      PROVE  /\ AllTasks[i] = next_task(ROf(i), KOf(i))
             /\ ROf(i) \in {0, 1} /\ KOf(i) \in Nat /\ KOf(i) < NPackets(ROf(i))
  <2>1. CASE i <= NPackets(0)
    <3>1. i \in 1 .. NPackets(0) /\ AllTasks[i] = OwnTasks(0)[i]
      BY <1>1, <1>2, <1>3, <2>1
    <3> QED  BY <1>1, <1>2, <2>1, <3>1 DEF ROf, KOf
  <2>2. CASE ~(i <= NPackets(0))
    <3>0. Len(OwnTasks(0)) = NPackets(0) /\ i \in 1 .. Len(OwnTasks(0)) + Len(OwnTasks(1))
      BY <1>2, <1>3
    <3>1. i - NPackets(0) \in 1 .. NPackets(1) /\ AllTasks[i] = OwnTasks(1)[i - NPackets(0)]
      <4>1. i - NPackets(0) \in 1 .. NPackets(1)
        BY <1>1, <1>4, <2>2
      <4> QED  BY <1>3, <2>2, <3>0, <4>1
    <3>2. OwnTasks(1)[i - NPackets(0)] = next_task(1, (i - NPackets(0)) - 1)
      BY <1>2, <3>1
    <3>3. ROf(i) = 1 /\ KOf(i) = i - NPackets(0) - 1
      BY <2>2 DEF ROf, KOf
    <3>4. KOf(i) \in Nat /\ KOf(i) < NPackets(1)
      BY <1>1, <3>1, <3>3
    <3> QED  BY <3>1, <3>2, <3>3, <3>4
  <2> QED  BY <2>1, <2>2
<1>6. ASSUME NEW r \in {0, 1}, NEW k \in Nat, k < NPackets(r)
      PROVE  \E i \in 1 .. Len(AllTasks) : ROf(i) = r /\ KOf(i) = k
  <2>1. CASE r = 0
    <3>1. k + 1 \in 1 .. Len(AllTasks) /\ ROf(k + 1) = 0 /\ KOf(k + 1) = k
      BY <1>1, <1>4, <1>6, <2>1 DEF ROf, KOf
    <3> QED  BY <2>1, <3>1
  <2>2. CASE r = 1
    <3> DEFINE i == NPackets(0) + k + 1
    <3>1. i \in 1 .. Len(AllTasks) /\ ROf(i) = 1 /\ KOf(i) = k
      BY <1>1, <1>4, <1>6, <2>2 DEF ROf, KOf
    <3> QED  BY <2>2, <3>1
  <2> QED  BY <2>1, <2>2
<1> QED  BY <1>1, <1>3, <1>4, <1>5, <1>6

LEMMA AllTasksGood ==
  /\ \A i \in 1 .. Len(AllTasks) : GoodTask(AllTasks[i]) /\ ~AllTasks[i].b1.sorted /\ AllTasks[i].kind = "sort"
  /\ Split(AllTasks, {}, {})
<1>1. ASSUME NEW i \in 1 .. Len(AllTasks)
      PROVE  /\ \A n \in Input : n \in Items(AllTasks[i]) <=> Within(ROf(i), KOf(i), n)
             /\ GoodTask(AllTasks[i]) /\ ~AllTasks[i].b1.sorted /\ AllTasks[i].kind = "sort"
  <2> DEFINE t == next_task(ROf(i), KOf(i))
  <2>1. AllTasks[i] = t /\ ROf(i) \in {0, 1} /\ KOf(i) \in Nat /\ KOf(i) < NPackets(ROf(i))
    BY AllTasksFacts
  <2>2. /\ \A n \in Input : n \in Items(t) <=> Within(ROf(i), KOf(i), n)
        /\ t.kind = "sort" /\ t.b2 = NoBlock /\ ~t.b1.sorted /\ Items(t) = t.b1.items
    BY <2>1, NextTaskItems
  <2>3. \E n \in Input : Within(ROf(i), KOf(i), n)
    BY <2>1, WithinFirst
  <2> HIDE DEF t
  <2> QED  BY <2>1, <2>2, <2>3 DEF GoodTask
<1>2. ASSUME NEW n \in Input PROVE \E i \in 1 .. Len(AllTasks) : n \in Items(AllTasks[i])
  <2>1. PICK r \in {0, 1}, k \in Nat : k < NPackets(r) /\ Within(r, k, n)
    BY WithinSome
  <2>2. PICK i \in 1 .. Len(AllTasks) : ROf(i) = r /\ KOf(i) = k
    BY <2>1, AllTasksFacts
  <2> QED  BY <1>1, <2>1, <2>2
<1>3. ASSUME NEW n \in Input, NEW i \in 1 .. Len(AllTasks), NEW j \in 1 .. Len(AllTasks),
             n \in Items(AllTasks[i]), n \in Items(AllTasks[j])
      PROVE  i = j
  <2>1. /\ ROf(i) \in {0, 1} /\ KOf(i) \in Nat /\ Within(ROf(i), KOf(i), n)
        /\ ROf(j) \in {0, 1} /\ KOf(j) \in Nat /\ Within(ROf(j), KOf(j), n)
    BY <1>1, <1>3, AllTasksFacts
  <2>2. ROf(i) = ROf(j) /\ KOf(i) = KOf(j)
    BY <2>1, WithinOne
  <2> QED  BY <2>2, AllTasksFacts DEF ROf, KOf
<1> QED  BY <1>1, <1>2, <1>3 DEF Split

-----------------------------------------------------------------------------
(* Every number stays in one place. *)

LEMMA SplitTail ==
  ASSUME NEW q \in Seq(Task), q # <<>>, NEW m, Split(q, {}, m)
  PROVE  Split(Tail(q), Items(Head(q)), m)
<1>1. /\ Len(q) \in Nat \ {0} /\ Head(q) = q[1] /\ Len(Tail(q)) = Len(q) - 1
      /\ \A i \in 1 .. Len(q) - 1 : Tail(q)[i] = q[i + 1]
  BY EmptySeq, HeadTailProperties
<1> DEFINE t == Tail(q)
           h == Head(q)
           l == Len(q)
<1>2. /\ l \in Nat \ {0} /\ h = q[1] /\ Len(t) = l - 1 /\ Len(q) = l
      /\ \A i \in 1 .. l - 1 : t[i] = q[i + 1] /\ i + 1 \in 1 .. l /\ i + 1 # 1 /\ i \in Int
      /\ 1 \in 1 .. l
  BY <1>1
<1> HIDE DEF t, h, l
<1> SUFFICES ASSUME NEW n \in Input
             PROVE  /\ (\E i \in 1 .. l - 1 : n \in Items(t[i])) \/ n \in Items(h) \/ n \in m
                    /\ \A i, j \in 1 .. l - 1 : n \in Items(t[i]) /\ n \in Items(t[j]) => i = j
                    /\ \A i \in 1 .. l - 1 : n \in Items(t[i]) => n \notin Items(h) /\ n \notin m
                    /\ ~(n \in Items(h) /\ n \in m)
  BY <1>2 DEF Split, t, h
<1>3. /\ (\E i \in 1 .. l : n \in Items(q[i])) \/ n \in m
      /\ \A i, j \in 1 .. l : n \in Items(q[i]) /\ n \in Items(q[j]) => i = j
      /\ \A i \in 1 .. l : n \in Items(q[i]) => n \notin m
  BY <1>2 DEF Split
<1>4. (\E i \in 1 .. l - 1 : n \in Items(t[i])) \/ n \in Items(h) \/ n \in m
  <2> SUFFICES ASSUME NEW i \in 1 .. l, n \in Items(q[i]), i # 1
               PROVE  \E j \in 1 .. l - 1 : n \in Items(t[j])
    BY <1>2, <1>3
  <2>1. i - 1 \in 1 .. l - 1 /\ (i - 1) + 1 = i
    BY <1>2
  <2>2. t[i - 1] = q[i]
    BY <1>2, <2>1
  <2> QED  BY <2>1, <2>2
<1>5. \A i, j \in 1 .. l - 1 : n \in Items(t[i]) /\ n \in Items(t[j]) => i = j
  BY <1>2, <1>3
<1>6. \A i \in 1 .. l - 1 : n \in Items(t[i]) => n \notin Items(h) /\ n \notin m
  BY <1>2, <1>3
<1>7. ~(n \in Items(h) /\ n \in m)
  BY <1>2, <1>3
<1> QED  BY <1>4, <1>5, <1>6, <1>7

LEMMA SplitAppend ==
  ASSUME NEW q \in Seq(Task), NEW t \in Task, NEW b, NEW m, NEW k, Split(q, b, m),
         \A n \in Input : n \in Items(t) \/ n \in k <=> n \in b \/ n \in m,
         \A n \in Input : ~(n \in Items(t) /\ n \in k)
  PROVE  Split(Append(q, t), {}, k)
<1> DEFINE a == Append(q, t)
           l == Len(q)
<1>1. /\ l \in Nat /\ Len(a) = l + 1 /\ a[l + 1] = t /\ \A i \in 1 .. l : a[i] = q[i]
  BY AppendProperties, LenProperties
<1>2. Len(q) = l
  OBVIOUS
<1> HIDE DEF a, l
<1>3. \A i \in 1 .. l + 1 : i \in 1 .. l \/ i = l + 1
  BY <1>1
<1>4. \A i \in 1 .. l : i \in 1 .. l + 1 /\ i # l + 1
  BY <1>1
<1>5. l + 1 \in 1 .. l + 1
  BY <1>1
<1> SUFFICES ASSUME NEW n \in Input
             PROVE  /\ (\E i \in 1 .. l + 1 : n \in Items(a[i])) \/ n \in k
                    /\ \A i, j \in 1 .. l + 1 : n \in Items(a[i]) /\ n \in Items(a[j]) => i = j
                    /\ \A i \in 1 .. l + 1 : n \in Items(a[i]) => n \notin k
  BY <1>1 DEF Split, a
<1>6. /\ (\E i \in 1 .. l : n \in Items(q[i])) \/ n \in b \/ n \in m
      /\ \A i, j \in 1 .. l : n \in Items(q[i]) /\ n \in Items(q[j]) => i = j
      /\ \A i \in 1 .. l : n \in Items(q[i]) => n \notin b /\ n \notin m
  BY <1>2 DEF Split
<1>7. (\E i \in 1 .. l + 1 : n \in Items(a[i])) \/ n \in k
  BY <1>1, <1>4, <1>5, <1>6
<1>8. \A i \in 1 .. l + 1 : n \in Items(a[i]) => n \notin k
  BY <1>1, <1>3, <1>6
<1>9. \A i \in 1 .. l : n \in Items(a[i]) => n \notin Items(a[l + 1])
  BY <1>1, <1>6
<1>10. \A i, j \in 1 .. l + 1 : n \in Items(a[i]) /\ n \in Items(a[j]) => i = j
  BY <1>1, <1>3, <1>6, <1>9
<1> QED  BY <1>7, <1>8, <1>10

-----------------------------------------------------------------------------
(* Steps that touch neither the tasks nor the workers' messages. *)

Quiet ==
  \/ MirrorSendsTasks \/ EndOfGather \/ Barrier \/ MirrorDeserializes
  \/ TruncateCheckPoint \/ WriteCheckPoint \/ WhileTest \/ CrashServer
  \/ SkipSlot \/ EndOfRecv \/ (\E h \in {0, 1} : Probe(h)) \/ Alive
  \/ send_quit_to_slaves \/ MirrorIsReleased \/ MasterDeath \/ MirrorDeath
  \/ (\E c \in Comms : WorkerHeader(c) \/ WorkerTimeout(c) \/ WorkerDeath(c))
  \/ UNCHANGED vars

LEMMA StepKinds ==
  [Next]_vars =>
    \/ Quiet \/ ReceiveTask \/ SpawnWorkers \/ PickSlave \/ ProbeTimeout
    \/ ReceiveResult \/ finish_solving \/ MirrorTakesOver
    \/ \E c \in Comms : WorkerSolve(c)
BY DEF Next, Setup, MainLoop, CheckRecv, Finish, Worker, Quiet

LEMMA QuietFrame ==
  ASSUME Inv, Quiet
  PROVE  /\ UNCHANGED <<queue, buffered, merge1, cur, sent, inbox, res, comm, nextComm, output>>
         /\ pc' = "done" <=> pc = "done"
         /\ pc' = "gather" => pc = "gather"
         /\ pc = "gather" => pc' \in {"gather", "dead"} \/ EndOfGather
         /\ pc = "dead" => pc' = "dead"
         /\ Gathering' <=> Gathering
<1> USE DEF vars, manager, loopVars, mirrorVars, disk, chans, workers
<1>1. CASE MirrorSendsTasks \/ Barrier \/ MirrorDeserializes
  BY <1>1 DEF MirrorSendsTasks, Barrier, MirrorDeserializes, EndOfGather, Gathering, Inv, PhaseInv, MirrorInv
<1>2. CASE EndOfGather
  BY <1>2 DEF EndOfGather, Gathering, Inv, PhaseInv
<1>3. CASE TruncateCheckPoint \/ WriteCheckPoint
  BY <1>3 DEF TruncateCheckPoint, WriteCheckPoint, EndOfGather, Gathering
<1>4. CASE WhileTest
  <2>1. pc = "loop" /\ ~Gathering
    BY <1>4 DEF WhileTest, Inv, PhaseInv
  <2>2. pc' \in {"truncate", "quit", "recv"} /\ (ret' = ret \/ ret' \in {"find", "loop"})
    BY <1>4 DEF WhileTest
  <2>3. UNCHANGED <<queue, buffered, merge1, cur, sent, inbox, res, comm, nextComm, output>>
    BY <1>4 DEF WhileTest
  <2> QED  BY <2>1, <2>2, <2>3 DEF EndOfGather, Gathering
<1>5. CASE CrashServer \/ SkipSlot \/ EndOfRecv \/ Alive \/ send_quit_to_slaves \/ MirrorIsReleased \/ MasterDeath \/ MirrorDeath
  BY <1>5 DEF CrashServer, SkipSlot, EndOfRecv, Alive, send_quit_to_slaves, MirrorIsReleased, MasterDeath, MirrorDeath,
     Return, EndOfGather, Gathering, Inv, PhaseInv
<1>6. CASE \E h \in {0, 1} : Probe(h)
  BY <1>6 DEF Probe, EndOfGather, Gathering
<1>7. CASE \E c \in Comms : WorkerHeader(c) \/ WorkerTimeout(c) \/ WorkerDeath(c)
  BY <1>7 DEF WorkerHeader, WorkerTimeout, WorkerDeath, EndOfGather, Gathering
<1>8. CASE UNCHANGED vars
  BY <1>8 DEF EndOfGather, Gathering
<1> QED  BY <1>1, <1>2, <1>3, <1>4, <1>5, <1>6, <1>7, <1>8 DEF Quiet

(* The other steps, by what they change of tasks and messages.             *)
LEMMA SpawnEffect ==
  ASSUME Inv, GatherInv, SpawnWorkers
  PROVE  /\ pc = "spawn" /\ pc' = "loop" /\ Untouched /\ nextComm = 1 /\ active = 0
         /\ Gathering /\ ~Gathering' /\ ~Unsent /\ wire = <<>>
         /\ UNCHANGED <<queue, buffered, merge1, inbox, res, output, wire, mpc, active, file, mirror, notice>>
         /\ comm' = [s \in Slots |-> 1 + s] /\ nextComm' = 1 + MaxChildren
         /\ cur' = 0 /\ sent' = [s \in Slots |-> FALSE]
<1>1. pc = "spawn" /\ Gathering /\ nextComm = 1 /\ active = 0
  BY DEF SpawnWorkers, Inv, PhaseInv
<1>2. Untouched /\ ~Unsent /\ wire = <<>>
  BY <1>1 DEF GatherInv, Incomplete
<1> QED  BY <1>1, <1>2 DEF SpawnWorkers, spawn_workers, main_loop, Gathering, manager, mirrorVars, disk, chans

LEMMA TakeoverEffect ==
  ASSUME NoTornTakeover, Inv, CheckPointInv, MirrorTakesOver
  PROVE  /\ pc = "dead" /\ pc' = "loop" /\ Untouched' /\ nextComm = MaxChildren + 1
         /\ ~Gathering /\ ~Gathering' /\ mpc = "poll" /\ mpc' = "leads" /\ active' = 1
         /\ notice = <<111>> /\ notice' = <<>>
         /\ UNCHANGED <<inbox, res, output, wire, file, mirror>>
         /\ comm' = [s \in Slots |-> nextComm + s] /\ nextComm' = nextComm + MaxChildren
         /\ cur' = 0 /\ sent' = [s \in Slots |-> FALSE]
<1>1. /\ notice = <<111>> /\ pc = "dead" /\ ServerCrash /\ ret = "find" /\ nextComm = MaxChildren + 1
  BY TakeoverFacts
<1>2. mirror = FirstCheckPoint /\ mpc = "poll"
  BY <1>1 DEF CheckPointInv, MirrorTakesOver, NoTornTakeover
<1>3. Untouched'
  BY <1>2 DEF MirrorTakesOver, FirstCheckPoint, Untouched
<1>4. notice' = <<>>
  BY <1>1 DEF MirrorTakesOver
<1> QED  BY <1>1, <1>2, <1>3, <1>4 DEF MirrorTakesOver, spawn_workers, main_loop, Gathering, disk, chans

LEMMA PickEffect ==
  ASSUME Inv, PickSlave
  PROVE  /\ pc = "pick" /\ pc' = "recv" /\ ~Gathering /\ ~Gathering' /\ ~sent[cur] /\ comm[cur] \in Comms
         /\ queue \in Seq(Task) /\ queue # <<>> /\ queue' = Tail(queue) /\ Head(queue) \in Task
         /\ Len(queue) > 1 /\ cur \in Slots
         /\ buffered' = [buffered EXCEPT ![cur] = Head(queue)]
         /\ inbox' = [inbox EXCEPT ![comm[cur]] = Append(@, Head(queue))]
         /\ sent' = [sent EXCEPT ![cur] = TRUE]
         /\ UNCHANGED <<cur, merge1, res, comm, nextComm, output, wire, mpc, active, file, mirror, notice>>
<1>1. queue # <<>> /\ ~sent[cur] /\ comm[cur] \in Comms /\ inq > 1 /\ NoneOut /\ ~Gathering
  BY LoopFacts, PickSends
<1>2. queue \in Seq(Task) /\ cur \in Slots /\ Len(queue) > 1 /\ Head(queue) \in Task
  BY <1>1, HeadTail DEF NoneOut, Inv, TypeOK, MasterTypes
<1> QED  BY <1>1, <1>2, PickSends DEF Gathering, mirrorVars, disk

LEMMA TimeoutEffect ==
  ASSUME Inv, SlotInv, ProbeTimeout
  PROVE  /\ pc = "alive" /\ pc' = "recv" /\ ~Gathering /\ ~Gathering' /\ it = cur /\ cur \in Slots
         /\ sent[cur] /\ buffered[cur] \in Task /\ nextComm \in Comms
         /\ queue' = Append(queue, buffered[cur])
         /\ buffered' = [buffered EXCEPT ![cur] = NoTask]
         /\ sent' = [sent EXCEPT ![cur] = FALSE]
         /\ comm' = [comm EXCEPT ![cur] = nextComm] /\ nextComm' = nextComm + 1
         /\ UNCHANGED <<cur, merge1, inbox, res, output, wire, mpc, active, file, mirror, notice>>
<1>1. /\ pc = "alive" /\ ~Gathering /\ it = cur /\ cur \in Slots /\ sent[cur] /\ buffered[cur] \in Task
      /\ ret = "loop"
  BY LoopFacts DEF ProbeTimeout, Inv, LoopInv
<1>2. buffered[cur] # NoTask
  BY <1>1, TaskFacts
<1> QED  BY <1>1, <1>2 DEF ProbeTimeout, RespawnWorker, set_task_failed, Gathering, mirrorVars, disk, chans

LEMMA ResultEffect ==
  ASSUME Inv, ChannelInv, ReceiveResult
  PROVE  /\ pc = "result" /\ pc' = "loop" /\ ~Gathering /\ ~Gathering' /\ it = cur /\ cur \in Slots
         /\ sent[cur] /\ buffered[cur] \in Task /\ comm[cur] \in Comms
         /\ inbox[comm[cur]] = <<>> /\ res[comm[cur]] = <<SortTask(computeResult(buffered[cur]))>>
         /\ res' = [res EXCEPT ![comm[cur]] = <<>>]
         /\ buffered' = [buffered EXCEPT ![cur] = NoTask]
         /\ sent' = [sent EXCEPT ![cur] = FALSE]
         /\ LET r == SortTask(computeResult(buffered[cur]))
            IN  IF merge1 = NoTask THEN merge1' = r /\ UNCHANGED queue
                ELSE queue' = Append(queue, MergeTask(merge1.b1, r.b1)) /\ merge1' = NoTask
         /\ UNCHANGED <<cur, inbox, comm, nextComm, output, wire, mpc, active, file, mirror, notice>>
<1>1. /\ pc = "result" /\ ~Gathering /\ it = cur /\ cur \in Slots /\ sent[cur] /\ buffered[cur] \in Task
      /\ comm[cur] \in Comms /\ ret = "loop" /\ res[comm[cur]] # <<>>
  BY LoopFacts DEF ReceiveResult, Inv, LoopInv
<1> DEFINE r == SortTask(computeResult(buffered[cur]))
<1>2. inbox[comm[cur]] = <<>> /\ res[comm[cur]] = <<r>>
  BY <1>1 DEF ChannelInv, Waiting
<1> HIDE DEF r
<1>3. Head(<<r>>) = r /\ Tail(<<r>>) = <<>>
  OBVIOUS
<1>4. Head(res[comm[it]]) = r /\ Tail(res[comm[it]]) = <<>>
  BY <1>1, <1>2, <1>3
<1>5. /\ res' = [res EXCEPT ![comm[cur]] = <<>>] /\ pc' = "loop" /\ ~Gathering'
      /\ buffered' = [buffered EXCEPT ![cur] = NoTask] /\ sent' = [sent EXCEPT ![cur] = FALSE]
      /\ UNCHANGED <<cur, inbox, comm, nextComm, output, wire, mpc, active, file, mirror, notice>>
  BY <1>1, <1>4 DEF ReceiveResult, Return, Gathering, mirrorVars, disk
<1>6. IF merge1 = NoTask THEN merge1' = r /\ UNCHANGED queue
      ELSE queue' = Append(queue, MergeTask(merge1.b1, r.b1)) /\ merge1' = NoTask
  BY <1>4 DEF ReceiveResult, putMergeTask
<1> QED  BY <1>1, <1>2, <1>5, <1>6 DEF r

LEMMA FinishEffect ==
  ASSUME Inv, finish_solving
  PROVE  LET last == computeResult(Head(queue))
             all == IF merge1 = NoTask THEN last ELSE computeResult(MergeTask(last, merge1.b1))
         IN  /\ pc = "finish" /\ pc' = "done" /\ ~Gathering /\ ~Gathering'
             /\ queue # <<>> /\ queue' = Tail(queue)
             /\ output' = IF all.sorted THEN all ELSE output
             /\ UNCHANGED <<buffered, merge1, cur, sent, inbox, res, comm, nextComm, wire, mpc, active, file,
                            mirror, notice>>
<1>1. pc = "finish" /\ ~Gathering /\ ret # "barrier"
  BY DEF finish_solving, Inv, PhaseInv, Gathering
<1>2. queue # <<>>
  BY <1>1 DEF Inv, LoopInv, NoneOut, TypeOK, MasterTypes
<1> QED  BY <1>1, <1>2 DEF finish_solving, Gathering, loopVars, mirrorVars, workers, chans

LEMMA SolveEffect ==
  ASSUME NEW c \in Comms, WorkerSolve(c)
  PROVE  /\ wst[c] = "task" /\ inbox[c] # <<>>
         /\ inbox' = [inbox EXCEPT ![c] = Tail(@)]
         /\ res' = [res EXCEPT ![c] = Append(@, SortTask(computeResult(Head(inbox[c]))))]
         /\ UNCHANGED <<pc, active, queue, buffered, merge1, cur, sent, ret, comm, nextComm, output, wire, mpc,
                        file, mirror, notice>>
BY DEF WorkerSolve, manager, loopVars, mirrorVars, disk

LEMMA MoveOver ==
  ASSUME NEW a \in Seq(Task), NEW b \in Seq(Task), b # <<>>
  PROVE  Append(a, Head(b)) \o Tail(b) = a \o b
<1> DEFINE h == Head(b)
           t == Tail(b)
<1>1. h \in Task /\ t \in Seq(Task)
  BY HeadTailProperties
<1>2. b = <<h>> \o t
  BY HeadTailProperties
<1>3. Append(a, h) = a \o <<h>>
  BY <1>1, AppendIsConcat
<1> HIDE DEF h, t
<1>4. (a \o <<h>>) \o t = a \o (<<h>> \o t)
  BY <1>1, ConcatAssociative
<1> QED  BY <1>2, <1>3, <1>4 DEF h, t

LEMMA GatherStep ==
  ASSUME NoTornTakeover, FullInv, [Next]_vars
  PROVE  GatherInv'
<1> USE DEF FullInv, WorkInv
<1>0. Inv /\ GatherInv /\ CheckPointInv /\ SlotInv /\ ChannelInv
  OBVIOUS
<1>t. queue \in Seq(Task) /\ wire \in Seq(Task)
  BY DEF Inv, TypeOK, MasterTypes, MirrorTypes
<1> USE DEF Incomplete, Unsent, vars, manager, loopVars, mirrorVars, disk, chans, workers
<1>1. CASE MirrorSendsTasks
  <2>1. Incomplete /\ queue = OwnTasks(0)
    BY <1>1 DEF MirrorSendsTasks, GatherInv
  <2>2. /\ mpc' = "barrier" /\ queue' \o wire' = AllTasks
        /\ UNCHANGED <<pc, ret, buffered, merge1, sent>>
    BY <1>1, <2>1 DEF MirrorSendsTasks, AllTasks
  <2> QED  BY <2>1, <2>2 DEF GatherInv, Gathering, OnlySent
<1>2. CASE ReceiveTask
  <2>1. pc = "gather" /\ ~Unsent /\ queue \o wire = AllTasks /\ wire # <<>>
    BY <1>2 DEF ReceiveTask, GatherInv, Gathering
  <2>2. queue' \o wire' = queue \o wire
    BY <1>2, <1>t, <2>1, MoveOver DEF ReceiveTask
  <2> QED  BY <1>2, <2>1, <2>2 DEF ReceiveTask, GatherInv, Gathering, OnlySent
<1>3. CASE EndOfGather
  <2>1. pc = "gather" /\ ~Unsent /\ queue \o wire = AllTasks /\ wire = <<>>
    BY <1>3 DEF EndOfGather, GatherInv, Gathering
  <2>2. queue = AllTasks
    BY <1>t, <2>1, ConcatEmptySeq
  <2> QED  BY <1>3, <2>1, <2>2 DEF EndOfGather, GatherInv, Gathering, OnlySent, Untouched
<1>4. CASE Barrier \/ MirrorDeserializes \/ MirrorIsReleased
  BY <1>4 DEF Barrier, MirrorDeserializes, MirrorIsReleased, GatherInv, Gathering, OnlySent, Untouched,
     Inv, PhaseInv
<1>5. CASE TruncateCheckPoint \/ WriteCheckPoint \/ CrashServer
  BY <1>5 DEF TruncateCheckPoint, WriteCheckPoint, CrashServer, Inv, LoopInv, GatherInv, Gathering, OnlySent, Untouched
<1>6. CASE WhileTest
  <2>1. /\ pc = "loop" /\ pc' \in {"truncate", "quit", "recv"} /\ ~Gathering /\ ~Gathering'
        /\ UNCHANGED <<queue, buffered, merge1, wire, mpc, active>>
    BY <1>6, QuietFrame DEF WhileTest, Inv, PhaseInv, Quiet
  <2> QED  BY <2>1 DEF GatherInv, Untouched
<1>7. CASE SkipSlot \/ EndOfRecv \/ Alive \/ (\E h \in {0, 1} : Probe(h))
  <2>1. /\ pc \in {"recv", "alive"} /\ ~Gathering /\ pc' # "gather"
        /\ UNCHANGED <<wire, mpc, active>>
    BY <1>7, LoopFacts DEF SkipSlot, EndOfRecv, Alive, Probe, Return
  <2>2. ~Gathering' /\ ~(ServerCrash /\ active = 0)
    BY <1>7, <2>1, QuietFrame DEF Quiet, Inv, MirrorInv
  <2> QED  BY <2>1, <2>2 DEF GatherInv
<1>8. CASE send_quit_to_slaves
  BY <1>8 DEF send_quit_to_slaves, GatherInv, Gathering, OnlySent, Untouched
<1>17. CASE MasterDeath \/ MirrorDeath
  <2>1. UNCHANGED <<active, ret, queue, wire, buffered, merge1, sent>> /\ (Unsent' <=> Unsent)
    BY <1>17 DEF MasterDeath, MirrorDeath
  <2>2. (Gathering' <=> Gathering) /\ pc' \in {pc, "dead"}
    BY <1>17 DEF MasterDeath, MirrorDeath, Gathering, Inv, PhaseInv
  <2>3. queue = AllTasks /\ wire = <<>> => queue \o wire = AllTasks
    BY <1>t, ConcatEmptySeq
  <2>4. Incomplete => Incomplete'
    BY <2>2
  <2>5. Incomplete' => \/ Unsent' /\ queue' = OwnTasks(0) /\ wire' = <<>>
                       \/ ~Unsent' /\ queue' \o wire' = AllTasks
    BY <2>1, <2>2, <2>3 DEF GatherInv, Untouched
  <2>6. ~Incomplete' => wire' = <<>> /\ ~Unsent'
    BY <2>1, <2>4 DEF GatherInv
  <2>7. (Gathering' /\ ~Incomplete') => Untouched'
    BY <2>1, <2>2, <2>4 DEF GatherInv, Untouched
  <2> HIDE DEF Incomplete, Unsent
  <2> QED  BY <2>1, <2>2, <2>5, <2>6, <2>7 DEF GatherInv, OnlySent, Untouched
<1>9. CASE \E c \in Comms : WorkerHeader(c) \/ WorkerTimeout(c) \/ WorkerDeath(c) \/ WorkerSolve(c)
  BY <1>9 DEF WorkerHeader, WorkerTimeout, WorkerDeath, WorkerSolve, GatherInv, Gathering, OnlySent, Untouched
<1>10. CASE UNCHANGED vars
  BY <1>10 DEF GatherInv, Gathering, OnlySent, Untouched
<1>11. CASE SpawnWorkers
  BY <1>0, <1>11, SpawnEffect DEF GatherInv, Untouched
<1>12. CASE PickSlave
  BY <1>0, <1>12, PickEffect DEF GatherInv
<1>13. CASE ProbeTimeout
  BY <1>0, <1>13, TimeoutEffect DEF GatherInv
<1>14. CASE ReceiveResult
  <2>1. /\ pc = "result" /\ pc' = "loop" /\ ~Gathering /\ ~Gathering' /\ UNCHANGED <<wire, mpc, active>>
    BY <1>0, <1>14, ResultEffect
  <2>2. ~(ServerCrash /\ active = 0)
    BY <2>1 DEF Inv, MirrorInv
  <2> QED  BY <2>1, <2>2 DEF GatherInv
<1>15. CASE finish_solving
  <2>1. pc = "finish" /\ pc' = "done" /\ ~Gathering' /\ UNCHANGED <<wire, mpc>>
    BY <1>0, <1>15, FinishEffect
  <2> QED  BY <2>1 DEF GatherInv
<1>16. CASE MirrorTakesOver
  <2>1. /\ pc' = "loop" /\ ~Gathering /\ ~Gathering' /\ mpc' = "leads" /\ active' = 1
        /\ UNCHANGED wire
    BY <1>0, <1>16, TakeoverEffect
  <2> QED  BY <2>1 DEF GatherInv
<1> QED
  BY <1>1, <1>2, <1>3, <1>4, <1>5, <1>6, <1>7, <1>8, <1>9, <1>10, <1>11, <1>12, <1>13, <1>14, <1>15, <1>16, <1>17
     DEF Next, Setup, MainLoop, CheckRecv, Finish, Worker

LEMMA CheckPointStep ==
  ASSUME NoTornTakeover, FullInv, [Next]_vars
  PROVE  CheckPointInv'
<1> USE DEF FullInv, WorkInv
<1>0. Inv /\ GatherInv /\ CheckPointInv /\ SlotInv /\ ChannelInv
  OBVIOUS
<1> USE DEF vars, manager, loopVars, mirrorVars, disk, chans, workers
<1>1. CASE MirrorSendsTasks \/ ReceiveTask \/ EndOfGather \/ Barrier
  BY <1>1 DEF MirrorSendsTasks, ReceiveTask, EndOfGather, Barrier, CheckPointInv
<1>2. CASE MirrorDeserializes
  <2>1. PromptMirror => file = FirstCheckPoint
    BY <1>2 DEF MirrorDeserializes, CheckPointInv
  <2>2. deserialize(FirstCheckPoint) = FirstCheckPoint
    BY DEF deserialize, FirstCheckPoint, NoTasks
  <2>3. FirstCheckPoint.whole
    BY DEF FirstCheckPoint
  <2>4. PromptMirror /\ mpc' = "poll" => mirror' = FirstCheckPoint
    BY <1>2, <2>1, <2>2, <2>3 DEF MirrorDeserializes
  <2> QED  BY <1>2, <2>4 DEF MirrorDeserializes, CheckPointInv
<1>3. CASE TruncateCheckPoint
  BY <1>3 DEF TruncateCheckPoint, CheckPointInv, Inv, MirrorInv
<1>4. CASE WriteCheckPoint
  <2>1. /\ pc = "write" /\ pc' \in {"barrier", "crash", "pick"}
        /\ pc' = "barrier" => ret = "barrier"
        /\ pc' = "crash" => ServerCrash /\ active = 0
    BY <1>4 DEF WriteCheckPoint
  <2>2. pc' \in {"barrier", "spawn", "crash"} => Untouched
    BY <2>1 DEF GatherInv, Gathering, Incomplete
  <2>3. pc' \in {"barrier", "spawn", "crash"} => file' = FirstCheckPoint
    BY <1>4, <2>2 DEF WriteCheckPoint, Untouched, FirstCheckPoint
  <2>4. notice # <<111>>
    BY <2>1 DEF Inv, MirrorInv
  <2>5. ~(PromptMirror /\ mpc = "deserialize")
    BY <2>1 DEF Inv, MirrorInv
  <2> QED  BY <1>4, <2>3, <2>4, <2>5 DEF WriteCheckPoint, CheckPointInv
<1>5. CASE CrashServer
  BY <1>5 DEF CrashServer, CheckPointInv
<1>6. CASE WhileTest \/ SkipSlot \/ EndOfRecv \/ Alive \/ (\E h \in {0, 1} : Probe(h))
  BY <1>6 DEF WhileTest, SkipSlot, EndOfRecv, Alive, Probe, Return, CheckPointInv
<1>7. CASE send_quit_to_slaves
  <2>1. notice' \in {<<>>, <<1>>}
    <3>1. notice = <<>>
      BY <1>7 DEF send_quit_to_slaves, Inv, MirrorInv
    <3> QED  BY <1>7, <3>1 DEF send_quit_to_slaves
  <2>2. <<1>> # <<111>> /\ <<>> # <<111>>
    OBVIOUS
  <2>3. notice' # <<111>>
    BY <2>1, <2>2
  <2> QED  BY <1>7, <2>3 DEF send_quit_to_slaves, CheckPointInv
<1>8. CASE MirrorIsReleased
  BY <1>8 DEF MirrorIsReleased, CheckPointInv, Inv, MirrorInv
<1>9. CASE \E c \in Comms : WorkerHeader(c) \/ WorkerTimeout(c) \/ WorkerDeath(c) \/ WorkerSolve(c)
  BY <1>9 DEF WorkerHeader, WorkerTimeout, WorkerDeath, WorkerSolve, CheckPointInv
<1>10. CASE MasterDeath \/ MirrorDeath \/ UNCHANGED vars
  BY <1>10 DEF MasterDeath, MirrorDeath, CheckPointInv
<1>11. CASE SpawnWorkers
  BY <1>0, <1>11, SpawnEffect DEF CheckPointInv
<1>12. CASE PickSlave
  BY <1>0, <1>12, PickEffect DEF CheckPointInv
<1>13. CASE ProbeTimeout
  BY <1>0, <1>13, TimeoutEffect DEF CheckPointInv
<1>14. CASE ReceiveResult
  <2>1. pc' = "loop" /\ UNCHANGED <<mpc, file, mirror, notice>>
    BY <1>0, <1>14, ResultEffect
  <2> QED  BY <2>1 DEF CheckPointInv
<1>15. CASE finish_solving
  <2>1. pc' = "done" /\ UNCHANGED <<mpc, file, mirror, notice>>
    BY <1>0, <1>15, FinishEffect
  <2> QED  BY <2>1 DEF CheckPointInv
<1>16. CASE MirrorTakesOver
  <2>1. pc' = "loop" /\ mpc' = "leads" /\ notice' = <<>>
    BY <1>0, <1>16, TakeoverEffect
  <2> QED  BY <2>1 DEF CheckPointInv
<1> QED
  BY <1>1, <1>2, <1>3, <1>4, <1>5, <1>6, <1>7, <1>8, <1>9, <1>10, <1>11, <1>12, <1>13, <1>14, <1>15, <1>16
     DEF Next, Setup, MainLoop, CheckRecv, Finish, Worker

LEMMA ResultFacts ==
  ASSUME NEW t \in Task, GoodTask(t)
  PROVE  LET r == SortTask(computeResult(t))
         IN  /\ r \in Task /\ GoodResult(r) /\ GoodTask(r)
             /\ Items(r) = Items(t) /\ r.b1.items = Items(t) /\ r.b1.sorted = TRUE
<1> DEFINE b == computeResult(t)
           r == SortTask(b)
<1>1. b \in Block /\ r \in Task
  BY TaskFacts DEF TaskOrNull
<1>2. t.kind \in {"sort", "merge"}
  BY DEF Task
<1>3. b.items = Items(t) /\ (b.sorted <=> t.kind = "sort" \/ (t.b1.sorted /\ t.b2.sorted))
  BY DEF computeResult
<1>4. b.sorted = TRUE
  BY <1>1, <1>2, <1>3 DEF GoodTask, Block
<1>5. Items(t) # {}
  BY <1>2 DEF Items, GoodTask
<1> HIDE DEF b
<1>6. r.kind = "sort" /\ r.b1 = b /\ r.b2 = NoBlock
  BY DEF SortTask
<1>7. Items(r) = b.items
  BY <1>6 DEF Items, NoBlock
<1> QED  BY <1>1, <1>3, <1>4, <1>5, <1>6, <1>7 DEF GoodResult, GoodTask, b

LEMMA MergeFacts ==
  ASSUME NEW a \in Task, NEW r \in Task, GoodResult(a), GoodResult(r), Items(a) \cap Items(r) = {}
  PROVE  LET m == MergeTask(a.b1, r.b1)
         IN  m \in Task /\ GoodTask(m) /\ Items(m) = Items(a) \cup Items(r)
<1>1. a.b1 \in Block /\ r.b1 \in Block
  BY DEF Task
<1>2. MergeTask(a.b1, r.b1) \in Task
  BY <1>1, TaskFacts
<1>3. Items(a) = a.b1.items /\ Items(r) = r.b1.items
  BY DEF GoodResult, Items, NoBlock
<1>4. /\ MergeTask(a.b1, r.b1).kind = "merge" /\ MergeTask(a.b1, r.b1).b1 = a.b1
      /\ MergeTask(a.b1, r.b1).b2 = r.b1
  BY DEF MergeTask
<1>5. Items(MergeTask(a.b1, r.b1)) = Items(a) \cup Items(r)
  BY <1>3, <1>4 DEF Items
<1>6. GoodTask(MergeTask(a.b1, r.b1))
  BY <1>3, <1>4 DEF GoodTask, GoodResult
<1> QED  BY <1>2, <1>5, <1>6

LEMMA NullFacts == GoodTask(NoTask) /\ Items(NoTask) = {}
BY DEF GoodTask, Items, NoTask, NoBlock

LEMMA ItemsInInput ==
  ASSUME NEW t \in TaskOrNull
  PROVE  Items(t) \subseteq Input
BY TaskFacts DEF Items, Block

LEMMA AppendGood ==
  ASSUME NEW q \in Seq(Task), NEW t, GoodTask(t), t \in Task, \A i \in 1 .. Len(q) : GoodTask(q[i])
  PROVE  \A i \in 1 .. Len(Append(q, t)) : GoodTask(Append(q, t)[i])
<1>1. /\ Len(q) \in Nat /\ Len(Append(q, t)) = Len(q) + 1 /\ Append(q, t)[Len(q) + 1] = t
      /\ \A i \in 1 .. Len(q) : Append(q, t)[i] = q[i]
  BY AppendProperties, LenProperties
<1>2. \A i \in 1 .. Len(q) + 1 : i \in 1 .. Len(q) \/ i = Len(q) + 1
  BY <1>1
<1> QED  BY <1>1, <1>2

LEMMA TailGood ==
  ASSUME NEW q \in Seq(Task), q # <<>>, \A i \in 1 .. Len(q) : GoodTask(q[i])
  PROVE  /\ Head(q) \in Task /\ GoodTask(Head(q))
         /\ \A i \in 1 .. Len(Tail(q)) : GoodTask(Tail(q)[i])
<1>1. /\ Len(q) \in Nat \ {0} /\ Head(q) = q[1] /\ Head(q) \in Task /\ Len(Tail(q)) = Len(q) - 1
      /\ \A i \in 1 .. Len(Tail(q)) : Tail(q)[i] = q[i + 1]
  BY EmptySeq, HeadTailProperties
<1>2. 1 \in 1 .. Len(q) /\ \A i \in 1 .. Len(Tail(q)) : i + 1 \in 1 .. Len(q)
  BY <1>1
<1> QED  BY <1>1, <1>2

(* Who holds the result that is waiting for another one.                   *)
LEMMA MergeTypes ==
  ASSUME Inv, TaskInv, merge1 # NoTask
  PROVE  merge1 \in Task /\ GoodResult(merge1)
<1>1. GoodResult(merge1)
  BY DEF TaskInv
<1>2. merge1 # Garbage
  BY <1>1 DEF GoodResult, Garbage
<1> QED  BY <1>1, <1>2 DEF Inv, TypeOK, MasterTypes, TaskOrNull

(* The result that arrives is apart from the one that waits.               *)
LEMMA ResultApart ==
  ASSUME Inv, SplitInv, pc = "result"
  PROVE  Items(buffered[cur]) \cap Items(merge1) = {}
<1>1. cur \in Slots /\ buffered[cur] \in TaskOrNull
  BY DEF Inv, TypeOK, MasterTypes
<1>2. Items(buffered[cur]) \subseteq Input
  BY <1>1, ItemsInInput
<1> QED  BY <1>2 DEF SplitInv, Split

LEMMA TaskStep ==
  ASSUME NoTornTakeover, FullInv, [Next]_vars
  PROVE  TaskInv'
<1> USE DEF FullInv, WorkInv
<1>0. Inv /\ GatherInv /\ CheckPointInv /\ SlotInv /\ ChannelInv /\ TaskInv /\ SplitInv
  OBVIOUS
<1>t. /\ queue \in Seq(Task) /\ wire \in Seq(Task) /\ buffered \in [Slots -> TaskOrNull]
      /\ cur \in Slots
  BY DEF Inv, TypeOK, MasterTypes, MirrorTypes
<1>1. CASE MirrorSendsTasks
  <2>1. /\ Len(OwnTasks(1)) = NPackets(1)
        /\ \A i \in 1 .. NPackets(1) : OwnTasks(1)[i] = next_task(1, i - 1)
    BY Packets DEF OwnTasks
  <2>2. ASSUME NEW i \in 1 .. NPackets(1) PROVE GoodTask(next_task(1, i - 1))
    <3>1. NPackets(1) \in Nat
      BY Packets
    <3>2. NPackets(0) \in Nat /\ NPackets(0) + i \in 1 .. Len(AllTasks)
      BY <3>1, AllTasksFacts
    <3>3. ROf(NPackets(0) + i) = 1 /\ KOf(NPackets(0) + i) = i - 1
      BY <3>1, <3>2 DEF ROf, KOf
    <3> QED  BY <3>2, <3>3, AllTasksFacts, AllTasksGood
  <2>3. \A i \in 1 .. Len(wire') : GoodTask(wire'[i])
    BY <1>1, <2>1, <2>2 DEF MirrorSendsTasks
  <2>4. UNCHANGED <<queue, buffered, merge1>>
    BY <1>1 DEF MirrorSendsTasks, manager
  <2> QED  BY <2>3, <2>4 DEF TaskInv
<1>2. CASE ReceiveTask
  <2>1. wire # <<>> /\ queue' = Append(queue, Head(wire)) /\ wire' = Tail(wire) /\ UNCHANGED <<buffered, merge1>>
    BY <1>2 DEF ReceiveTask
  <2>2. /\ Head(wire) \in Task /\ GoodTask(Head(wire)) /\ \A i \in 1 .. Len(wire') : GoodTask(wire'[i])
    BY <1>t, <2>1, TailGood DEF TaskInv
  <2>3. \A i \in 1 .. Len(queue') : GoodTask(queue'[i])
    BY <1>t, <2>1, <2>2, AppendGood DEF TaskInv
  <2> QED  BY <2>1, <2>2, <2>3 DEF TaskInv
<1>3. CASE Quiet /\ ~MirrorSendsTasks
  <2>1. UNCHANGED <<queue, buffered, merge1>>
    BY <1>3, QuietFrame
  <2>2. UNCHANGED wire
    BY <1>3 DEF Quiet, EndOfGather, Barrier, MirrorDeserializes, TruncateCheckPoint, WriteCheckPoint, WhileTest,
       CrashServer, SkipSlot, EndOfRecv, Probe, Alive, send_quit_to_slaves, MirrorIsReleased, MasterDeath, MirrorDeath,
       WorkerHeader, WorkerTimeout, WorkerDeath, vars, mirrorVars
  <2> QED  BY <2>1, <2>2 DEF TaskInv
<1>4. CASE SpawnWorkers
  <2>1. UNCHANGED <<queue, buffered, merge1, wire>>
    BY <1>0, <1>4, SpawnEffect
  <2> QED  BY <2>1 DEF TaskInv
<1>5. CASE PickSlave
  <2>1. /\ queue # <<>> /\ queue' = Tail(queue) /\ buffered' = [buffered EXCEPT ![cur] = Head(queue)]
        /\ UNCHANGED <<merge1, wire>>
    BY <1>0, <1>5, PickEffect
  <2>2. /\ GoodTask(Head(queue)) /\ \A i \in 1 .. Len(queue') : GoodTask(queue'[i])
    BY <1>t, <2>1, TailGood DEF TaskInv
  <2>3. \A s \in Slots : GoodTask(buffered'[s])
    BY <1>t, <2>1, <2>2 DEF TaskInv
  <2> QED  BY <2>1, <2>2, <2>3 DEF TaskInv
<1>6. CASE ProbeTimeout
  <2>1. /\ buffered[cur] \in Task /\ queue' = Append(queue, buffered[cur])
        /\ buffered' = [buffered EXCEPT ![cur] = NoTask] /\ UNCHANGED <<merge1, wire>>
    BY <1>0, <1>6, TimeoutEffect
  <2>2. \A i \in 1 .. Len(queue') : GoodTask(queue'[i])
    BY <1>t, <2>1, AppendGood DEF TaskInv
  <2>3. \A s \in Slots : GoodTask(buffered'[s])
    BY <1>t, <2>1, NullFacts DEF TaskInv
  <2> QED  BY <2>1, <2>2, <2>3 DEF TaskInv
<1>7. CASE ReceiveResult
  <2> DEFINE r == SortTask(computeResult(buffered[cur]))
  <2>1. /\ pc = "result" /\ buffered[cur] \in Task /\ buffered' = [buffered EXCEPT ![cur] = NoTask]
        /\ IF merge1 = NoTask THEN merge1' = r /\ UNCHANGED queue
           ELSE queue' = Append(queue, MergeTask(merge1.b1, r.b1)) /\ merge1' = NoTask
        /\ UNCHANGED wire
    BY <1>0, <1>7, ResultEffect
  <2>2. r \in Task /\ GoodResult(r) /\ Items(r) = Items(buffered[cur])
    BY <1>t, <2>1, ResultFacts DEF TaskInv
  <2> HIDE DEF r
  <2>3. \A s \in Slots : GoodTask(buffered'[s])
    BY <1>t, <2>1, NullFacts DEF TaskInv
  <2>4. CASE merge1 = NoTask
    BY <2>1, <2>2, <2>3, <2>4 DEF TaskInv
  <2>5. CASE merge1 # NoTask
    <3>1. merge1 \in Task /\ GoodResult(merge1) /\ Items(merge1) \cap Items(r) = {}
      BY <1>0, <2>1, <2>2, <2>5, MergeTypes, ResultApart
    <3>2. MergeTask(merge1.b1, r.b1) \in Task /\ GoodTask(MergeTask(merge1.b1, r.b1))
      BY <2>2, <3>1, MergeFacts
    <3>3. \A i \in 1 .. Len(queue') : GoodTask(queue'[i])
      BY <1>t, <2>1, <2>5, <3>2, AppendGood DEF TaskInv
    <3> QED  BY <2>1, <2>3, <2>5, <3>3 DEF TaskInv
  <2> QED  BY <2>4, <2>5
<1>8. CASE finish_solving
  <2>1. queue # <<>> /\ queue' = Tail(queue) /\ UNCHANGED <<buffered, merge1, wire>>
    BY <1>0, <1>8, FinishEffect
  <2>2. \A i \in 1 .. Len(queue') : GoodTask(queue'[i])
    BY <1>t, <2>1, TailGood DEF TaskInv
  <2> QED  BY <2>1, <2>2 DEF TaskInv
<1>9. CASE MirrorTakesOver
  <2>1. Untouched' /\ UNCHANGED wire
    BY <1>0, <1>9, TakeoverEffect
  <2> QED  BY <2>1, AllTasksGood, NullFacts DEF TaskInv, Untouched, NoTasks
<1>10. CASE \E c \in Comms : WorkerSolve(c)
  <2>1. UNCHANGED <<queue, buffered, merge1, wire>>
    BY <1>10, SolveEffect
  <2> QED  BY <2>1 DEF TaskInv
<1> QED
  BY <1>1, <1>2, <1>3, <1>4, <1>5, <1>6, <1>7, <1>8, <1>9, <1>10, StepKinds

LEMMA UntouchedFacts ==
  ASSUME NEW q, NEW b, NEW m, NEW s \in Slots, q = AllTasks, b = NoTasks, m = NoTask
  PROVE  Split(q, Items(b[s]), Items(m)) /\ b[s] = NoTask
BY AllTasksGood, NullFacts DEF NoTasks

LEMMA SlotStep ==
  ASSUME NoTornTakeover, FullInv, [Next]_vars
  PROVE  SlotInv'
<1> USE DEF FullInv, WorkInv
<1>0. Inv /\ GatherInv /\ CheckPointInv /\ SlotInv /\ ChannelInv
  OBVIOUS
<1>t. /\ buffered \in [Slots -> TaskOrNull] /\ sent \in [Slots -> BOOLEAN] /\ cur \in Slots
  BY DEF Inv, TypeOK, MasterTypes
<1>1. CASE Quiet
  BY <1>0, <1>1, QuietFrame DEF SlotInv
<1>2. CASE ReceiveTask
  BY <1>2 DEF ReceiveTask, loopVars, SlotInv
<1>3. CASE SpawnWorkers
  BY <1>0, <1>3, SpawnEffect DEF SlotInv, Untouched, NoTasks
<1>4. CASE PickSlave
  <2>1. /\ buffered' = [buffered EXCEPT ![cur] = Head(queue)] /\ sent' = [sent EXCEPT ![cur] = TRUE] /\ cur' = cur
    BY <1>0, <1>4, PickEffect
  <2> QED  BY <1>t, <2>1 DEF SlotInv
<1>5. CASE ProbeTimeout
  <2>1. /\ buffered' = [buffered EXCEPT ![cur] = NoTask] /\ sent' = [sent EXCEPT ![cur] = FALSE] /\ cur' = cur
    BY <1>0, <1>5, TimeoutEffect
  <2> QED  BY <1>t, <2>1 DEF SlotInv
<1>6. CASE ReceiveResult
  <2>1. /\ buffered' = [buffered EXCEPT ![cur] = NoTask] /\ sent' = [sent EXCEPT ![cur] = FALSE] /\ cur' = cur
    BY <1>0, <1>6, ResultEffect
  <2> QED  BY <1>t, <2>1 DEF SlotInv
<1>7. CASE finish_solving
  <2>1. UNCHANGED <<buffered, sent, cur>>
    BY <1>0, <1>7, FinishEffect
  <2> QED  BY <2>1 DEF SlotInv
<1>8. CASE MirrorTakesOver
  <2>1. Untouched' /\ sent' = [s \in Slots |-> FALSE]
    BY <1>0, <1>8, TakeoverEffect
  <2> QED  BY <2>1 DEF SlotInv, Untouched, NoTasks
<1>9. CASE \E c \in Comms : WorkerSolve(c)
  <2>1. UNCHANGED <<buffered, sent, cur>>
    BY <1>9, SolveEffect
  <2> QED  BY <2>1 DEF SlotInv
<1> QED  BY <1>1, <1>2, <1>3, <1>4, <1>5, <1>6, <1>7, <1>8, <1>9, StepKinds

LEMMA SplitStep ==
  ASSUME NoTornTakeover, FullInv, [Next]_vars
  PROVE  SplitInv'
<1> USE DEF FullInv, WorkInv
<1>0. Inv /\ GatherInv /\ CheckPointInv /\ SlotInv /\ ChannelInv /\ TaskInv /\ SplitInv
  OBVIOUS
<1>t. /\ queue \in Seq(Task) /\ buffered \in [Slots -> TaskOrNull] /\ cur \in Slots /\ 0 \in Slots
  BY SlotFacts DEF Inv, TypeOK, MasterTypes
<1>1. CASE Quiet
  <2>1. CASE EndOfGather
    <3>1. pc' = "truncate" /\ ret' = "barrier" /\ UNCHANGED cur
      BY <1>0, <2>1 DEF EndOfGather, loopVars, Inv, PhaseInv
    <3>2. Untouched'
      BY <3>1, GatherStep DEF GatherInv, Gathering, Incomplete
    <3> QED  BY <1>t, <3>1, <3>2, UntouchedFacts DEF SplitInv, Untouched
  <2>2. CASE ~EndOfGather
    BY <1>0, <1>1, <2>2, QuietFrame DEF SplitInv
  <2> QED  BY <2>1, <2>2
<1>2. CASE ReceiveTask
  BY <1>2 DEF ReceiveTask, SplitInv
<1>3. CASE SpawnWorkers
  <2>1. Untouched /\ UNCHANGED <<queue, buffered, merge1>> /\ cur' = 0
    BY <1>0, <1>3, SpawnEffect
  <2> QED  BY <1>t, <2>1, UntouchedFacts DEF SplitInv, Untouched
<1>4. CASE PickSlave
  <2>1. /\ pc = "pick" /\ ~sent[cur] /\ queue # <<>> /\ queue' = Tail(queue)
        /\ buffered' = [buffered EXCEPT ![cur] = Head(queue)] /\ UNCHANGED <<cur, merge1>>
    BY <1>0, <1>4, PickEffect
  <2>2. Items(buffered[cur]) = {}
    BY <1>t, <2>1, NullFacts DEF SlotInv
  <2>3. Split(queue, {}, Items(merge1))
    BY <2>1, <2>2 DEF SplitInv
  <2>4. Split(queue', Items(Head(queue)), Items(merge1))
    BY <1>t, <2>1, <2>3, SplitTail
  <2>5. buffered'[cur'] = Head(queue) /\ merge1' = merge1
    BY <1>t, <2>1
  <2> QED  BY <2>4, <2>5 DEF SplitInv
<1>5. CASE ProbeTimeout
  <2>1. /\ pc = "alive" /\ buffered[cur] \in Task /\ queue' = Append(queue, buffered[cur])
        /\ buffered' = [buffered EXCEPT ![cur] = NoTask] /\ UNCHANGED <<cur, merge1>>
    BY <1>0, <1>5, TimeoutEffect
  <2>2. Split(queue, Items(buffered[cur]), Items(merge1))
    BY <2>1 DEF SplitInv
  <2>3. \A n \in Input : ~(n \in Items(buffered[cur]) /\ n \in Items(merge1))
    BY <2>2 DEF Split
  <2>4. Split(queue', {}, Items(merge1))
    BY <1>t, <2>1, <2>2, <2>3, SplitAppend
  <2>5. Items(buffered'[cur']) = {} /\ merge1' = merge1
    BY <1>t, <2>1, NullFacts
  <2> QED  BY <2>4, <2>5 DEF SplitInv
<1>6. CASE ReceiveResult
  <2> DEFINE r == SortTask(computeResult(buffered[cur]))
             b == Items(buffered[cur])
             m == Items(merge1)
  <2>1. /\ pc = "result" /\ buffered[cur] \in Task /\ buffered' = [buffered EXCEPT ![cur] = NoTask]
        /\ IF merge1 = NoTask THEN merge1' = r /\ UNCHANGED queue
           ELSE queue' = Append(queue, MergeTask(merge1.b1, r.b1)) /\ merge1' = NoTask
        /\ UNCHANGED cur
    BY <1>0, <1>6, ResultEffect
  <2>2. r \in Task /\ GoodResult(r) /\ Items(r) = b
    BY <1>t, <2>1, ResultFacts DEF TaskInv
  <2>3. Split(queue, b, m)
    BY <2>1 DEF SplitInv
  <2>4. Items(buffered'[cur']) = {}
    BY <1>t, <2>1, NullFacts
  <2> HIDE DEF r
  <2>5. CASE merge1 = NoTask
    <3>1. m = {}
      BY <2>5, NullFacts
    <3>2. Split(queue, {}, b)
      BY <2>3, <3>1 DEF Split
    <3> QED  BY <2>1, <2>2, <2>4, <2>5, <3>2 DEF SplitInv
  <2>6. CASE merge1 # NoTask
    <3>1. merge1 \in Task /\ GoodResult(merge1) /\ m \cap b = {}
      BY <1>0, <2>1, <2>6, MergeTypes, ResultApart
    <3>2. /\ MergeTask(merge1.b1, r.b1) \in Task /\ Items(MergeTask(merge1.b1, r.b1)) = m \cup b
      BY <2>2, <3>1, MergeFacts
    <3>3. Split(Append(queue, MergeTask(merge1.b1, r.b1)), {}, {})
      BY <1>t, <2>3, <3>2, SplitAppend
    <3> QED  BY <2>1, <2>4, <2>6, <3>3, NullFacts DEF SplitInv
  <2> QED  BY <2>5, <2>6
<1>7. CASE finish_solving
  <2>1. pc' = "done"
    BY <1>0, <1>7, FinishEffect
  <2> QED  BY <2>1 DEF SplitInv
<1>8. CASE MirrorTakesOver
  <2>1. Untouched' /\ cur' = 0
    BY <1>0, <1>8, TakeoverEffect
  <2> QED  BY <1>t, <2>1, UntouchedFacts DEF SplitInv, Untouched
<1>9. CASE \E c \in Comms : WorkerSolve(c)
  <2>1. UNCHANGED <<queue, buffered, merge1, cur, pc>>
    BY <1>9, SolveEffect
  <2> QED  BY <2>1 DEF SplitInv
<1> QED  BY <1>1, <1>2, <1>3, <1>4, <1>5, <1>6, <1>7, <1>8, <1>9, StepKinds

LEMMA ChannelStep ==
  ASSUME NoTornTakeover, FullInv, [Next]_vars
  PROVE  ChannelInv'
<1> USE DEF FullInv, WorkInv
<1>0. Inv /\ GatherInv /\ CheckPointInv /\ SlotInv /\ ChannelInv /\ TaskInv /\ SplitInv
  OBVIOUS
<1>t. /\ buffered \in [Slots -> TaskOrNull] /\ sent \in [Slots -> BOOLEAN] /\ cur \in Slots
      /\ inbox \in [Comms -> Seq(Task)] /\ res \in [Comms -> Seq(Task)]
      /\ nextComm \in Nat /\ comm \in [Slots -> 0 .. MaxComm] /\ Comms = 1 .. MaxComm
      /\ ~Gathering => \A s \in Slots : comm[s] \in Comms
  BY DEF Inv, TypeOK, MasterTypes, WorkerTypes, PhaseInv, Comms
<1>1. CASE Quiet
  BY <1>0, <1>1, QuietFrame DEF ChannelInv, Waiting, Silent
<1>2. CASE ReceiveTask
  BY <1>2 DEF ReceiveTask, loopVars, workers, chans, ChannelInv, Gathering, Waiting, Silent
<1>3. CASE SpawnWorkers
  <2>1. /\ nextComm = 1 /\ UNCHANGED <<inbox, res>> /\ comm' = [s \in Slots |-> 1 + s]
        /\ nextComm' = 1 + MaxChildren /\ sent' = [s \in Slots |-> FALSE]
    BY <1>0, <1>3, SpawnEffect
  <2>2. \A c \in Comms : Silent(c)
    BY <1>t, <2>1 DEF ChannelInv
  <2>3. \A s \in Slots : comm'[s] = 1 + s /\ comm'[s] \in Comms /\ comm'[s] < nextComm' /\ s \in Nat
    <3> TAKE s \in Slots
    <3>1. s \in Nat /\ s < MaxChildren /\ MaxChildren \in Nat /\ MaxComm \in Nat /\ 2 * MaxChildren <= MaxComm
      BY SlotFacts
    <3>2. comm'[s] = 1 + s
      BY <2>1
    <3> QED  BY <1>t, <2>1, <3>1, <3>2
  <2> QED  BY <2>1, <2>2, <2>3 DEF ChannelInv, Silent
<1>4. CASE PickSlave
  <2> DEFINE d == comm[cur]
  <2>1. /\ ~Gathering /\ ~sent[cur] /\ d \in Comms /\ inbox' = [inbox EXCEPT ![d] = Append(@, Head(queue))]
        /\ buffered' = [buffered EXCEPT ![cur] = Head(queue)] /\ sent' = [sent EXCEPT ![cur] = TRUE]
        /\ UNCHANGED <<res, comm, nextComm>>
    BY <1>0, <1>4, PickEffect
  <2>2. Silent(d) /\ d < nextComm /\ \A s \in Slots : s # cur => comm[s] # d
    BY <1>t, <2>1 DEF ChannelInv
  <2> HIDE DEF d
  <2>3. Append(<<>>, Head(queue)) = <<Head(queue)>>
    OBVIOUS
  <2>4. inbox'[d] = <<Head(queue)>> /\ res'[d] = <<>> /\ buffered'[cur] = Head(queue) /\ sent'[cur]
    BY <1>t, <2>1, <2>2, <2>3 DEF Silent
  <2>5. \A c \in Comms : c # d => inbox'[c] = inbox[c] /\ res'[c] = res[c]
    BY <1>t, <2>1
  <2>6. \A s \in Slots : s # cur => sent'[s] = sent[s] /\ buffered'[s] = buffered[s]
    BY <1>t, <2>1
  <2>7. ASSUME NEW s \in Slots
        PROVE  IF sent'[s] THEN Waiting(comm[s], buffered[s])' ELSE Silent(comm[s])'
    <3>1. CASE s = cur
      BY <2>1, <2>4, <3>1 DEF Waiting, d
    <3>2. CASE s # cur
      <4>1. comm[s] \in Comms /\ comm[s] # d
        BY <1>t, <2>1, <2>2, <3>2
      <4>2. IF sent[s] THEN Waiting(comm[s], buffered[s]) ELSE Silent(comm[s])
        BY <2>1 DEF ChannelInv
      <4>3. /\ sent'[s] = sent[s] /\ buffered'[s] = buffered[s] /\ comm'[s] = comm[s]
            /\ inbox'[comm[s]] = inbox[comm[s]] /\ res'[comm[s]] = res[comm[s]]
        BY <2>1, <2>5, <2>6, <3>2, <4>1
      <4> QED  BY <4>2, <4>3 DEF Waiting, Silent
    <3> QED  BY <3>1, <3>2
  <2>8. \A c \in Comms : c >= nextComm' => Silent(c)'
    BY <1>t, <2>1, <2>2, <2>5 DEF ChannelInv, Silent
  <2> QED  BY <2>1, <2>7, <2>8 DEF ChannelInv
<1>5. CASE ProbeTimeout
  <2>1. /\ ~Gathering /\ nextComm \in Comms /\ buffered' = [buffered EXCEPT ![cur] = NoTask]
        /\ sent' = [sent EXCEPT ![cur] = FALSE] /\ comm' = [comm EXCEPT ![cur] = nextComm]
        /\ nextComm' = nextComm + 1 /\ UNCHANGED <<inbox, res>>
    BY <1>0, <1>5, TimeoutEffect
  <2>2. Silent(nextComm) /\ \A s \in Slots : comm[s] < nextComm /\ comm[s] \in Nat
    BY <1>t, <2>1 DEF ChannelInv
  <2>3. \A s \in Slots : s # cur => sent'[s] = sent[s] /\ buffered'[s] = buffered[s] /\ comm'[s] = comm[s]
    BY <1>t, <2>1
  <2>4. comm'[cur] = nextComm /\ ~sent'[cur]
    BY <1>t, <2>1
  <2>5. ASSUME NEW s \in Slots
        PROVE  IF sent'[s] THEN Waiting(comm[s], buffered[s])' ELSE Silent(comm[s])'
    <3>1. CASE s = cur
      BY <2>1, <2>2, <2>4, <3>1 DEF Silent
    <3>2. CASE s # cur
      BY <2>1, <2>3, <3>2 DEF ChannelInv, Waiting, Silent
    <3> QED  BY <3>1, <3>2
  <2>6. \A s \in Slots : comm'[s] < nextComm'
    BY <1>t, <2>1, <2>2, <2>3, <2>4
  <2>7. \A s, t \in Slots : comm'[s] = comm'[t] => s = t
    BY <1>t, <2>1, <2>2, <2>3, <2>4 DEF ChannelInv
  <2>8. \A c \in Comms : c >= nextComm' => Silent(c)'
    BY <1>t, <2>1 DEF ChannelInv, Silent
  <2> QED  BY <2>5, <2>6, <2>7, <2>8 DEF ChannelInv
<1>6. CASE ReceiveResult
  <2> DEFINE d == comm[cur]
  <2>1. /\ ~Gathering /\ d \in Comms /\ inbox[d] = <<>> /\ res' = [res EXCEPT ![d] = <<>>]
        /\ buffered' = [buffered EXCEPT ![cur] = NoTask] /\ sent' = [sent EXCEPT ![cur] = FALSE]
        /\ UNCHANGED <<inbox, comm, nextComm>>
    BY <1>0, <1>6, ResultEffect
  <2>2. d < nextComm /\ \A s \in Slots : s # cur => comm[s] # d
    BY <1>t, <2>1 DEF ChannelInv
  <2> HIDE DEF d
  <2>3. inbox'[d] = <<>> /\ res'[d] = <<>> /\ ~sent'[cur]
    BY <1>t, <2>1
  <2>4. \A c \in Comms : c # d => inbox'[c] = inbox[c] /\ res'[c] = res[c]
    BY <1>t, <2>1
  <2>5. \A s \in Slots : s # cur => sent'[s] = sent[s] /\ buffered'[s] = buffered[s]
    BY <1>t, <2>1
  <2>6. ASSUME NEW s \in Slots
        PROVE  IF sent'[s] THEN Waiting(comm[s], buffered[s])' ELSE Silent(comm[s])'
    <3>1. CASE s = cur
      BY <2>1, <2>3, <3>1 DEF Silent, d
    <3>2. CASE s # cur
      <4>1. comm[s] \in Comms /\ comm[s] # d
        BY <1>t, <2>1, <2>2, <3>2
      <4>2. IF sent[s] THEN Waiting(comm[s], buffered[s]) ELSE Silent(comm[s])
        BY <2>1 DEF ChannelInv
      <4>3. /\ sent'[s] = sent[s] /\ buffered'[s] = buffered[s] /\ comm'[s] = comm[s]
            /\ inbox'[comm[s]] = inbox[comm[s]] /\ res'[comm[s]] = res[comm[s]]
        BY <2>1, <2>4, <2>5, <3>2, <4>1
      <4> QED  BY <4>2, <4>3 DEF Waiting, Silent
    <3> QED  BY <3>1, <3>2
  <2>7. \A c \in Comms : c >= nextComm' => Silent(c)'
    BY <1>t, <2>1, <2>2, <2>4 DEF ChannelInv, Silent
  <2> QED  BY <2>1, <2>6, <2>7 DEF ChannelInv
<1>7. CASE finish_solving
  <2>1. ~Gathering /\ UNCHANGED <<buffered, sent, inbox, res, comm, nextComm>>
    BY <1>0, <1>7, FinishEffect
  <2> QED  BY <2>1 DEF ChannelInv, Waiting, Silent
<1>8. CASE MirrorTakesOver
  <2>1. /\ nextComm = MaxChildren + 1 /\ UNCHANGED <<inbox, res>> /\ comm' = [s \in Slots |-> nextComm + s]
        /\ nextComm' = nextComm + MaxChildren /\ sent' = [s \in Slots |-> FALSE]
    BY <1>0, <1>8, TakeoverEffect
  <2>2. \A s \in Slots : /\ comm'[s] = nextComm + s /\ comm'[s] \in Comms /\ comm'[s] < nextComm'
                         /\ s \in Nat /\ comm'[s] >= nextComm
    <3> TAKE s \in Slots
    <3>1. s \in Nat /\ s < MaxChildren /\ MaxChildren \in Nat /\ MaxComm \in Nat /\ 2 * MaxChildren <= MaxComm
      BY SlotFacts
    <3>2. comm'[s] = nextComm + s
      BY <2>1
    <3> QED  BY <1>t, <2>1, <3>1, <3>2
  <2>3. \A c \in Comms : c >= nextComm => Silent(c)'
    BY <2>1 DEF ChannelInv, Silent
  <2>4. \A s, t \in Slots : comm'[s] = comm'[t] => s = t
    BY <1>t, <2>2
  <2>5. \A c \in Comms : c >= nextComm' => c >= nextComm
    BY <1>t, <2>1, SlotFacts
  <2> QED  BY <2>1, <2>2, <2>3, <2>4, <2>5 DEF ChannelInv
<1>9. ASSUME NEW c \in Comms, WorkerSolve(c) PROVE ChannelInv'
  <2>1. /\ inbox[c] # <<>> /\ inbox' = [inbox EXCEPT ![c] = Tail(@)]
        /\ res' = [res EXCEPT ![c] = Append(@, SortTask(computeResult(Head(inbox[c]))))]
        /\ UNCHANGED <<pc, ret, buffered, sent, comm, nextComm>>
    BY <1>9, SolveEffect
  <2>2. Gathering' <=> Gathering
    BY <2>1 DEF Gathering
  <2>3. \A d \in Comms : d # c => inbox'[d] = inbox[d] /\ res'[d] = res[d]
    BY <1>t, <2>1
  <2>4. ASSUME ~Gathering, NEW s \in Slots
        PROVE  IF sent[s] THEN Waiting(comm[s], buffered[s])' ELSE Silent(comm[s])'
    <3>1. CASE comm[s] = c
      <4>1. sent[s] /\ inbox[c] = <<buffered[s]>> /\ res[c] = <<>>
        BY <2>1, <2>4, <3>1 DEF ChannelInv, Waiting, Silent
      <4> DEFINE b == buffered[s]
                 r == SortTask(computeResult(b))
      <4>2. inbox[c] = <<b>> /\ res[c] = <<>>
        BY <4>1
      <4> HIDE DEF b
      <4>3. Head(<<b>>) = b /\ Tail(<<b>>) = <<>>
        OBVIOUS
      <4>4. inbox'[c] = <<>> /\ res'[c] = Append(<<>>, r)
        BY <1>t, <2>1, <4>2, <4>3
      <4>5. Append(<<>>, r) = <<r>>
        OBVIOUS
      <4> QED  BY <2>1, <3>1, <4>1, <4>4, <4>5 DEF Waiting, b
    <3>2. CASE comm[s] # c
      <4>1. comm[s] \in Comms
        BY <1>t, <2>4
      <4>2. inbox'[comm[s]] = inbox[comm[s]] /\ res'[comm[s]] = res[comm[s]]
        BY <2>3, <3>2, <4>1
      <4>3. IF sent[s] THEN Waiting(comm[s], buffered[s]) ELSE Silent(comm[s])
        BY <2>4 DEF ChannelInv
      <4> QED  BY <2>1, <4>2, <4>3 DEF Waiting, Silent
    <3> QED  BY <3>1, <3>2
  <2>5. \A d \in Comms : d >= nextComm => Silent(d)'
    BY <2>1, <2>3 DEF ChannelInv, Silent
  <2> QED  BY <2>1, <2>2, <2>4, <2>5 DEF ChannelInv
<1> QED  BY <1>1, <1>2, <1>3, <1>4, <1>5, <1>6, <1>7, <1>8, <1>9, StepKinds

(* A merge task is sent only while another task is queued, so that its two
   arrays and three ints fit in the buffer.                                *)
LEMMA SentFits ==
  ASSUME Inv, TaskInv, SlotInv, SplitInv, PickSlave
  PROVE  PacketSize(Head(queue)) <= NumNumbers + 2
<1> DEFINE t == Head(queue)
<1>1. /\ pc = "pick" /\ queue \in Seq(Task) /\ queue # <<>> /\ t \in Task /\ Len(queue) > 1
  BY PickEffect
<1>2. t = queue[1] /\ 1 \in 1 .. Len(queue) /\ 2 \in 1 .. Len(queue) /\ queue[2] \in Task
  BY <1>1, LenProperties, ElementOfSeq
<1>3. GoodTask(t) /\ GoodTask(queue[2])
  BY <1>2 DEF TaskInv
<1>4. t.b1 \in Block /\ t.b2 \in Block /\ t.kind \in {"sort", "merge"}
  BY <1>1 DEF Task
<1>5. IsFiniteSet(Input) /\ Cardinality(Input) = NumNumbers /\ NumNumbers \in Nat
  <2>1. NumNumbers \in Nat \ {0} /\ 0 \in Int /\ NumNumbers - 1 \in Int
    BY SizesAssumption
  <2>2. /\ IsFiniteSet(0 .. NumNumbers - 1)
        /\ Cardinality(0 .. NumNumbers - 1) = IF 0 > NumNumbers - 1 THEN 0 ELSE NumNumbers - 1 - 0 + 1
    BY <2>1, FS_Interval
  <2> QED  BY <2>1, <2>2 DEF Input
<1>6. PICK n \in Input : n \in Items(queue[2])
  <2>1. Items(queue[2]) # {}
    BY <1>2, <1>3 DEF GoodTask, Items, Task
  <2>2. Items(queue[2]) \subseteq Input
    BY <1>2, ItemsInInput DEF TaskOrNull
  <2> QED  BY <2>1, <2>2
<1>7. n \notin Items(t)
  BY <1>1, <1>2, <1>6 DEF SplitInv, Split
<1> HIDE DEF t
<1> DEFINE a == t.b1.items
           b == t.b2.items
<1>8. a \subseteq Input /\ b \subseteq Input /\ n \notin a /\ n \notin b
  BY <1>4, <1>7 DEF Block, Items
<1>9. IsFiniteSet(a) /\ IsFiniteSet(b) /\ Cardinality(a) \in Nat /\ Cardinality(b) \in Nat
  BY <1>5, <1>8, FS_Subset, FS_CardinalityType
<1>10. PacketSize(t) = IF t.kind = "merge" THEN Cardinality(a) + Cardinality(b) + 3 ELSE Cardinality(a) + 2
  BY DEF PacketSize
<1>11. (t.kind = "merge") => a \cap b = {}
  BY <1>3 DEF GoodTask, t
<1> HIDE DEF a, b
<1>12. Cardinality(a) <= NumNumbers
  BY <1>5, <1>8, FS_Subset
<1>13. ASSUME a \cap b = {} PROVE Cardinality(a) + Cardinality(b) <= NumNumbers - 1
  <2>1. Cardinality(a \cup b) = Cardinality(a) + Cardinality(b) - Cardinality(a \cap b)
    BY <1>9, FS_Union
  <2>2. Cardinality(a \cap b) = 0
    BY <1>13, FS_EmptySet
  <2>3. IsFiniteSet(Input \ {n}) /\ Cardinality(Input \ {n}) = NumNumbers - 1
    BY <1>5, FS_RemoveElement
  <2>4. a \cup b \subseteq Input \ {n}
    BY <1>8
  <2>5. Cardinality(a \cup b) <= Cardinality(Input \ {n})
    BY <2>3, <2>4, FS_Subset
  <2> QED  BY <1>9, <2>1, <2>2, <2>3, <2>5
<1>14. PacketSize(t) <= NumNumbers + 2
  <2>1. CASE t.kind = "merge"
    <3>1. Cardinality(a) + Cardinality(b) <= NumNumbers - 1
      BY <1>11, <1>13, <2>1
    <3> QED  BY <1>5, <1>9, <1>10, <2>1, <3>1
  <2>2. CASE t.kind # "merge"
    BY <1>5, <1>9, <1>10, <1>12, <2>2
  <2> QED  BY <2>1, <2>2
<1> QED  BY <1>14 DEF t

LEMMA PacketIsInt ==
  ASSUME NEW t \in Task
  PROVE  PacketSize(t) \in Int
<1>1. IsFiniteSet(Input)
  BY SizesAssumption, FS_Interval DEF Input
<1>2. t.b1.items \subseteq Input /\ t.b2.items \subseteq Input
  BY DEF Task, Block
<1>3. Cardinality(t.b1.items) \in Nat /\ Cardinality(t.b2.items) \in Nat
  BY <1>1, <1>2, FS_Subset, FS_CardinalityType
<1> QED  BY <1>3 DEF PacketSize

LEMMA PacketStep ==
  ASSUME NoTornTakeover, FullInv, [Next]_vars
  PROVE  PacketBound'
<1> USE DEF FullInv, WorkInv
<1>0. Inv /\ GatherInv /\ CheckPointInv /\ SlotInv /\ ChannelInv /\ TaskInv /\ SplitInv /\ PacketBound
  OBVIOUS
<1>t. inbox \in [Comms -> Seq(Task)]
  BY DEF Inv, TypeOK, WorkerTypes
<1>1. CASE inbox' = inbox
  BY <1>1 DEF PacketBound, PacketSize
<1>2. CASE PickSlave
  <2> DEFINE d == comm[cur]
             h == Head(queue)
  <2>1. d \in Comms /\ h \in Task /\ inbox' = [inbox EXCEPT ![d] = Append(@, h)]
    BY <1>0, <1>2, PickEffect
  <2>2. PacketSize(h) <= NumNumbers + 2
    BY <1>0, <1>2, SentFits
  <2> HIDE DEF d, h
  <2>3. inbox[d] \in Seq(Task) /\ inbox'[d] = Append(inbox[d], h)
    BY <1>t, <2>1
  <2>4. /\ Len(inbox[d]) \in Nat /\ DOMAIN inbox[d] = 1 .. Len(inbox[d])
        /\ DOMAIN inbox'[d] = 1 .. Len(inbox[d]) + 1 /\ inbox'[d][Len(inbox[d]) + 1] = h
        /\ \A i \in 1 .. Len(inbox[d]) : inbox'[d][i] = inbox[d][i]
    BY <2>1, <2>3, AppendProperties, LenProperties
  <2>5. \A i \in 1 .. Len(inbox[d]) + 1 : i \in 1 .. Len(inbox[d]) \/ i = Len(inbox[d]) + 1
    BY <2>4
  <2>6. \A i \in DOMAIN inbox'[d] : PacketSize(inbox'[d][i]) <= NumNumbers + 2
    BY <2>1, <2>2, <2>4, <2>5 DEF PacketBound
  <2>7. \A c \in Comms : c # d => inbox'[c] = inbox[c]
    BY <1>t, <2>1
  <2>8. ASSUME NEW c \in Comms, NEW i \in DOMAIN inbox'[c] PROVE PacketSize(inbox'[c][i]) <= NumNumbers + 2
    BY <2>6, <2>7, <2>8 DEF PacketBound
  <2> QED  BY <2>8 DEF PacketBound, PacketSize
<1>3. ASSUME NEW d \in Comms, WorkerSolve(d) PROVE PacketBound'
  <2>1. inbox[d] # <<>> /\ inbox' = [inbox EXCEPT ![d] = Tail(@)]
    BY <1>3, SolveEffect
  <2>2. inbox[d] \in Seq(Task) /\ inbox'[d] = Tail(inbox[d])
    BY <1>t, <2>1
  <2>3. /\ Len(inbox[d]) \in Nat /\ DOMAIN inbox[d] = 1 .. Len(inbox[d])
        /\ DOMAIN inbox'[d] = 1 .. Len(inbox[d]) - 1
        /\ \A i \in 1 .. Len(inbox[d]) - 1 : inbox'[d][i] = inbox[d][i + 1]
    BY <2>1, <2>2, HeadTailProperties, LenProperties
  <2>4. \A i \in 1 .. Len(inbox[d]) - 1 : i + 1 \in 1 .. Len(inbox[d])
    BY <2>3
  <2>5. \A i \in DOMAIN inbox'[d] : PacketSize(inbox'[d][i]) <= NumNumbers + 2
    BY <2>3, <2>4 DEF PacketBound
  <2>6. \A c \in Comms : c # d => inbox'[c] = inbox[c]
    BY <1>t, <2>1
  <2>7. ASSUME NEW c \in Comms, NEW i \in DOMAIN inbox'[c] PROVE PacketSize(inbox'[c][i]) <= NumNumbers + 2
    BY <2>5, <2>6, <2>7 DEF PacketBound
  <2> QED  BY <2>7 DEF PacketBound, PacketSize
<1>4. CASE Quiet
  BY <1>0, <1>1, <1>4, QuietFrame
<1>5. CASE ReceiveTask \/ SpawnWorkers \/ ProbeTimeout \/ ReceiveResult \/ finish_solving \/ MirrorTakesOver
  BY <1>1, <1>5 DEF ReceiveTask, SpawnWorkers, ProbeTimeout, ReceiveResult, finish_solving, MirrorTakesOver,
     workers, chans
<1> QED  BY <1>2, <1>3, <1>4, <1>5, StepKinds

LEMMA FinishStep ==
  ASSUME NoTornTakeover, FullInv, [Next]_vars
  PROVE  FinishInv'
<1> USE DEF FullInv, WorkInv
<1>0. Inv /\ GatherInv /\ CheckPointInv /\ SlotInv /\ ChannelInv /\ TaskInv /\ SplitInv /\ FinishInv
  OBVIOUS
<1>t. queue \in Seq(Task) /\ cur \in Slots /\ Len(queue) \in Nat
  BY LenProperties DEF Inv, TypeOK, MasterTypes
<1>1. CASE Quiet
  <2>1. UNCHANGED <<queue, output>> /\ (pc' = "done" <=> pc = "done")
    BY <1>0, <1>1, QuietFrame
  <2>2. ASSUME pc' \in {"quit", "finish"} PROVE Len(queue) = 1
    <3>1. CASE WhileTest
      <4>1. pc = "loop" /\ ~AnotherTask /\ NoneOut /\ inq >= 1
        BY <2>2, <3>1 DEF WhileTest, Inv, LoopInv, PhaseInv
      <4> QED  BY <1>t, <4>1 DEF AnotherTask, NoneOut
    <3>2. CASE ~WhileTest
      <4>1. pc \in {"quit", "finish"}
        BY <1>1, <2>2, <3>2 DEF Quiet, MirrorSendsTasks, EndOfGather, Barrier, MirrorDeserializes,
           TruncateCheckPoint, WriteCheckPoint, CrashServer, SkipSlot, EndOfRecv, Probe, Alive, Return,
           send_quit_to_slaves, MirrorIsReleased, MasterDeath, MirrorDeath, WorkerHeader, WorkerTimeout, WorkerDeath, vars
      <4> QED  BY <4>1 DEF FinishInv
    <3> QED  BY <3>1, <3>2
  <2> QED  BY <2>1, <2>2 DEF FinishInv
<1>2. CASE ReceiveTask
  BY <1>2 DEF ReceiveTask, disk, FinishInv
<1>3. CASE SpawnWorkers
  <2>1. pc = "spawn" /\ pc' = "loop" /\ UNCHANGED output
    BY <1>0, <1>3, SpawnEffect
  <2> QED  BY <2>1 DEF FinishInv
<1>4. CASE PickSlave
  <2>1. pc = "pick" /\ pc' = "recv" /\ UNCHANGED output
    BY <1>0, <1>4, PickEffect
  <2> QED  BY <2>1 DEF FinishInv
<1>5. CASE ProbeTimeout
  <2>1. pc = "alive" /\ pc' = "recv" /\ UNCHANGED output
    BY <1>0, <1>5, TimeoutEffect
  <2> QED  BY <2>1 DEF FinishInv
<1>6. CASE ReceiveResult
  <2>1. pc = "result" /\ pc' = "loop" /\ UNCHANGED output
    BY <1>0, <1>6, ResultEffect
  <2> QED  BY <2>1 DEF FinishInv
<1>7. CASE finish_solving
  <2> DEFINE h == Head(queue)
             last == computeResult(h)
             all == IF merge1 = NoTask THEN last ELSE computeResult(MergeTask(last, merge1.b1))
  <2>1. /\ pc = "finish" /\ pc' = "done" /\ queue # <<>> /\ output' = IF all.sorted THEN all ELSE output
    BY <1>0, <1>7, FinishEffect
  <2>2. Len(queue) = 1 /\ h = queue[1] /\ h \in Task
    BY <1>t, <2>1, HeadTailProperties DEF FinishInv
  <2>3. GoodTask(h)
    BY <2>2 DEF TaskInv
  <2>4. SortTask(last) \in Task /\ GoodResult(SortTask(last)) /\ Items(SortTask(last)) = Items(h)
        /\ SortTask(last).b1 = last /\ last.items = Items(h) /\ last.sorted = TRUE
    BY <2>2, <2>3, ResultFacts DEF SortTask
  <2>5. Items(buffered[cur]) = {}
    <3>1. ~sent[cur]
      BY <1>t, <2>1 DEF Inv, LoopInv, PhaseInv, NoneOut, OnlySent
    <3> QED  BY <1>t, <3>1, NullFacts DEF SlotInv
  <2>6. \A n \in Input : n \in Items(h) \/ n \in Items(merge1)
    <3>1. Split(queue, {}, Items(merge1))
      BY <2>1, <2>5 DEF SplitInv
    <3>2. \A i \in 1 .. Len(queue) : queue[i] = h
      BY <2>2
    <3> QED  BY <3>1, <3>2 DEF Split
  <2>7. Items(h) \subseteq Input /\ Items(merge1) \subseteq Input
    BY <2>2, ItemsInInput DEF TaskOrNull, Inv, TypeOK, MasterTypes
  <2>8. Items(h) \cup Items(merge1) = Input
    BY <2>6, <2>7
  <2> DEFINE whole == [items |-> Input, sorted |-> TRUE]
  <2>9. CASE merge1 = NoTask
    <3>1. all = last /\ Items(h) = Input
      BY <2>8, <2>9, NullFacts
    <3>2. last = whole
      <4>1. last = [items |-> last.items, sorted |-> last.sorted]
        BY DEF computeResult
      <4> QED  BY <2>4, <3>1, <4>1
    <3> HIDE DEF all, last
    <3>3. output' = whole
      BY <2>1, <3>1, <3>2
    <3> QED  BY <2>1, <3>3 DEF FinishInv
  <2>10. CASE merge1 # NoTask
    <3> DEFINE m == MergeTask(last, merge1.b1)
    <3>1. merge1 \in Task /\ GoodResult(merge1)
      BY <1>0, <2>10, MergeTypes
    <3>2. Items(SortTask(last)) \cap Items(merge1) = {}
      <4>1. Split(queue, {}, Items(merge1))
        BY <2>1, <2>5 DEF SplitInv
      <4>2. \A n \in Input : ~(n \in Items(h) /\ n \in Items(merge1))
        <5>1. 1 \in 1 .. Len(queue)
          BY <2>2
        <5> QED  BY <2>2, <4>1, <5>1 DEF Split
      <4> QED  BY <2>4, <2>7, <4>2
    <3>3. m \in Task /\ GoodTask(m) /\ Items(m) = Input
      BY <2>4, <2>8, <3>1, <3>2, MergeFacts, ZenonT(40)
    <3> HIDE DEF m
    <3>4. computeResult(m) = whole
      <4>1. SortTask(computeResult(m)).b1 = computeResult(m)
        BY DEF SortTask
      <4>2. computeResult(m).items = Input /\ computeResult(m).sorted = TRUE
        BY <3>3, <4>1, ResultFacts
      <4>3. computeResult(m) = [items |-> computeResult(m).items, sorted |-> computeResult(m).sorted]
        BY DEF computeResult
      <4> QED  BY <4>2, <4>3
    <3>5. all = whole
      BY <2>10, <3>4 DEF m
    <3> QED  BY <2>1, <3>5 DEF FinishInv
  <2> QED  BY <2>9, <2>10
<1>8. CASE MirrorTakesOver
  <2>1. pc = "dead" /\ pc' = "loop" /\ UNCHANGED output
    BY <1>0, <1>8, TakeoverEffect
  <2> QED  BY <2>1 DEF FinishInv
<1>9. CASE \E c \in Comms : WorkerSolve(c)
  <2>1. UNCHANGED <<queue, output, pc>>
    BY <1>9, SolveEffect
  <2> QED  BY <2>1 DEF FinishInv
<1> QED  BY <1>1, <1>2, <1>3, <1>4, <1>5, <1>6, <1>7, <1>8, <1>9, StepKinds

LEMMA InitWork == Init => WorkInv
<1> SUFFICES ASSUME Init PROVE WorkInv
  OBVIOUS
<1>1. GatherInv
  BY DEF Init, GatherInv, Gathering, Incomplete, Unsent, NoTasks, OnlySent
<1>2. CheckPointInv
  BY DEF Init, CheckPointInv
<1>3. TaskInv
  <2>1. queue = OwnTasks(0) /\ wire = <<>> /\ buffered = NoTasks /\ merge1 = NoTask
    BY DEF Init, NoTasks
  <2>2. /\ NPackets(0) \in Nat /\ NPackets(1) \in Nat /\ Len(AllTasks) = NPackets(0) + NPackets(1)
        /\ Len(OwnTasks(0)) = NPackets(0) /\ \A i \in 1 .. NPackets(0) : OwnTasks(0)[i] = next_task(0, i - 1)
    BY AllTasksFacts DEF OwnTasks
  <2>3. ASSUME NEW i \in 1 .. NPackets(0) PROVE GoodTask(next_task(0, i - 1))
    <3>1. i \in 1 .. Len(AllTasks) /\ ROf(i) = 0 /\ KOf(i) = i - 1
      BY <2>2 DEF ROf, KOf
    <3> QED  BY <3>1, AllTasksFacts, AllTasksGood
  <2>4. \A s \in Slots : GoodTask(buffered[s])
    BY <2>1, NullFacts DEF NoTasks
  <2> QED  BY <2>1, <2>2, <2>3, <2>4 DEF TaskInv
<1>4. SlotInv
  BY DEF Init, SlotInv
<1>5. SplitInv
  BY DEF Init, SplitInv
<1>6. ChannelInv
  BY DEF Init, ChannelInv, Gathering, Silent
<1>7. PacketBound
  BY DEF Init, PacketBound
<1>8. FinishInv
  BY DEF Init, FinishInv
<1> QED  BY <1>1, <1>2, <1>3, <1>4, <1>5, <1>6, <1>7, <1>8 DEF WorkInv

(* The full inductive invariant, of the control and of the tasks, holds,
   provided a mirror that can be told to take over has read a whole
   checkpoint.                                                             *)
THEOREM FullInvariance ==
  ASSUME NoTornTakeover
  PROVE  Spec => []FullInv
<1>1. FullInv /\ [Next]_vars => FullInv'
  <2>1. Inv /\ [Next]_vars => Inv'
    BY MasterTypesStep, MirrorTypesStep, WorkerTypesStep, PhaseStep, LoopStep,
       MirrorStep, ErrorStep DEF Inv, TypeOK
  <2>2. FullInv /\ [Next]_vars => WorkInv'
    BY GatherStep, CheckPointStep, TaskStep, SlotStep, SplitStep, ChannelStep, PacketStep, FinishStep
       DEF WorkInv
  <2> QED  BY <2>1, <2>2 DEF FullInv
<1>2. Init => FullInv
  BY InitInv, InitWork DEF FullInv
<1> QED  BY <1>1, <1>2, PTL DEF Spec

(* Through every death, late answer, retry, merge and takeover each number
   is in exactly one task, merges get ordered halves, no stale result is
   accepted and every packet fits task_buffer, for any number of workers and
   any input that is at least two ints shorter than that buffer.           *)
THEOREM TasksStaySound ==
  ASSUME NoTornTakeover, InputFits
  PROVE  Spec => []TasksSound
<1>1. FullInv => HeldOnce
  <2> SUFFICES ASSUME FullInv, Solving, NEW n \in Input
               PROVE  \E h \in Holders(n) : Holders(n) = {h}
    BY DEF HeldOnce
  <2>1. /\ Split(queue, Items(buffered[cur]), Items(merge1)) /\ SlotInv /\ cur \in Slots
        /\ DOMAIN queue = 1 .. Len(queue)
    BY LenProperties DEF FullInv, WorkInv, SplitInv, Solving, Inv, TypeOK, MasterTypes
  <2>2. \A s \in Slots : s # cur => n \notin Items(buffered[s])
    BY <2>1, NullFacts DEF SlotInv
  <2>3. /\ (\E i \in DOMAIN queue : n \in Items(queue[i])) \/ n \in Items(buffered[cur]) \/ n \in Items(merge1)
        /\ \A i, j \in DOMAIN queue : n \in Items(queue[i]) /\ n \in Items(queue[j]) => i = j
        /\ \A i \in DOMAIN queue : n \in Items(queue[i]) => n \notin Items(buffered[cur]) /\ n \notin Items(merge1)
        /\ ~(n \in Items(buffered[cur]) /\ n \in Items(merge1))
    BY <2>1 DEF Split
  <2>4. ASSUME NEW i \in DOMAIN queue, n \in Items(queue[i]) PROVE Holders(n) = {<<"queue", i>>}
    BY <2>1, <2>2, <2>3, <2>4 DEF Holders
  <2>5. ASSUME n \in Items(buffered[cur]) PROVE Holders(n) = {<<"slot", cur>>}
    BY <2>1, <2>2, <2>3, <2>5 DEF Holders
  <2>6. ASSUME n \in Items(merge1) PROVE Holders(n) = {<<"merge", 1>>}
    BY <2>1, <2>2, <2>3, <2>6 DEF Holders
  <2> QED  BY <2>3, <2>4, <2>5, <2>6
<1>2. FullInv => MergesOrdered
  <2> SUFFICES ASSUME FullInv PROVE MergesOrdered
    OBVIOUS
  <2>1. TaskInv /\ DOMAIN queue = 1 .. Len(queue)
    BY LenProperties DEF FullInv, WorkInv, Inv, TypeOK, MasterTypes
  <2>2. NoTask.kind # "sort"
    BY DEF NoTask
  <2> QED  BY <2>1, <2>2 DEF MergesOrdered, TaskInv, GoodTask, GoodResult, Ready
<1>3. FullInv => ResultMatchesTask
  <2> SUFFICES ASSUME FullInv, pc \in {"alive", "result"}, NEW i \in DOMAIN res[comm[it]]
               PROVE  Items(res[comm[it]][i]) = Items(buffered[it])
    BY DEF ResultMatchesTask
  <2>1. it \in Slots /\ sent[it] /\ buffered[it] \in Task /\ ~Gathering
    BY LoopFacts DEF FullInv
  <2> DEFINE t == buffered[it]
             r == SortTask(computeResult(t))
             s == res[comm[it]]
  <2>2. s = <<>> \/ s = <<r>>
    BY <2>1 DEF FullInv, WorkInv, ChannelInv, Waiting
  <2>3. Items(r) = Items(t)
    BY <2>1, ResultFacts DEF FullInv, WorkInv, TaskInv
  <2>4. i \in DOMAIN s
    OBVIOUS
  <2> HIDE DEF r, s, t
  <2>5. s = <<r>> /\ i = 1
    BY <2>2, <2>4
  <2>6. s[i] = r
    BY <2>5
  <2> QED  BY <2>3, <2>6 DEF s, t
<1>4. FullInv => TasksSound
  <2> SUFFICES ASSUME FullInv PROVE PacketFits
    BY <1>1, <1>2, <1>3 DEF TasksSound
  <2>1. /\ NumNumbers + 2 <= MAX_PACKET_SIZE /\ NumNumbers \in Nat /\ MAX_PACKET_SIZE \in Nat
        /\ inbox \in [Comms -> Seq(Task)] /\ PacketBound
    BY SizesAssumption, ModeAssumption DEF InputFits, FullInv, Inv, TypeOK, WorkerTypes, WorkInv
  <2>2. ASSUME NEW c \in Comms, NEW i \in DOMAIN inbox[c] PROVE PacketSize(inbox[c][i]) <= MAX_PACKET_SIZE
    <3> DEFINE t == inbox[c][i]
    <3>1. t \in Task
      BY <2>1, <2>2
    <3>2. PacketSize(t) <= NumNumbers + 2
      BY <2>1, <2>2 DEF PacketBound
    <3>3. PacketSize(t) \in Int
      BY <3>1, PacketIsInt
    <3> HIDE DEF t
    <3>4. PacketSize(t) <= MAX_PACKET_SIZE
      BY <2>1, <3>2, <3>3
    <3> QED  BY <3>4 DEF t
  <2> QED  BY <2>2 DEF PacketFits
<1> QED  BY FullInvariance, <1>4, PTL

(* A master that finishes, rank 0 or the mirror after a takeover, has
   written the whole input in order.                                       *)
THEOREM OutputIsComplete ==
  ASSUME NoTornTakeover
  PROVE  Spec => []OutputComplete
<1>1. FullInv => OutputComplete
  BY DEF FullInv, WorkInv, FinishInv, OutputComplete
<1> QED  BY FullInvariance, <1>1, PTL

-----------------------------------------------------------------------------
(* The service implements the pool of blocks. *)

Blocks(t) == {t.b1, t.b2} \ {NoBlock}
BlocksIn(q) == UNION {Blocks(q[i]) : i \in 1 .. Len(q)}
PoolFrom(q, t, m) == BlocksIn(q) \cup Blocks(t) \cup Blocks(m)

LEMMA SamePool ==
  /\ Pool!NoBlock = NoBlock /\ Pool!Input = Input
  /\ Pool!OwnTasks(0) = OwnTasks(0) /\ Pool!OwnTasks(1) = OwnTasks(1)
  /\ Pool!FirstPool = {OwnTasks(0)[i].b1 : i \in DOMAIN OwnTasks(0)} \cup {OwnTasks(1)[i].b1 : i \in DOMAIN OwnTasks(1)}
<1>1. Pool!NoBlock = NoBlock /\ Pool!Input = Input
  BY DEF Pool!NoBlock, NoBlock, Pool!Input, Input
<1>2. /\ \A b : Pool!SortTask(b) = SortTask(b)
      /\ \A r : Pool!MyNumbers(r) = MyNumbers(r) /\ Pool!MyOffset(r) = MyOffset(r) /\ Pool!NPackets(r) = NPackets(r)
  BY <1>1 DEF Pool!SortTask, SortTask, Pool!MyNumbers, MyNumbers, Pool!OrigSize, OrigSize, Pool!MyOffset, MyOffset,
     Pool!NPackets, NPackets
<1>3. \A r, k : Pool!next_task(r, k) = next_task(r, k)
  BY <1>2 DEF Pool!next_task, next_task
<1>4. \A r : Pool!OwnTasks(r) = OwnTasks(r)
  BY <1>2, <1>3 DEF Pool!OwnTasks, OwnTasks
<1> QED  BY <1>1, <1>4 DEF Pool!FirstPool, Pool!BlocksOf

(* The blocks of the first tasks.                                          *)
LEMMA FirstBlocks ==
  /\ \A b : b \in Pool!FirstPool <=> \E i \in 1 .. Len(AllTasks) : b = AllTasks[i].b1
  /\ \A b : (\E i \in DOMAIN OwnTasks(1) : b = OwnTasks(1)[i].b1)
            => \E i \in 1 .. Len(AllTasks) : b = AllTasks[i].b1
  /\ \A i \in 1 .. Len(AllTasks) : Blocks(AllTasks[i]) = {AllTasks[i].b1}
  /\ BlocksIn(AllTasks) = Pool!FirstPool
<1>1. /\ OwnTasks(0) \in Seq(Task) /\ OwnTasks(1) \in Seq(Task)
      /\ DOMAIN OwnTasks(0) = 1 .. Len(OwnTasks(0)) /\ DOMAIN OwnTasks(1) = 1 .. Len(OwnTasks(1))
      /\ Len(OwnTasks(0)) \in Nat /\ Len(OwnTasks(1)) \in Nat
  BY OwnTasksFacts, LenProperties
<1> DEFINE x == OwnTasks(0)
           y == OwnTasks(1)
<1>2. /\ Len(AllTasks) = Len(x) + Len(y)
      /\ \A i \in 1 .. Len(x) + Len(y) : AllTasks[i] = IF i <= Len(x) THEN x[i] ELSE y[i - Len(x)]
  BY <1>1, ConcatProperties DEF AllTasks
<1>3. /\ Len(x) \in Nat /\ Len(y) \in Nat /\ DOMAIN x = 1 .. Len(x) /\ DOMAIN y = 1 .. Len(y)
      /\ Pool!FirstPool = {x[i].b1 : i \in 1 .. Len(x)} \cup {y[i].b1 : i \in 1 .. Len(y)}
  BY <1>1, SamePool
<1> HIDE DEF x, y
<1>4. ASSUME NEW i \in 1 .. Len(x)
      PROVE  i \in 1 .. Len(AllTasks) /\ AllTasks[i] = x[i]
  BY <1>2, <1>3
<1>5. ASSUME NEW i \in 1 .. Len(y)
      PROVE  Len(x) + i \in 1 .. Len(AllTasks) /\ AllTasks[Len(x) + i] = y[i]
  <2>1. Len(x) + i \in 1 .. Len(x) + Len(y) /\ ~(Len(x) + i <= Len(x)) /\ (Len(x) + i) - Len(x) = i
    BY <1>3
  <2> QED  BY <1>2, <2>1
<1>6. ASSUME NEW i \in 1 .. Len(AllTasks) PROVE AllTasks[i].b1 \in Pool!FirstPool
  <2>1. CASE i <= Len(x)
    BY <1>2, <1>3, <2>1
  <2>2. CASE ~(i <= Len(x))
    <3>1. i - Len(x) \in 1 .. Len(y)
      BY <1>2, <1>3, <2>2
    <3> QED  BY <1>2, <1>3, <2>2, <3>1
  <2> QED  BY <2>1, <2>2
<1>7. \A b : b \in Pool!FirstPool <=> \E i \in 1 .. Len(AllTasks) : b = AllTasks[i].b1
  <2>1. ASSUME NEW b \in Pool!FirstPool PROVE \E i \in 1 .. Len(AllTasks) : b = AllTasks[i].b1
    <3>1. CASE \E i \in 1 .. Len(x) : b = x[i].b1
      BY <1>4, <3>1
    <3>2. CASE \E i \in 1 .. Len(y) : b = y[i].b1
      <4>1. PICK i \in 1 .. Len(y) : b = y[i].b1
        BY <3>2
      <4>2. Len(x) + i \in 1 .. Len(AllTasks) /\ b = AllTasks[Len(x) + i].b1
        BY <1>5, <4>1
      <4> QED  BY <4>2
    <3> QED  BY <1>3, <3>1, <3>2
  <2> QED  BY <1>6, <2>1
<1>8. ASSUME NEW i \in 1 .. Len(AllTasks) PROVE Blocks(AllTasks[i]) = {AllTasks[i].b1}
  BY AllTasksGood DEF Blocks, GoodTask, NoBlock
<1>9. BlocksIn(AllTasks) = Pool!FirstPool
  <2>1. \A b : b \in BlocksIn(AllTasks) <=> \E i \in 1 .. Len(AllTasks) : b \in Blocks(AllTasks[i])
    BY DEF BlocksIn
  <2>2. \A i \in 1 .. Len(AllTasks) : \A b : b \in Blocks(AllTasks[i]) <=> b = AllTasks[i].b1
    BY <1>8
  <2>3. \A b : b \in BlocksIn(AllTasks) <=> \E i \in 1 .. Len(AllTasks) : b = AllTasks[i].b1
    BY <2>1, <2>2
  <2>4. \A b : b \in BlocksIn(AllTasks) <=> b \in Pool!FirstPool
    BY <1>7, <2>3
  <2> QED  BY <2>4
<1>10. \A b : (\E i \in DOMAIN y : b = y[i].b1) => b \in Pool!FirstPool
  BY <1>3
<1> QED  BY <1>7, <1>8, <1>9, <1>10 DEF y

LEMMA PoolMembers ==
  ASSUME pc # "done", SlotInv, cur \in Slots, NEW b,
         DOMAIN queue = 1 .. Len(queue), DOMAIN wire = 1 .. Len(wire)
  PROVE  b \in PoolOf <=>
           \/ b \in BlocksIn(queue) \/ b \in Blocks(buffered[cur]) \/ b \in Blocks(merge1)
           \/ b \in BlocksIn(wire)
           \/ Unsent /\ b # NoBlock /\ \E i \in DOMAIN OwnTasks(1) : b = OwnTasks(1)[i].b1
<1>1. \A s \in Slots : s # cur => buffered[s].b1 = NoBlock /\ buffered[s].b2 = NoBlock
  BY DEF SlotInv, NoTask
<1>2. b \in PoolOf <=>
        /\ b # NoBlock
        /\ \/ \E i \in DOMAIN queue : b = queue[i].b1 \/ b = queue[i].b2
           \/ \E s \in Slots : b = buffered[s].b1 \/ b = buffered[s].b2
           \/ \E i \in DOMAIN wire : b = wire[i].b1 \/ b = wire[i].b2
           \/ b = merge1.b1 \/ b = merge1.b2
           \/ Unsent /\ \E i \in DOMAIN OwnTasks(1) : b = OwnTasks(1)[i].b1
  <2> DEFINE tasks == {queue[i] : i \in DOMAIN queue} \cup {buffered[s] : s \in Slots}
                      \cup {wire[i] : i \in DOMAIN wire} \cup {merge1}
             later == IF Unsent THEN OwnTasks(1) ELSE <<>>
  <2>1. PoolOf = {d \in {t.b1 : t \in tasks} \cup {t.b2 : t \in tasks} \cup {later[i].b1 : i \in DOMAIN later} :
                    d # NoBlock}
    BY DEF PoolOf
  <2>2. (\E i \in DOMAIN later : b = later[i].b1) <=> (Unsent /\ \E i \in DOMAIN OwnTasks(1) : b = OwnTasks(1)[i].b1)
    <3>1. CASE Unsent
      BY <3>1
    <3>2. CASE ~Unsent
      <4>1. later = <<>> /\ DOMAIN <<>> = {}
        BY <3>2
      <4> QED  BY <3>2, <4>1
    <3> QED  BY <3>1, <3>2
  <2> HIDE DEF later
  <2>3. (\E t \in tasks : b = t.b1 \/ b = t.b2) <=>
           \/ \E i \in DOMAIN queue : b = queue[i].b1 \/ b = queue[i].b2
           \/ \E s \in Slots : b = buffered[s].b1 \/ b = buffered[s].b2
           \/ \E i \in DOMAIN wire : b = wire[i].b1 \/ b = wire[i].b2
           \/ b = merge1.b1 \/ b = merge1.b2
    OBVIOUS
  <2> HIDE DEF tasks
  <2>4. b \in PoolOf <=> b # NoBlock /\ ((\E t \in tasks : b = t.b1 \/ b = t.b2) \/ \E i \in DOMAIN later : b = later[i].b1)
    BY <2>1
  <2> QED  BY <2>2, <2>3, <2>4
<1>3. (b # NoBlock /\ \E s \in Slots : b = buffered[s].b1 \/ b = buffered[s].b2) <=> b \in Blocks(buffered[cur])
  BY <1>1 DEF Blocks
<1>4. (b # NoBlock /\ \E i \in DOMAIN queue : b = queue[i].b1 \/ b = queue[i].b2) <=> b \in BlocksIn(queue)
  BY DEF Blocks, BlocksIn
<1>5. (b # NoBlock /\ \E i \in DOMAIN wire : b = wire[i].b1 \/ b = wire[i].b2) <=> b \in BlocksIn(wire)
  BY DEF Blocks, BlocksIn
<1>6. (b # NoBlock /\ (b = merge1.b1 \/ b = merge1.b2)) <=> b \in Blocks(merge1)
  BY DEF Blocks
<1> QED  BY <1>2, <1>3, <1>4, <1>5, <1>6

LEMMA BlocksFacts ==
  /\ BlocksIn(<<>>) = {} /\ Blocks(NoTask) = {}
  /\ \A q, b : b \in BlocksIn(q) <=> \E i \in 1 .. Len(q) : b \in Blocks(q[i])
BY DEF BlocksIn, Blocks, NoTask

LEMMA BlocksConcat ==
  ASSUME NEW p \in Seq(Task), NEW q \in Seq(Task)
  PROVE  BlocksIn(p \o q) = BlocksIn(p) \cup BlocksIn(q)
<1> DEFINE c == p \o q
<1>1. /\ Len(p) \in Nat /\ Len(q) \in Nat /\ Len(c) = Len(p) + Len(q)
      /\ \A i \in 1 .. Len(p) + Len(q) : c[i] = IF i <= Len(p) THEN p[i] ELSE q[i - Len(p)]
  BY ConcatProperties, LenProperties
<1> HIDE DEF c
<1>2. \A i \in 1 .. Len(p) : i \in 1 .. Len(c) /\ c[i] = p[i]
  BY <1>1
<1>3. ASSUME NEW i \in 1 .. Len(q) PROVE Len(p) + i \in 1 .. Len(c) /\ c[Len(p) + i] = q[i]
  <2>1. Len(p) + i \in 1 .. Len(p) + Len(q) /\ ~(Len(p) + i <= Len(p)) /\ (Len(p) + i) - Len(p) = i
    BY <1>1
  <2> QED  BY <1>1, <2>1
<1>4. ASSUME NEW i \in 1 .. Len(c)
      PROVE  (i \in 1 .. Len(p) /\ c[i] = p[i]) \/ (i - Len(p) \in 1 .. Len(q) /\ c[i] = q[i - Len(p)])
  BY <1>1
<1>5. ASSUME NEW b PROVE b \in BlocksIn(c) <=> b \in BlocksIn(p) \/ b \in BlocksIn(q)
  <2>1. b \in BlocksIn(c) => b \in BlocksIn(p) \/ b \in BlocksIn(q)
    BY <1>4, BlocksFacts
  <2>2. b \in BlocksIn(p) => b \in BlocksIn(c)
    BY <1>2, BlocksFacts
  <2>3. b \in BlocksIn(q) => b \in BlocksIn(c)
    BY <1>3, BlocksFacts
  <2> QED  BY <2>1, <2>2, <2>3
<1> QED  BY <1>5 DEF c

LEMMA BlocksSingle == \A t : BlocksIn(<<t>>) = Blocks(t)
<1> TAKE t
<1>1. Len(<<t>>) = 1 /\ <<t>>[1] = t /\ \A i \in 1 .. 1 : i = 1
  OBVIOUS
<1>2. \A b : b \in BlocksIn(<<t>>) <=> b \in Blocks(t)
  BY <1>1, BlocksFacts
<1> QED  BY <1>2

LEMMA BlocksAppend ==
  ASSUME NEW q \in Seq(Task), NEW t \in Task
  PROVE  BlocksIn(Append(q, t)) = BlocksIn(q) \cup Blocks(t)
<1>1. Append(q, t) = q \o <<t>> /\ <<t>> \in Seq(Task)
  BY AppendIsConcat
<1> QED  BY <1>1, BlocksConcat, BlocksSingle

LEMMA BlocksTail ==
  ASSUME NEW q \in Seq(Task), q # <<>>
  PROVE  BlocksIn(q) = Blocks(Head(q)) \cup BlocksIn(Tail(q))
<1>1. q = <<Head(q)>> \o Tail(q) /\ Head(q) \in Task /\ Tail(q) \in Seq(Task)
  BY HeadTailProperties
<1> DEFINE h == Head(q)
           t == Tail(q)
<1>2. q = <<h>> \o t /\ <<h>> \in Seq(Task) /\ t \in Seq(Task)
  BY <1>1
<1> HIDE DEF h, t
<1> QED  BY <1>2, BlocksConcat, BlocksSingle DEF h, t

PoolState == Inv /\ GatherInv /\ SlotInv /\ TaskInv

LEMMA PoolTypes ==
  ASSUME PoolState
  PROVE  /\ cur \in Slots /\ queue \in Seq(Task) /\ wire \in Seq(Task)
         /\ DOMAIN queue = 1 .. Len(queue) /\ DOMAIN wire = 1 .. Len(wire)
         /\ buffered \in [Slots -> TaskOrNull] /\ merge1 \in TaskOrNull
BY LenProperties DEF PoolState, Inv, TypeOK, MasterTypes, MirrorTypes

LEMMA PoolSteady ==
  ASSUME PoolState, pc # "done", ~Incomplete
  PROVE  PoolOf = PoolFrom(queue, buffered[cur], merge1)
<1>1. wire = <<>> /\ ~Unsent
  BY DEF PoolState, GatherInv
<1>2. BlocksIn(wire) = {}
  BY <1>1, BlocksFacts
<1>3. \A b : b \in PoolOf <=> b \in BlocksIn(queue) \/ b \in Blocks(buffered[cur]) \/ b \in Blocks(merge1)
  BY <1>1, <1>2, PoolTypes, PoolMembers DEF PoolState
<1> QED  BY <1>3 DEF PoolFrom

LEMMA PoolGathering ==
  ASSUME PoolState, Incomplete
  PROVE  PoolOf = Pool!FirstPool
<1>1. buffered[cur] = NoTask /\ merge1 = NoTask
  BY PoolTypes DEF PoolState, GatherInv, Incomplete, NoTasks
<1>2. ASSUME NEW b
      PROVE  b \in PoolOf <=> \/ b \in BlocksIn(queue) \/ b \in BlocksIn(wire)
                              \/ Unsent /\ b # NoBlock /\ \E i \in DOMAIN OwnTasks(1) : b = OwnTasks(1)[i].b1
  BY <1>1, PoolTypes, PoolMembers, BlocksFacts DEF PoolState, Incomplete
<1>3. BlocksIn(OwnTasks(0)) \cup BlocksIn(OwnTasks(1)) = Pool!FirstPool
  BY OwnTasksFacts, BlocksConcat, FirstBlocks DEF AllTasks
<1>4. CASE Unsent
  <2>1. queue = OwnTasks(0) /\ wire = <<>>
    BY <1>4 DEF PoolState, GatherInv
  <2>2. /\ DOMAIN OwnTasks(1) = 1 .. Len(OwnTasks(1))
        /\ \A i \in 1 .. Len(OwnTasks(1)) : OwnTasks(1)[i].b2 = NoBlock
    <3>1. NPackets(1) \in Nat
      BY Packets
    <3>2. Len(OwnTasks(1)) = NPackets(1) /\ DOMAIN OwnTasks(1) = 1 .. NPackets(1)
          /\ \A i \in 1 .. NPackets(1) : OwnTasks(1)[i] = next_task(1, i - 1) /\ i - 1 \in Nat
      BY <3>1 DEF OwnTasks
    <3> QED  BY <3>2, NextTaskItems
  <2>3. \A b : (b # NoBlock /\ \E i \in DOMAIN OwnTasks(1) : b = OwnTasks(1)[i].b1) <=> b \in BlocksIn(OwnTasks(1))
    BY <2>2, BlocksFacts DEF Blocks
  <2>4. \A b : b \in PoolOf <=> b \in BlocksIn(OwnTasks(0)) \/ b \in BlocksIn(OwnTasks(1))
    BY <1>2, <1>4, <2>1, <2>3, BlocksFacts
  <2>5. \A b : b \in PoolOf <=> b \in Pool!FirstPool
    BY <1>3, <2>4
  <2> QED  BY <2>5
<1>5. CASE ~Unsent
  <2>1. queue \o wire = AllTasks
    BY <1>5 DEF PoolState, GatherInv
  <2>2. BlocksIn(queue) \cup BlocksIn(wire) = Pool!FirstPool
    BY <2>1, PoolTypes, BlocksConcat, FirstBlocks
  <2>3. \A b : b \in PoolOf <=> b \in Pool!FirstPool
    BY <1>2, <1>5, <2>2
  <2> QED  BY <2>3
<1> QED  BY <1>4, <1>5

(* What the pool is in every state.                                        *)
PoolIs ==
  /\ Incomplete => PoolOf = Pool!FirstPool
  /\ pc = "done" => PoolOf = {output}
  /\ (pc # "done" /\ ~Incomplete) => PoolOf = PoolFrom(queue, buffered[cur], merge1)

LEMMA PoolShape == FullInv => PoolIs
<1> SUFFICES ASSUME FullInv PROVE PoolIs
  OBVIOUS
<1>1. PoolState
  BY DEF FullInv, WorkInv, PoolState
<1>2. pc = "done" => PoolOf = {output}
  BY DEF PoolOf
<1> QED  BY <1>1, <1>2, PoolGathering, PoolSteady DEF PoolIs

LEMMA PoolOfUntouched ==
  ASSUME NEW q, NEW b, NEW m, NEW s \in Slots, q = AllTasks, b = NoTasks, m = NoTask
  PROVE  PoolFrom(q, b[s], m) = Pool!FirstPool
<1>1. b[s] = NoTask
  BY DEF NoTasks
<1> QED  BY <1>1, BlocksFacts, FirstBlocks DEF PoolFrom

(* The blocks of the result that waits, and of the one that arrives.       *)
LEMMA ResultBlocks ==
  ASSUME NEW r, GoodResult(r)
  PROVE  Blocks(r) = {r.b1}
BY DEF GoodResult, Blocks, NoBlock

LEMMA MergeBlocks ==
  ASSUME NEW a, NEW r, GoodResult(a), GoodResult(r)
  PROVE  Blocks(MergeTask(a.b1, r.b1)) = {a.b1, r.b1}
BY DEF GoodResult, Blocks, NoBlock, MergeTask

(* Together the blocks hold the whole input.                               *)
LEMMA PoolCovers ==
  ASSUME NEW q \in Seq(Task), NEW t \in TaskOrNull, NEW m \in TaskOrNull,
         Split(q, Items(t), Items(m))
  PROVE  UNION {b.items : b \in PoolFrom(q, t, m)} = Input
<1> DEFINE P == PoolFrom(q, t, m)
<1>1. \A b : b \in P <=> (\E i \in 1 .. Len(q) : b \in Blocks(q[i])) \/ b \in Blocks(t) \/ b \in Blocks(m)
  BY BlocksFacts DEF PoolFrom
<1>2. \A x : \A n \in Items(x) : \E b \in Blocks(x) : n \in b.items
  BY DEF Items, Blocks, NoBlock
<1>3. \A x : \A b \in Blocks(x) : b.items \subseteq Items(x)
  BY DEF Items, Blocks
<1>4. \A i \in 1 .. Len(q) : Items(q[i]) \subseteq Input
  <2> TAKE i \in 1 .. Len(q)
  <2>1. q[i] \in TaskOrNull
    BY ElementOfSeq DEF TaskOrNull
  <2> QED  BY <2>1, ItemsInInput
<1>5. Items(t) \subseteq Input /\ Items(m) \subseteq Input
  BY ItemsInInput
<1> HIDE DEF P
<1>6. ASSUME NEW n \in Input PROVE \E b \in P : n \in b.items
  <2>1. (\E i \in 1 .. Len(q) : n \in Items(q[i])) \/ n \in Items(t) \/ n \in Items(m)
    BY DEF Split
  <2>2. CASE \E i \in 1 .. Len(q) : n \in Items(q[i])
    <3>1. PICK i \in 1 .. Len(q) : n \in Items(q[i])
      BY <2>2
    <3>2. PICK b \in Blocks(q[i]) : n \in b.items
      BY <1>2, <3>1
    <3> QED  BY <1>1, <3>1, <3>2
  <2>3. CASE n \in Items(t)
    <3>1. PICK b \in Blocks(t) : n \in b.items
      BY <1>2, <2>3
    <3> QED  BY <1>1, <3>1
  <2>4. CASE n \in Items(m)
    <3>1. PICK b \in Blocks(m) : n \in b.items
      BY <1>2, <2>4
    <3> QED  BY <1>1, <3>1
  <2> QED  BY <2>1, <2>2, <2>3, <2>4
<1>7. ASSUME NEW b \in P PROVE b.items \subseteq Input
  BY <1>1, <1>3, <1>4, <1>5
<1> QED  BY <1>6, <1>7 DEF P

(* No other block shares a number with a task that is out.                 *)
LEMMA PoolApart ==
  ASSUME NEW q \in Seq(Task), NEW t \in Task, NEW m, GoodTask(t), Split(q, Items(t), Items(m))
  PROVE  /\ t.b1 \notin BlocksIn(q) \cup Blocks(m)
         /\ t.kind = "merge" => t.b2 \notin BlocksIn(q) \cup Blocks(m)
<1>1. \A x : \A b \in Blocks(x) : b.items \subseteq Items(x)
  BY DEF Items, Blocks
<1>2. Items(t) \subseteq Input
  BY ItemsInInput DEF TaskOrNull
<1>3. ASSUME NEW b, b \in BlocksIn(q) \cup Blocks(m) PROVE b.items \cap Items(t) = {}
  <2>1. CASE b \in BlocksIn(q)
    <3>1. PICK i \in 1 .. Len(q) : b \in Blocks(q[i])
      BY <2>1, BlocksFacts
    <3>2. \A n \in Items(t) : n \notin Items(q[i])
      BY <1>2 DEF Split
    <3> QED  BY <1>1, <3>1, <3>2
  <2>2. CASE b \in Blocks(m)
    <3>1. \A n \in Items(t) : n \notin Items(m)
      BY <1>2 DEF Split
    <3> QED  BY <1>1, <2>2, <3>1
  <2> QED  BY <1>3, <2>1, <2>2
<1>4. t.kind \in {"sort", "merge"} /\ t.b1.items \subseteq Items(t) /\ t.b2.items \subseteq Items(t)
  BY DEF Task, Items
<1>5. t.b1.items # {} /\ (t.kind = "merge" => t.b2.items # {})
  BY <1>4 DEF GoodTask
<1> QED  BY <1>3, <1>4, <1>5

LEMMA InOrder ==
  ASSUME NEW b \in Block
  PROVE  [b EXCEPT !.sorted = TRUE] = [items |-> b.items, sorted |-> TRUE]
<1> DEFINE d == [b EXCEPT !.sorted = TRUE]
<1>1. b \in [items : SUBSET Input, sorted : BOOLEAN]
  BY DEF Block
<1>2. d \in [items : SUBSET Input, sorted : BOOLEAN] /\ d.items = b.items /\ d.sorted = TRUE
  BY <1>1
<1> HIDE DEF d
<1>3. d = [items |-> d.items, sorted |-> d.sorted]
  BY <1>2
<1>4. d = [items |-> b.items, sorted |-> TRUE]
  BY <1>2, <1>3
<1> QED  BY <1>4 DEF d

(* A result that arrives sorts one block or merges two.                    *)
LEMMA PoolResult ==
  ASSUME FullInv, FullInv', ReceiveResult
  PROVE  Pool!PoolNext
<1>0. Inv /\ ChannelInv /\ TaskInv /\ SplitInv
  BY DEF FullInv, WorkInv
<1> DEFINE t == buffered[cur]
           c == computeResult(t)
           r == SortTask(c)
           R == BlocksIn(queue) \cup Blocks(merge1)
<1>1. /\ pc = "result" /\ pc' = "loop" /\ cur \in Slots /\ t \in Task /\ UNCHANGED <<cur, output>>
      /\ buffered' = [buffered EXCEPT ![cur] = NoTask]
      /\ IF merge1 = NoTask THEN merge1' = r /\ UNCHANGED queue
         ELSE queue' = Append(queue, MergeTask(merge1.b1, r.b1)) /\ merge1' = NoTask
  BY <1>0, ResultEffect
<1>2. queue \in Seq(Task) /\ buffered'[cur'] = NoTask /\ GoodTask(t)
  BY <1>0, <1>1 DEF TaskInv, Inv, TypeOK, MasterTypes
<1>3. r \in Task /\ GoodResult(r) /\ r.b1 = c /\ c.items = Items(t) /\ c.sorted = TRUE /\ Items(r) = Items(t)
  BY <1>1, <1>2, ResultFacts DEF SortTask
<1>4. c = [items |-> Items(t), sorted |-> TRUE]
  <2>1. c = [items |-> c.items, sorted |-> c.sorted]
    BY DEF computeResult
  <2> QED  BY <1>3, <2>1
<1>5. PoolOf = R \cup Blocks(t)
  <2>1. PoolOf = PoolFrom(queue, t, merge1)
    BY <1>1, PoolShape DEF PoolIs, Incomplete
  <2> QED  BY <2>1 DEF PoolFrom
<1>6. Split(queue, Items(t), Items(merge1))
  BY <1>0, <1>1 DEF SplitInv
<1> HIDE DEF c, r, t
<1>7. PoolOf' = BlocksIn(queue') \cup Blocks(merge1')
  <2>1. FullInv' => PoolIs'
    BY PoolShape, PTL
  <2>2. PoolOf' = PoolFrom(queue', buffered'[cur'], merge1')
    BY <1>1, <2>1 DEF PoolIs, Incomplete
  <2> QED  BY <1>2, <2>2, BlocksFacts DEF PoolFrom
<1>8. PoolOf' = R \cup {c}
  <2>1. CASE merge1 = NoTask
    <3>1. Blocks(merge1) = {} /\ Blocks(r) = {c} /\ merge1' = r /\ queue' = queue
      BY <1>1, <1>3, <2>1, BlocksFacts, ResultBlocks
    <3> QED  BY <1>7, <3>1
  <2>2. CASE merge1 # NoTask
    <3> DEFINE m == MergeTask(merge1.b1, r.b1)
    <3>1. merge1 \in Task /\ GoodResult(merge1)
      BY <1>0, <2>2, MergeTypes
    <3>2. Items(merge1) \cap Items(r) = {}
      BY <1>0, <1>1, <1>3, ResultApart DEF t
    <3>3. m \in Task
      BY <1>3, <3>1, <3>2, MergeFacts
    <3>4. Blocks(m) = {merge1.b1, c} /\ Blocks(merge1) = {merge1.b1}
      BY <1>3, <3>1, MergeBlocks, ResultBlocks
    <3>5. queue' = Append(queue, m) /\ merge1' = NoTask
      BY <1>1, <2>2
    <3> HIDE DEF m
    <3>6. BlocksIn(queue') = BlocksIn(queue) \cup {merge1.b1, c} /\ Blocks(merge1') = {}
      BY <1>2, <3>3, <3>4, <3>5, BlocksAppend, BlocksFacts
    <3> QED  BY <1>7, <3>4, <3>6
  <2> QED  BY <2>1, <2>2
<1>9. t.b1 \notin R /\ (t.kind = "merge" => t.b2 \notin R)
  BY <1>1, <1>2, <1>6, PoolApart
<1>10. t.kind \in {"sort", "merge"} /\ t.b1 \in Block /\ t.b2 \in Block
  BY <1>1 DEF Task
<1> HIDE DEF R
<1>11. CASE t.kind = "sort"
  <2>1. t.b2 = NoBlock /\ t.b1 # NoBlock /\ Items(t) = t.b1.items
    BY <1>2, <1>11 DEF GoodTask, NoBlock, Items
  <2>2. Blocks(t) = {t.b1}
    BY <2>1 DEF Blocks
  <2>3. [t.b1 EXCEPT !.sorted = TRUE] = c
    BY <1>4, <1>10, <2>1, InOrder
  <2>4. t.b1 \in PoolOf /\ PoolOf' = (PoolOf \ {t.b1}) \cup {[t.b1 EXCEPT !.sorted = TRUE]}
    BY <1>5, <1>8, <1>9, <2>2, <2>3
  <2>5. Pool!SortOne
    BY <1>1, <2>4 DEF Pool!SortOne
  <2> QED  BY <2>5 DEF Pool!PoolNext
<1>12. CASE t.kind = "merge"
  <2>1. /\ t.b1.sorted /\ t.b2.sorted /\ t.b1 # NoBlock /\ t.b2 # NoBlock /\ t.b1 # t.b2
        /\ Items(t) = t.b1.items \cup t.b2.items
    BY <1>2, <1>12 DEF GoodTask, NoBlock, Items
  <2>2. Blocks(t) = {t.b1, t.b2}
    BY <2>1 DEF Blocks
  <2>3. c = [items |-> t.b1.items \cup t.b2.items, sorted |-> TRUE]
    BY <1>4, <2>1
  <2>4. /\ t.b1 \in PoolOf /\ t.b2 \in PoolOf
        /\ PoolOf' = (PoolOf \ {t.b1, t.b2}) \cup {[items |-> t.b1.items \cup t.b2.items, sorted |-> TRUE]}
    BY <1>5, <1>8, <1>9, <1>12, <2>2, <2>3
  <2>5. Pool!MergeTwo
    BY <1>1, <2>1, <2>4 DEF Pool!MergeTwo
  <2> QED  BY <2>5 DEF Pool!PoolNext
<1> QED  BY <1>10, <1>11, <1>12

(* Every other step leaves the pool alone, writes the output or starts over. *)
LEMMA PoolStep ==
  ASSUME NoTornTakeover, FullInv, FullInv', [Next]_vars
  PROVE  [Pool!PoolNext]_<<PoolOf, output>>
<1>0. Inv /\ GatherInv /\ CheckPointInv /\ SlotInv /\ ChannelInv /\ TaskInv /\ SplitInv /\ FinishInv
  BY DEF FullInv, WorkInv
<1>t. /\ queue \in Seq(Task) /\ buffered \in [Slots -> TaskOrNull] /\ merge1 \in TaskOrNull
      /\ cur \in Slots /\ 0 \in Slots /\ cur' \in Slots
  BY SlotFacts DEF FullInv, Inv, TypeOK, MasterTypes
<1>p. PoolIs
  BY PoolShape
<1>q. PoolIs'
  <2>1. FullInv' => PoolIs'
    BY PoolShape, PTL
  <2> QED  BY <2>1
<1>1. CASE Quiet
  <2>1. UNCHANGED <<queue, buffered, merge1, cur, output>> /\ (pc' = "done" <=> pc = "done")
    BY <1>0, <1>1, QuietFrame
  <2>2. (Gathering' <=> Gathering) /\ (Pool!FirstPool)' = Pool!FirstPool
    BY <1>0, <1>1, QuietFrame DEF Pool!FirstPool
  <2>3. ASSUME Untouched PROVE PoolFrom(queue, buffered[cur], merge1) = Pool!FirstPool
    BY <1>t, <2>3, PoolOfUntouched DEF Untouched
  <2>4. CASE Gathering
    <3>1. ~Incomplete => Untouched
      BY <1>0, <2>4 DEF GatherInv
    <3>2. ~Incomplete' => Untouched'
      BY <2>2, <2>4 DEF FullInv, WorkInv, GatherInv
    <3>3. Untouched' <=> Untouched
      BY <2>1 DEF Untouched
    <3>4. pc # "done" => PoolOf = Pool!FirstPool /\ PoolOf' = Pool!FirstPool
      BY <1>p, <1>q, <2>1, <2>2, <2>3, <3>1, <3>2, <3>3 DEF PoolIs
    <3> QED  BY <1>p, <1>q, <2>1, <3>4 DEF PoolIs
  <2>5. CASE ~Gathering
    <3>1. ~Incomplete /\ ~Incomplete'
      BY <2>2, <2>5 DEF Incomplete
    <3> QED  BY <1>p, <1>q, <2>1, <3>1 DEF PoolIs
  <2> QED  BY <2>4, <2>5
<1>2. CASE ReceiveTask
  <2>1. pc = "gather" /\ UNCHANGED <<pc, output>>
    BY <1>2 DEF ReceiveTask, disk
  <2> QED  BY <1>p, <1>q, <2>1 DEF PoolIs, Incomplete, Gathering
<1>3. CASE SpawnWorkers
  <2>1. pc = "spawn" /\ pc' = "loop" /\ Untouched /\ UNCHANGED <<queue, buffered, merge1, output>>
    BY <1>0, <1>3, SpawnEffect
  <2>2. /\ PoolFrom(queue, buffered[cur], merge1) = Pool!FirstPool
        /\ PoolFrom(queue', buffered'[cur'], merge1') = Pool!FirstPool
    BY <1>t, <2>1, PoolOfUntouched DEF Untouched
  <2> QED  BY <1>p, <1>q, <2>1, <2>2 DEF PoolIs
<1>4. CASE PickSlave
  <2>1. /\ pc = "pick" /\ pc' = "recv" /\ ~sent[cur] /\ queue # <<>> /\ queue' = Tail(queue)
        /\ buffered' = [buffered EXCEPT ![cur] = Head(queue)] /\ UNCHANGED <<cur, merge1, output>>
    BY <1>0, <1>4, PickEffect
  <2>2. buffered[cur] = NoTask /\ buffered'[cur'] = Head(queue)
    BY <1>0, <1>t, <2>1 DEF SlotInv
  <2>3. BlocksIn(queue) = Blocks(Head(queue)) \cup BlocksIn(Tail(queue)) /\ Blocks(NoTask) = {}
    BY <1>t, <2>1, BlocksTail, BlocksFacts
  <2>4. PoolFrom(queue', buffered'[cur'], merge1') = PoolFrom(queue, buffered[cur], merge1)
    BY <2>1, <2>2, <2>3 DEF PoolFrom
  <2> QED  BY <1>p, <1>q, <2>1, <2>4 DEF PoolIs, Incomplete
<1>5. CASE ProbeTimeout
  <2>1. /\ pc = "alive" /\ pc' = "recv" /\ buffered[cur] \in Task /\ queue' = Append(queue, buffered[cur])
        /\ buffered' = [buffered EXCEPT ![cur] = NoTask] /\ UNCHANGED <<cur, merge1, output>>
    BY <1>0, <1>5, TimeoutEffect
  <2>2. buffered'[cur'] = NoTask
    BY <1>t, <2>1
  <2>3. BlocksIn(queue') = BlocksIn(queue) \cup Blocks(buffered[cur]) /\ Blocks(NoTask) = {}
    BY <1>t, <2>1, BlocksAppend, BlocksFacts
  <2>4. PoolFrom(queue', buffered'[cur'], merge1') = PoolFrom(queue, buffered[cur], merge1)
    BY <2>1, <2>2, <2>3 DEF PoolFrom
  <2> QED  BY <1>p, <1>q, <2>1, <2>4 DEF PoolIs, Incomplete
<1>6. CASE ReceiveResult
  BY <1>6, PoolResult
<1>7. CASE finish_solving
  <2>1. pc = "finish" /\ pc' = "done"
    BY <1>0, <1>7, FinishEffect
  <2>2. output = NoBlock /\ output' = [items |-> Input, sorted |-> TRUE]
    <3>1. FinishInv'
      BY DEF FullInv, WorkInv
    <3> QED  BY <1>0, <2>1, <3>1 DEF FinishInv
  <2>3. PoolOf = PoolFrom(queue, buffered[cur], merge1) /\ PoolOf' = {output'}
    BY <1>p, <1>q, <2>1 DEF PoolIs, Incomplete
  <2>4. UNION {b.items : b \in PoolOf} = Input
    <3>1. buffered[cur] \in TaskOrNull /\ Split(queue, Items(buffered[cur]), Items(merge1))
      BY <1>0, <1>t, <2>1 DEF SplitInv
    <3> QED  BY <1>t, <2>3, <3>1, PoolCovers
  <2>5. Pool!Deliver
    BY <2>2, <2>3, <2>4, SamePool DEF Pool!Deliver
  <2> QED  BY <2>5 DEF Pool!PoolNext
<1>8. CASE MirrorTakesOver
  <2>1. pc = "dead" /\ pc' = "loop" /\ Untouched' /\ UNCHANGED output
    BY <1>0, <1>8, TakeoverEffect
  <2>2. PoolFrom(queue', buffered'[cur'], merge1') = Pool!FirstPool
    BY <1>t, <2>1, PoolOfUntouched DEF Untouched
  <2>3. PoolOf' = Pool!FirstPool /\ output = NoBlock
    BY <1>0, <1>q, <2>1, <2>2 DEF PoolIs, FinishInv
  <2>4. Pool!Restart
    BY <2>1, <2>3, SamePool DEF Pool!Restart
  <2> QED  BY <2>4 DEF Pool!PoolNext
<1>9. CASE \E c \in Comms : WorkerSolve(c)
  <2>1. UNCHANGED <<pc, ret, queue, buffered, merge1, cur, output>>
    BY <1>9, SolveEffect
  <2> QED  BY <1>p, <1>q, <2>1 DEF PoolIs, Incomplete, Gathering
<1> QED  BY <1>1, <1>2, <1>3, <1>4, <1>5, <1>6, <1>7, <1>8, <1>9, StepKinds

(* Masters, mirror, workers and the messages between them implement the pool
   of blocks of MergePool: however workers die, answer late or are replaced
   and whenever the mirror takes over, the numbers of the input are only
   sorted block by block and merged two ordered blocks at a time, or started
   over, and what is written is the whole input in order, once.            *)
THEOREM ImplementsPool ==
  ASSUME NoTornTakeover
  PROVE  Spec => RefinesPool
<1>1. Init => Pool!PoolInit
  <2> SUFFICES ASSUME Init PROVE Pool!PoolInit
    OBVIOUS
  <2>1. FullInv
    BY InitInv, InitWork DEF FullInv
  <2>2. PoolOf = Pool!FirstPool
    BY <2>1, PoolShape DEF PoolIs, Incomplete, Gathering, Init
  <2> QED  BY <2>2, SamePool DEF Pool!PoolInit, Init
<1>2. FullInv /\ FullInv' /\ [Next]_vars => [Pool!PoolNext]_(Pool!poolVars)
  BY PoolStep DEF Pool!poolVars
<1> QED  BY <1>1, <1>2, FullInvariance, PTL DEF Spec, RefinesPool, Pool!PoolSpec
==============================================================================
