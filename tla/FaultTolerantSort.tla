-------------------------- MODULE FaultTolerantSort --------------------------
(***************************************************************************)
(* FaultTolerantService: a master (rank 0) hands sort and merge tasks to   *)
(* worker processes over MPI, a mirror master (rank 1) waits to take over. *)
(*                                                                         *)
(* At most one process runs main_loop() at a time: rank 0 sends its        *)
(* takeover message as its last act.  The variables of main_loop() and of  *)
(* the TasksManager are therefore kept once, for the rank in active; the   *)
(* mirror's own TasksManager is mirror until it takes over.                *)
(*                                                                         *)
(* MPI is external: messages between a pair of processes are buffered and  *)
(* delivered in order, one channel per tag and intercommunicator.          *)
(***************************************************************************)
EXTENDS SortTasks

CONSTANTS
  MaxChildren,   \* MAX_CHILDREN_NUMBER
  MAX_PACKET_SIZE, \* int's in task_buffer
  MaxFaults,     \* bound: worker deaths and late answers in one behaviour
  ServerCrash,   \* built with -DSERVER_CRASH
  PromptMirror,  \* rank 1 reads the checkpoint before rank 0 has spawned
  MasterDies,    \* either master may die at any point, without a word
  WorkerDies     \* a worker may die at any point, not only when told to

ASSUME ModeAssumption ==
  /\ MaxChildren \in Nat \ {0}
  /\ MaxFaults \in Nat /\ MAX_PACKET_SIZE \in Nat
  /\ {ServerCrash, PromptMirror, MasterDies, WorkerDies} \subseteq BOOLEAN

Slots == 0 .. MaxChildren - 1

(* Bound: intercommunicators, two generations of workers plus respawns.    *)
MaxComm == 2 * MaxChildren + MaxFaults
Comms == 1 .. MaxComm

Torn == [queue |-> <<>>, buffered |-> [s \in Slots |-> NoTask],
         merge1 |-> NoTask, whole |-> FALSE]

VARIABLES
  pc,        \* where the active master is
  active,    \* rank of the process that runs, or will run, main_loop()
  queue,     \* m_tasks
  buffered,  \* m_buffered_tasks
  merge1,    \* merge_task1
  inq,       \* ntasks_in_queue
  torecv,    \* ntasks_to_receive
  cur,       \* current_slave
  sent,      \* task_sent
  size,      \* the global slaves_size
  it,        \* loop counter of check_recv_from_slaves()
  ret,       \* where check_recv_from_slaves() returns to
  comm,      \* slaves_comm
  mpc,       \* where rank 1 is, until it becomes active
  mirror,    \* the TasksManager of rank 1, until it becomes active
  wire,      \* tasks rank 1 sends to rank 0 (tag 0)
  notice,    \* headers rank 0 sends to rank 1 (tag 1)
  file,      \* CHECK_POINT_FILE
  output,    \* the output file
  nextComm,  \* the next intercommunicator MPI_Comm_spawn() returns
  wst,       \* state of the worker behind each intercommunicator
  hdr,       \* headers to a worker (tag 2)
  echo,      \* its answers (tag 2)
  inbox,     \* tasks to it (tag 1)
  res,       \* its results (tag 1)
  faults     \* faults so far

manager == <<queue, buffered, merge1>>
loopVars == <<inq, torecv, cur, sent, size, it, ret>>
mirrorVars == <<mpc, mirror, wire, notice>>
disk == <<file, output>>
chans == <<hdr, echo, inbox, res>>
workers == <<wst, chans, nextComm, comm>>
vars == <<pc, active, manager, loopVars, mirrorVars, disk, workers, faults>>

-----------------------------------------------------------------------------
Init ==
  /\ pc = "gather" /\ active = 0
  /\ queue = OwnTasks(0)
  /\ buffered = [s \in Slots |-> NoTask] /\ merge1 = NoTask
  /\ inq = 0 /\ torecv = 0 /\ cur = 0 /\ size = 0 /\ it = 0 /\ ret = "barrier"
  /\ sent = [s \in Slots |-> FALSE]
  /\ mpc = "send" /\ mirror = Torn /\ wire = <<>> /\ notice = <<>>
  /\ file = Torn /\ output = NoBlock
  /\ nextComm = 1 /\ comm = [s \in Slots |-> 0]
  /\ wst = [c \in Comms |-> "unborn"]
  /\ hdr = [c \in Comms |-> <<>>] /\ echo = [c \in Comms |-> <<>>]
  /\ inbox = [c \in Comms |-> <<>>] /\ res = [c \in Comms |-> <<>>]
  /\ faults = 0

-----------------------------------------------------------------------------
(* main(), before the fault-tolerant zone.                                 *)

MirrorSendsTasks ==
  /\ mpc = "send"
  /\ wire' = OwnTasks(1)
  /\ mpc' = "barrier"
  /\ UNCHANGED <<pc, active, manager, loopVars, mirror, notice, disk, workers,
                 faults>>

(* Rank 1 has not sent its tasks, or has died without doing so.            *)
Unsent == mpc \in {"send", "lost"}

ReceiveTask ==
  /\ pc = "gather" /\ wire # <<>>
  /\ queue' = Append(queue, Head(wire))
  /\ wire' = Tail(wire)
  /\ UNCHANGED <<pc, active, buffered, merge1, loopVars, mpc, mirror, notice,
                 disk, workers, faults>>

(* All npackets tasks of rank 1 have been received.                        *)
EndOfGather ==
  /\ pc = "gather" /\ wire = <<>> /\ ~Unsent
  /\ pc' = "truncate"
  /\ UNCHANGED <<active, manager, loopVars, mirrorVars, disk, workers, faults>>

(* serialize(): fopen(.., "wb") empties the file, fclose() makes it whole.  *)
TruncateCheckPoint ==
  /\ pc = "truncate"
  /\ file' = Torn
  /\ pc' = "write"
  /\ UNCHANGED <<active, manager, loopVars, mirrorVars, output, workers, faults>>

WriteCheckPoint ==
  /\ pc = "write"
  /\ file' = [queue |-> queue, buffered |-> buffered, merge1 |-> merge1,
              whole |-> TRUE]
  /\ pc' = IF ret = "barrier" THEN "barrier"
           ELSE IF ServerCrash /\ active = 0 THEN "crash" ELSE "pick"
  /\ UNCHANGED <<active, manager, loopVars, mirrorVars, output, workers, faults>>

Barrier ==
  /\ pc = "barrier" /\ mpc = "barrier"
  /\ pc' = "spawn" /\ mpc' = "deserialize"
  /\ UNCHANGED <<active, manager, loopVars, mirror, wire, notice, disk, workers,
                 faults>>

deserialize_stops_early(f) ==
  [f EXCEPT !.queue = IF @ = <<>> THEN @ ELSE SubSeq(@, 1, Len(@) - 1)]

(* deserialize() finds the tasks of the queue by their headers.  The other
   pointers were written as whole tasks but are read as sizeof(MergeTask)
   bytes: NULL comes back as NULL and anything else as garbage.            *)
deserialize(f) ==
  LET read(t) == IF t = NoTask THEN NoTask ELSE Garbage
  IN  [queue |-> f.queue, buffered |-> [s \in Slots |-> read(f.buffered[s])],
       merge1 |-> read(f.merge1), whole |-> f.whole]

(* A file that is being rewritten either fails assert(0) on a header or, if
   the unread size is not positive, yields no task.                        *)
MirrorDeserializes ==
  /\ mpc = "deserialize"
  /\ \/ mirror' = deserialize(file) /\ mpc' = "poll"
     \/ ~file.whole /\ mirror' = Torn /\ mpc' = "aborted"
  /\ UNCHANGED <<pc, active, manager, loopVars, wire, notice, disk, workers,
                 faults>>

spawn_workers ==
  /\ comm' = [s \in Slots |-> nextComm + s]
  /\ nextComm' = nextComm + MaxChildren
  /\ wst' = [c \in Comms |-> IF \E s \in Slots : c = nextComm + s
                             THEN "idle" ELSE wst[c]]

(* The state main_loop() starts from.                                      *)
main_loop(q) ==
  /\ inq' = Len(q) /\ torecv' = 0 /\ cur' = 0
  /\ sent' = [s \in Slots |-> FALSE]
  /\ it' = 0 /\ ret' = "loop"
  /\ pc' = "loop"

SpawnWorkers ==
  /\ pc = "spawn"
  /\ PromptMirror => mpc # "deserialize"
  /\ spawn_workers
  /\ size' = MaxChildren
  /\ main_loop(queue)
  /\ UNCHANGED <<active, manager, mirrorVars, disk, chans, faults>>

-----------------------------------------------------------------------------
(* main_loop(), run by rank 0 and, after a takeover, by rank 1.            *)

AnotherTask_hands_out_last == inq > 0
AnotherTask == inq > 1

WhileTest ==
  /\ pc = "loop"
  /\ IF AnotherTask
       THEN pc' = "truncate" /\ ret' = "find" /\ UNCHANGED it
     ELSE IF inq + torecv <= 0 \/ (inq = 1 /\ torecv = 0)
       THEN pc' = "quit" /\ UNCHANGED <<ret, it>>
     ELSE pc' = "recv" /\ ret' = "loop" /\ it' = 0
  /\ UNCHANGED <<active, manager, inq, torecv, cur, sent, size, mirrorVars,
                 disk, workers, faults>>

CrashServer_goes_on ==
  /\ pc = "crash"
  /\ notice' = Append(notice, 111)
  /\ pc' = "pick"
  /\ UNCHANGED <<active, manager, loopVars, mpc, mirror, wire, disk, workers,
                 faults>>

CrashServer_silent ==
  /\ pc = "crash" /\ pc' = "dead"
  /\ UNCHANGED <<active, manager, loopVars, mirrorVars, disk, workers, faults>>

(* The SERVER_CRASH block.                                                 *)
CrashServer ==
  /\ pc = "crash"
  /\ notice' = Append(notice, 111)
  /\ pc' = "dead"
  /\ UNCHANGED <<active, manager, loopVars, mpc, mirror, wire, disk, workers,
                 faults>>

(* removeTask(current_slave) and send_task().  On an empty queue the task is
   NULL, and send_task() asks it for its size.                             *)
SendTask ==
  IF queue = <<>>
    THEN pc' = "segv" /\ UNCHANGED <<queue, buffered, torecv, sent, inbox, it, ret>>
    ELSE /\ queue' = Tail(queue)
         /\ buffered' = [buffered EXCEPT ![cur] = Head(queue)]
         /\ torecv' = torecv + 1
         /\ inbox' = [inbox EXCEPT ![comm[cur]] = Append(@, Head(queue))]
         /\ sent' = [sent EXCEPT ![cur] = TRUE]
         /\ pc' = "recv" /\ ret' = "loop" /\ it' = 0

(* The next slave is (current_slave + 1) % slaves_size; rank 1 spawns its
   workers through a local size and leaves slaves_size at 0.               *)
NextSlave ==
  IF size = 0
    THEN pc' = "sigfpe" /\ UNCHANGED <<cur, ret, it>>
    ELSE cur' = (cur + 1) % size /\ pc' = "recv" /\ ret' = "find" /\ it' = 0

PickSlave ==
  /\ pc = "pick"
  /\ IF sent[cur] THEN NextSlave /\ UNCHANGED <<queue, buffered, torecv, sent, inbox>>
                  ELSE SendTask /\ UNCHANGED cur
  /\ UNCHANGED <<active, merge1, inq, size, mirrorVars, disk, wst, hdr, echo, res,
                 nextComm, comm, faults>>

-----------------------------------------------------------------------------
(* check_recv_from_slaves().                                               *)

Return == IF ret = "find" THEN "truncate" ELSE "loop"

SkipSlot ==
  /\ pc = "recv" /\ it < MaxChildren /\ ~sent[it]
  /\ it' = it + 1
  /\ UNCHANGED <<pc, active, manager, inq, torecv, cur, sent, size, ret,
                 mirrorVars, disk, workers, faults>>

EndOfRecv ==
  /\ pc = "recv" /\ it = MaxChildren
  /\ pc' = Return
  /\ UNCHANGED <<active, manager, loopVars, mirrorVars, disk, workers, faults>>

(* is_process_alive((rand() % 4) == 0, ...): a header of 1 makes the worker
   exit, 0 makes it answer.                                                *)
Probe(h) ==
  /\ pc = "recv" /\ it < MaxChildren /\ sent[it]
  /\ h = 1 => faults < MaxFaults
  /\ hdr' = [hdr EXCEPT ![comm[it]] = Append(@, h)]
  /\ faults' = faults + h
  /\ pc' = "alive"
  /\ UNCHANGED <<active, manager, loopVars, mirrorVars, disk, wst, echo, inbox,
                 res, nextComm, comm>>

Alive ==
  /\ pc = "alive" /\ echo[comm[it]] # <<>>
  /\ echo' = [echo EXCEPT ![comm[it]] = Tail(@)]
  /\ pc' = "result"
  /\ UNCHANGED <<active, manager, loopVars, mirrorVars, disk, wst, hdr, inbox,
                 res, nextComm, comm, faults>>

(* A task that was not solved goes back to the end of the queue.           *)
set_task_failed_keeps(s) ==
  queue' = Append(queue, buffered[s]) /\ UNCHANGED buffered

set_task_failed_clears_first(s) ==
  /\ buffered' = [buffered EXCEPT ![s] = NoTask]
  /\ queue' = Append(queue, buffered'[s])

set_task_failed(s) ==
  /\ queue' = IF buffered[s] = NoTask THEN queue ELSE Append(queue, buffered[s])
  /\ buffered' = [buffered EXCEPT ![s] = NoTask]

RespawnWorker_same(s) == UNCHANGED <<comm, wst, nextComm>>

RespawnWorker(s) ==
  /\ comm' = [comm EXCEPT ![s] = nextComm]
  /\ wst' = [wst EXCEPT ![nextComm] = "idle"]
  /\ nextComm' = nextComm + 1

(* No answer within TIMEOUT seconds: the worker is dead, about to exit, or
   merely late (which counts as a fault).  It is replaced.               *)
ProbeTimeout ==
  LET c == comm[it]
      gone == wst[c] = "exited" \/ (hdr[c] # <<>> /\ Head(hdr[c]) = 1)
  IN  /\ pc = "alive" /\ nextComm \in Comms
      /\ gone \/ faults < MaxFaults
      /\ faults' = IF gone THEN faults ELSE faults + 1
      /\ RespawnWorker(it)
      /\ set_task_failed(it)
      /\ sent' = [sent EXCEPT ![it] = FALSE]
      /\ torecv' = torecv - 1
      /\ it' = it + 1 /\ pc' = "recv"
      /\ UNCHANGED <<active, merge1, inq, cur, size, ret, mirrorVars, disk,
                     chans>>

(* A result waits in merge_task1 for a second one; only then is there a new
   task in the queue.                                                      *)
putMergeTask_miscounts(r) ==
  IF merge1 = NoTask
    THEN merge1' = r /\ UNCHANGED <<queue, inq>>
    ELSE /\ queue' = Append(queue, MergeTask(merge1.b1, r.b1))
         /\ merge1' = NoTask /\ UNCHANGED inq

putMergeTask(r) ==
  IF merge1 = NoTask
    THEN merge1' = r /\ inq' = inq - 1 /\ UNCHANGED queue
    ELSE /\ queue' = Append(queue, MergeTask(merge1.b1, r.b1))
         /\ merge1' = NoTask /\ UNCHANGED inq

ReceiveResult ==
  LET r == Head(res[comm[it]])
  IN  /\ pc = "result" /\ res[comm[it]] # <<>>
      /\ res' = [res EXCEPT ![comm[it]] = Tail(@)]
      /\ torecv' = torecv - 1
      /\ sent' = [sent EXCEPT ![it] = FALSE]
      /\ buffered' = [buffered EXCEPT ![it] = NoTask]
      /\ putMergeTask(r)
      /\ pc' = Return
      /\ UNCHANGED <<active, cur, size, it, ret, mirrorVars, disk, wst, hdr, echo,
                     inbox, nextComm, comm, faults>>

-----------------------------------------------------------------------------
(* After main_loop().                                                      *)

(* Rank 0 also tells the mirror, which it knows through MPI_COMM_WORLD.    *)
send_quit_to_slaves ==
  /\ pc = "quit"
  /\ hdr' = [c \in Comms |-> IF \E s \in Slots : comm[s] = c
                             THEN Append(hdr[c], 1) ELSE hdr[c]]
  /\ notice' = IF active = 0 THEN Append(notice, 1) ELSE notice
  /\ pc' = "finish"
  /\ UNCHANGED <<active, manager, loopVars, mpc, mirror, wire, disk, wst, echo,
                 inbox, res, nextComm, comm, faults>>

(* The last task is solved here, merged with the waiting result if there is
   one, and written out by check_task() if it is in order.                 *)
finish_solving ==
  /\ pc = "finish"
  /\ IF queue = <<>>
       THEN pc' = "segv" /\ UNCHANGED <<queue, output>>
       ELSE LET last == computeResult(Head(queue))
                all == IF merge1 = NoTask THEN last
                       ELSE computeResult(MergeTask(last, merge1.b1))
            IN  /\ queue' = Tail(queue)
                /\ output' = IF all.sorted THEN all ELSE output
                /\ pc' = "done"
  /\ UNCHANGED <<active, buffered, merge1, loopVars, mirrorVars, file, workers,
                 faults>>

(* mirror_master_server().  111 is a takeover; anything else ends the
   function and leaves rank 1 in the last MPI_Barrier() of main(), which
   rank 0 never enters because finish_solving() exits.                     *)
MirrorTakesOver ==
  /\ mpc = "poll" /\ notice # <<>> /\ Head(notice) = 111
  /\ notice' = Tail(notice)
  /\ active' = 1 /\ mpc' = "leads"
  /\ queue' = mirror.queue /\ buffered' = mirror.buffered
  /\ merge1' = mirror.merge1
  /\ size' = 0
  /\ spawn_workers
  /\ main_loop(mirror.queue)
  /\ UNCHANGED <<mirror, wire, disk, chans, faults>>

MirrorIsReleased ==
  /\ mpc = "poll" /\ notice # <<>> /\ Head(notice) # 111
  /\ notice' = Tail(notice)
  /\ mpc' = "lastBarrier"
  /\ UNCHANGED <<pc, active, manager, loopVars, mirror, wire, disk, workers,
                 faults>>

-----------------------------------------------------------------------------
(* worker.cpp, for the worker behind intercommunicator c.                  *)

WorkerHeader_never_quits(c) ==
  /\ wst[c] = "idle" /\ hdr[c] # <<>>
  /\ hdr' = [hdr EXCEPT ![c] = Tail(@)]
  /\ echo' = [echo EXCEPT ![c] = Append(@, 0)]
  /\ wst' = [wst EXCEPT ![c] = "task"]
  /\ UNCHANGED <<pc, active, manager, loopVars, mirrorVars, disk, inbox, res,
                 nextComm, comm, faults>>

WorkerHeader(c) ==
  /\ wst[c] = "idle" /\ hdr[c] # <<>>
  /\ hdr' = [hdr EXCEPT ![c] = Tail(@)]
  /\ IF Head(hdr[c]) = 0
       THEN /\ echo' = [echo EXCEPT ![c] = Append(@, 0)]
            /\ wst' = [wst EXCEPT ![c] = "task"]
       ELSE wst' = [wst EXCEPT ![c] = "exited"] /\ UNCHANGED echo
  /\ UNCHANGED <<pc, active, manager, loopVars, mirrorVars, disk, inbox, res,
                 nextComm, comm, faults>>

(* The result goes back as a SortTask, whatever the task was.              *)
WorkerSolve(c) ==
  /\ wst[c] = "task" /\ inbox[c] # <<>>
  /\ inbox' = [inbox EXCEPT ![c] = Tail(@)]
  /\ res' = [res EXCEPT ![c] = Append(@, SortTask(computeResult(Head(inbox[c]))))]
  /\ wst' = [wst EXCEPT ![c] = "idle"]
  /\ UNCHANGED <<pc, active, manager, loopVars, mirrorVars, disk, hdr, echo,
                 nextComm, comm, faults>>

(* The worker has answered the probe and died: MPI_Recv never returns.     *)
AwaitsDeadWorker ==
  pc = "result" /\ res[comm[it]] = <<>> /\ wst[comm[it]] = "exited"

InService(c) == /\ \E s \in Slots : comm[s] = c
                /\ pc \notin {"quit", "finish", "done", "dead"} /\ ~AwaitsDeadWorker

(* 10 * TIMEOUT seconds without a header.  While the master goes on that is
   a fault; when it is done, dead or waits for ever it is what must happen. *)
WorkerTimeout(c) ==
  /\ wst[c] = "idle" /\ hdr[c] = <<>>
  /\ InService(c) => faults < MaxFaults
  /\ faults' = IF InService(c) THEN faults + 1 ELSE faults
  /\ wst' = [wst EXCEPT ![c] = "exited"]
  /\ UNCHANGED <<pc, active, manager, loopVars, mirrorVars, disk, chans, nextComm,
                 comm>>

WorkerDeath(c) ==
  /\ WorkerDies /\ InService(c) /\ wst[c] \in {"idle", "task"}
  /\ faults < MaxFaults
  /\ faults' = faults + 1
  /\ wst' = [wst EXCEPT ![c] = "exited"]
  /\ UNCHANGED <<pc, active, manager, loopVars, mirrorVars, disk, chans, nextComm,
                 comm>>

(* The process that runs main_loop(), or will, dies: in a call of MPI, inside
   the SERVER_CRASH block or anywhere else.                                *)
MasterDeath ==
  /\ MasterDies /\ pc \notin {"done", "dead"}
  /\ pc' = "dead"
  /\ UNCHANGED <<active, manager, loopVars, mirrorVars, disk, workers, faults>>

(* Rank 1 dies before it leads.  When it dies between two of its sends rank 0
   waits for the rest as if none had been sent.                            *)
MirrorDeath ==
  /\ MasterDies
  /\ mpc \in {"send", "barrier", "deserialize", "poll", "lastBarrier"}
  /\ mpc' = IF mpc = "send" THEN "lost" ELSE "dead"
  /\ UNCHANGED <<pc, active, manager, loopVars, mirror, wire, notice, disk, workers,
                 faults>>

-----------------------------------------------------------------------------
Setup == \/ MirrorSendsTasks \/ ReceiveTask \/ EndOfGather \/ Barrier
         \/ MirrorDeserializes \/ SpawnWorkers

MainLoop == \/ TruncateCheckPoint \/ WriteCheckPoint \/ WhileTest \/ CrashServer
            \/ PickSlave

CheckRecv == \/ SkipSlot \/ EndOfRecv \/ (\E h \in {0, 1} : Probe(h)) \/ Alive
             \/ ProbeTimeout \/ ReceiveResult

Finish == \/ send_quit_to_slaves \/ finish_solving \/ MirrorTakesOver
          \/ MirrorIsReleased

Worker(c) == \/ WorkerHeader(c) \/ WorkerSolve(c) \/ WorkerTimeout(c)
             \/ WorkerDeath(c)

Next == \/ Setup \/ MainLoop \/ CheckRecv \/ Finish
        \/ (\E c \in Comms : Worker(c)) \/ MasterDeath \/ MirrorDeath

(* Every process that can run does run; deaths are never owed.  A worker
   that is told to go on, and answers in time, is not required: the number
   of faults is bounded instead.                                           *)
Fairness ==
  /\ WF_vars(Setup) /\ WF_vars(MainLoop) /\ WF_vars(CheckRecv) /\ WF_vars(Finish)
  /\ \A c \in Comms : WF_vars(WorkerHeader(c) \/ WorkerSolve(c))
  /\ \A c \in Comms : WF_vars(~InService(c) /\ WorkerTimeout(c))

Spec == Init /\ [][Next]_vars
FairSpec == Spec /\ Fairness
-----------------------------------------------------------------------------
(* Properties.                                                             *)

TaskOrNull == Task \cup {NoTask, Garbage}
CheckPointFile == [queue : Seq(Task), buffered : [Slots -> TaskOrNull],
                   merge1 : TaskOrNull, whole : BOOLEAN]

MasterTypes ==
  /\ pc \in {"gather", "truncate", "write", "barrier", "spawn", "loop", "crash",
            "pick", "recv", "alive", "result", "quit", "finish", "done",
            "dead", "segv", "sigfpe"}
  /\ active \in {0, 1}
  /\ queue \in Seq(Task)
  /\ buffered \in [Slots -> TaskOrNull] /\ merge1 \in TaskOrNull
  /\ inq \in Int /\ torecv \in Int
  /\ cur \in Slots /\ sent \in [Slots -> BOOLEAN] /\ size \in {0, MaxChildren}
  /\ it \in 0 .. MaxChildren /\ ret \in {"loop", "find", "barrier"}
  /\ file \in CheckPointFile /\ output \in Block

MirrorTypes ==
  /\ mpc \in {"send", "barrier", "deserialize", "poll", "leads", "lastBarrier",
             "aborted", "lost", "dead"}
  /\ mirror \in CheckPointFile
  /\ wire \in Seq(Task) /\ notice \in Seq({1, 111})

WorkerTypes ==
  /\ nextComm \in Nat /\ comm \in [Slots -> 0 .. MaxComm]
  /\ wst \in [Comms -> {"unborn", "idle", "task", "exited"}]
  /\ hdr \in [Comms -> Seq({0, 1})] /\ echo \in [Comms -> Seq({0})]
  /\ inbox \in [Comms -> Seq(Task)] /\ res \in [Comms -> Seq(Task)]
  /\ faults \in 0 .. MaxFaults

(* The type of every variable of the masters, the workers and the files.   *)
TypeOK == MasterTypes /\ MirrorTypes /\ WorkerTypes

(* The master dereferences no NULL task in send_task() or finish_solving(),
   and rank 1, whose slaves_size is 0, never evaluates % slaves_size.       *)
NoRunTimeError == pc \notin {"segv", "sigfpe"}

(* The manager holds the work of a master that has gathered its tasks and
   not yet given the last one to finish_solving().                         *)
Solving == pc \in {"spawn", "loop", "truncate", "write", "crash", "pick", "recv",
                  "alive", "result", "quit", "finish"}

Holders(n) ==
  {<<"queue", i>> : i \in {j \in DOMAIN queue : n \in Items(queue[j])}}
  \cup {<<"slot", s>> : s \in {t \in Slots : n \in Items(buffered[t])}}
  \cup {<<"merge", 1>> : x \in {y \in {1} : n \in Items(merge1)}}

(* The tasks of ranks 0 and 1 are still being put together.                *)
Gathering == pc = "gather" \/ ret = "barrier"

OnlySent(S) == \A s \in Slots : sent[s] <=> s \in S

(* main_loop() tests its two counters where a reader expects the queue and
   the slots: ntasks_in_queue counts the tasks queued or handed out and
   ntasks_to_receive those handed out, through every retry and merge, and no
   more than one task is handed out at a time.                             *)
CountersAgree ==
  (Solving /\ ~Gathering) =>
    /\ inq = Len(queue) + torecv
    /\ torecv = Cardinality({s \in Slots : sent[s]})
    /\ torecv \in {0, 1}
    /\ \A s \in Slots : sent[s] => buffered[s] \in Task

(* However workers die, answer late or are replaced, every number of the
   input is in exactly one task of the manager: m_tasks, m_buffered_tasks
   or merge_task1.                                                         *)
HeldOnce == Solving => \A n \in Input : \E h \in Holders(n) : Holders(n) = {h}

Ready(t) == t.kind = "merge" => t.b1.sorted /\ t.b2.sorted

(* MergeTask::computeResult() merges ordered arrays only, on every path that
   builds, requeues or forwards a merge task.                              *)
MergesOrdered ==
  /\ \A i \in DOMAIN queue : Ready(queue[i])
  /\ \A s \in Slots : Ready(buffered[s])
  /\ merge1.kind = "sort" => merge1.b1.sorted

(* The master that finishes has written all the input, in order: check_task()
   never takes its "sorting algorithm failed" return.                      *)
OutputComplete ==
  pc = "done" => output = [items |-> Input, sorted |-> TRUE]

(* A result the master is about to accept from a slot is the result of the
   task it has buffered for that slot, not one of an earlier task or of a
   worker it has given up on.                                              *)
ResultMatchesTask ==
  pc \in {"alive", "result"} =>
    \A i \in DOMAIN res[comm[it]] :
      Items(res[comm[it]][i]) = Items(buffered[it])

PacketSize(t) == IF t.kind = "merge"
                 THEN Cardinality(t.b1.items) + Cardinality(t.b2.items) + 3
                 ELSE Cardinality(t.b1.items) + 2

(* Every packet a worker is sent fits the task_buffer of either side, whose
   size nothing compares with that of the task.                            *)
PacketFits == \A c \in Comms : \A i \in DOMAIN inbox[c] :
                PacketSize(inbox[c][i]) <= MAX_PACKET_SIZE

(* The tasks stay sound through every death, late answer, retry and merge: no
   number is lost or doubled, merges get ordered halves, no stale result is
   accepted and every packet fits the worker's task_buffer.                *)
TasksSound == HeldOnce /\ MergesOrdered /\ ResultMatchesTask /\ PacketFits

(* When the mirror may take over, the manager it holds is the one of the last
   checkpoint of the master that crashed.                                  *)
MirrorHasCheckPoint ==
  (mpc = "poll" /\ notice # <<>> /\ Head(notice) = 111) => mirror = file

(* The masters start with the same tasks: what the comment before
   spawn_workers() says of rank 0 and rank 1. It does not hold when rank 1
   reads the file while rank 0 rewrites it.                                *)
SameQueue == (mpc = "poll" /\ active = 0) =>
               mirror.queue = OwnTasks(0) \o OwnTasks(1)

(* The input is sorted, whatever workers die when told to or answer late.  *)
Terminates == <>(pc = "done")

(* With any process dying at any point the input is still sorted, except in
   the cases the code does not handle: a master has died without a word to a
   mirror that could take over, rank 0 waits in a collective call or a receive
   for a mirror that has died, or the master waits in MPI_Recv for the result
   of a worker that has answered the probe and died.                       *)
FinishesUnlessAbandoned ==
  <>(\/ pc = "done"
     \/ pc = "dead" /\ (notice = <<>> \/ mpc = "dead")
     \/ pc \in {"gather", "barrier"} /\ mpc \in {"lost", "dead"}
     \/ AwaitsDeadWorker)

(* A master that dies is replaced by the mirror. It does not hold when rank 0
   dies without sending 111.                                               *)
MirrorReplacesMaster == (pc = "dead") ~> (mpc = "leads")

(* No worker outlives the service: those of a master that has finished or
   died leave on the quit header or after 10 * TIMEOUT seconds.            *)
WorkersLeave == <>[](\A c \in Comms : wst[c] \in {"unborn", "exited"})

(* The masters, the workers and the messages between them implement the pool
   of blocks: the blocks not yet gathered from rank 1 belong to it.         *)
PoolOf ==
  LET tasks == {queue[i] : i \in DOMAIN queue} \cup {buffered[s] : s \in Slots}
               \cup {wire[i] : i \in DOMAIN wire} \cup {merge1}
      later == IF Unsent THEN OwnTasks(1) ELSE <<>>
  IN  IF pc = "done" THEN {output}
      ELSE {b \in {t.b1 : t \in tasks} \cup {t.b2 : t \in tasks}
                  \cup {later[i].b1 : i \in DOMAIN later} : b # NoBlock}
Pool == INSTANCE MergePool WITH pool <- PoolOf
RefinesPool == Pool!PoolSpec
=============================================================================
