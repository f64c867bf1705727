------------------------ MODULE FaultTolerantSortInv ------------------------
(***************************************************************************)
(* The inductive invariant of FaultTolerantSort.                           *)
(*                                                                         *)
(* TypeOK and NoRunTimeError are not inductive: which slot is sent, what   *)
(* the two counters count and what the mirror has read all depend on how   *)
(* far main_loop() and mirror_master_server() are (Inv).  That no number   *)
(* is lost, and that the output is complete, rests on what the tasks are,  *)
(* where they are and what the workers have been sent (WorkInv).           *)
(***************************************************************************)
EXTENDS FaultTolerantSort

(* Workers exist, and are known by a valid intercommunicator, once the
   tasks have been gathered; the checkpoint of the barrier is not empty.   *)
PhaseInv ==
  /\ Gathering => /\ active = 0 /\ nextComm = 1 /\ queue # <<>>
                  /\ pc \in {"gather", "truncate", "write", "barrier", "spawn",
                            "dead"}
  /\ pc \in {"barrier", "spawn"} => Gathering /\ file.queue # <<>>
  /\ ~Gathering => \A s \in Slots : comm[s] \in Comms
  /\ pc = "gather" => ret = "barrier"
  /\ nextComm <= MaxComm + 1

(* No task is out, and both counters say so.                               *)
NoneOut == /\ OnlySent({}) /\ torecv = 0
           /\ inq = Len(queue)

(* The task of current_slave is out, and no other.                         *)
OneOut == /\ OnlySent({cur}) /\ torecv = 1
          /\ inq = Len(queue) + 1
          /\ buffered[cur] \in Task

LoopInv ==
  /\ (~Gathering /\ pc \in {"loop", "truncate", "write", "crash", "pick", "quit",
                           "finish"}) => NoneOut /\ inq >= 1
  /\ pc \in {"truncate", "write"} => ret \in {"barrier", "find"}
  /\ pc \in {"crash", "pick"} => ret = "find"
  /\ (pc \in {"truncate", "write", "crash", "pick"} /\ ret = "find") => inq > 1
  /\ pc = "recv" => /\ ret = "loop" /\ inq > 1
                    /\ NoneOut \/ (OneOut /\ it <= cur)
  /\ pc \in {"alive", "result"} => ret = "loop" /\ inq > 1 /\ OneOut /\ it = cur

(* A takeover message exists only while rank 0 is dead by its own
   SERVER_CRASH block, before it has handed out a task.                    *)
MirrorInv ==
  /\ mpc = "leads" <=> active = 1
  /\ mpc \in {"send", "barrier"} => Gathering /\ pc # "spawn"
  /\ pc = "crash" => ServerCrash /\ active = 0
  /\ (PromptMirror /\ mpc = "deserialize") =>
       pc \in {"spawn", "dead"} /\ file.queue # <<>>
  /\ (PromptMirror /\ mpc = "poll") => mirror.queue # <<>>
  /\ notice \in {<<>>, <<1>>, <<111>>}
  /\ (active = 1 \/ pc \notin {"finish", "done", "dead"}) => notice = <<>>
  /\ notice = <<111>> => pc = "dead" /\ ServerCrash /\ ret = "find"
  /\ (ServerCrash /\ active = 0 /\ ~Gathering) =>
       nextComm = MaxChildren + 1 /\ pc \notin {"pick", "recv", "alive", "result"}

(* A mirror that can be told to take over has read a whole checkpoint.      *)
NoTornTakeover == ServerCrash => PromptMirror

Inv == TypeOK /\ NoRunTimeError /\ PhaseInv /\ LoopInv /\ MirrorInv

-----------------------------------------------------------------------------
(* What the tasks are and where their numbers are.                         *)

NoTasks == [s \in Slots |-> NoTask]
AllTasks == OwnTasks(0) \o OwnTasks(1)
FirstCheckPoint == [queue |-> AllTasks, buffered |-> NoTasks, merge1 |-> NoTask,
                    whole |-> TRUE]
Untouched == queue = AllTasks /\ buffered = NoTasks /\ merge1 = NoTask

(* Rank 0 gathers the tasks of rank 1, or has died before it handed one out. *)
Incomplete == Gathering /\ pc \in {"gather", "dead"}

(* Until a task is handed out the manager holds the tasks of both ranks.   *)
GatherInv ==
  /\ Incomplete => \/ Unsent /\ queue = OwnTasks(0) /\ wire = <<>>
                   \/ ~Unsent /\ queue \o wire = AllTasks
  /\ ~Incomplete => wire = <<>> /\ ~Unsent
  /\ Gathering => buffered = NoTasks /\ merge1 = NoTask /\ OnlySent({})
  /\ (Gathering /\ ~Incomplete) => Untouched
  /\ (ServerCrash /\ active = 0 /\ pc \in {"loop", "truncate", "write", "crash"}) =>
       Untouched

(* A takeover starts from the first checkpoint, which is also the last.    *)
CheckPointInv ==
  /\ pc \in {"barrier", "spawn", "crash"} => file = FirstCheckPoint
  /\ (PromptMirror /\ mpc = "deserialize") => file = FirstCheckPoint
  /\ (PromptMirror /\ mpc = "poll") => mirror = FirstCheckPoint
  /\ notice = <<111>> => file = FirstCheckPoint

(* A task that can be sent and solved; a result.                           *)
GoodTask(t) ==
  /\ t.kind = "sort" => t.b2 = NoBlock /\ t.b1.items # {}
  /\ t.kind = "merge" => /\ t.b1.sorted /\ t.b2.sorted
                         /\ t.b1.items # {} /\ t.b2.items # {}
                         /\ t.b1.items \cap t.b2.items = {}
GoodResult(t) == t.kind = "sort" /\ t.b2 = NoBlock /\ t.b1.sorted /\ t.b1.items # {}

TaskInv ==
  /\ \A i \in 1 .. Len(queue) : GoodTask(queue[i])
  /\ \A i \in 1 .. Len(wire) : GoodTask(wire[i])
  /\ \A s \in Slots : GoodTask(buffered[s])
  /\ merge1 = NoTask \/ GoodResult(merge1)

(* Only the slot of current_slave holds a task.                            *)
SlotInv == \A s \in Slots : (s # cur \/ ~sent[s]) => ~sent[s] /\ buffered[s] = NoTask

(* Every number is in one place: in one task of q, in b or in m.           *)
Split(q, b, m) ==
  \A n \in Input :
    /\ (\E i \in 1 .. Len(q) : n \in Items(q[i])) \/ n \in b \/ n \in m
    /\ \A i, j \in 1 .. Len(q) : n \in Items(q[i]) /\ n \in Items(q[j]) => i = j
    /\ \A i \in 1 .. Len(q) : n \in Items(q[i]) => n \notin b /\ n \notin m
    /\ ~(n \in b /\ n \in m)

SplitInv ==
  pc \notin {"gather", "done", "dead"} => Split(queue, Items(buffered[cur]), Items(merge1))

(* What a worker has been sent: nothing, or the task of its slot, or it has
   answered.  Intercommunicators are never used again.                     *)
Waiting(c, t) ==
  \/ inbox[c] = <<t>> /\ res[c] = <<>>
  \/ inbox[c] = <<>> /\ res[c] = <<SortTask(computeResult(t))>>
Silent(c) == inbox[c] = <<>> /\ res[c] = <<>>

ChannelInv ==
  /\ ~Gathering => \A s \in Slots : IF sent[s] THEN Waiting(comm[s], buffered[s])
                                               ELSE Silent(comm[s])
  /\ ~Gathering => \A s \in Slots : comm[s] < nextComm
  /\ ~Gathering => \A s, t \in Slots : comm[s] = comm[t] => s = t
  /\ \A c \in Comms : c >= nextComm => Silent(c)

(* No packet is more than two ints longer than the input.                  *)
PacketBound == \A c \in Comms : \A i \in DOMAIN inbox[c] :
                 PacketSize(inbox[c][i]) <= NumNumbers + 2

(* The input is small enough for task_buffer.                              *)
InputFits == NumNumbers + 2 <= MAX_PACKET_SIZE

FinishInv ==
  /\ pc \in {"quit", "finish"} => Len(queue) = 1
  /\ IF pc = "done" THEN output = [items |-> Input, sorted |-> TRUE]
                    ELSE output = NoBlock

WorkInv == /\ GatherInv /\ CheckPointInv /\ TaskInv /\ SlotInv /\ SplitInv
           /\ ChannelInv /\ PacketBound /\ FinishInv

(* The whole inductive invariant: the control of main_loop() and of the
   takeover, and every task of the manager, on the wire, in a worker's
   messages and in the checkpoint file.                                    *)
FullInv == Inv /\ WorkInv
=============================================================================
