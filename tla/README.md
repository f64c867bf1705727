# A TLA+ model of WorkAtUPB

The repository is a collection of seventeen programs that share no code. Each
is a component here, with modules of its own. The first one modelled, and the
one with the richest behaviour, is `FaultTolerantService`: a distributed sort
over MPI with two masters, a checkpoint file and workers that fail. Twelve of
the programs are modelled; sections 2 to 12 describe them, section 13 says which
statements about them fail, section 14 what is proved, and section 15 what is
not modelled.

## 1. Inventory

| Component | State | Operations | What is hard about it | Properties that make it correct |
|---|---|---|---|---|
| FaultTolerantService | task queue, tasks per worker, one waiting result, two counters, checkpoint file, MPI channels | main loop and probing of the master, polling mirror, worker loop | worker death at each point, probes that time out while the answer is on its way, takeover from a checkpoint | no task lost or doubled, results matched to tasks, output complete and in order, termination |
| LinuxIPC | hash table in shared memory, one semaphore per bucket, a message queue | add, remove, clear, print, exit | client and server synchronise through semaphores posted and awaited in different handlers | a client reads only after the server has applied its request; semaphores balanced |
| SimpleRAIDDriverWindows | sectors and checksums of two disks | read with recovery, write, checksum update | a write that reaches one disk only, wrong checksum on one or both sides, buffers shared between requests | data read is data written; recovery repairs the bad copy |
| SystemCallMonitorLinux, SyscallMonitorWindows | intercepted calls, monitored pids, original handlers | intercept, release, start, stop, exit hook | check and set under different locks, processes that exit while monitored | the table of calls is restored; only monitored pids are logged |
| NetworkFirewallLinux, NetworkFirewallWindows | list of rules with timers | packet hooks, add, delete and read rules, timers | timer and hook contexts interleave with ioctl, entries freed while in use | a packet passes exactly if a live rule matches; no use of a freed entry |
| ThreadsMonitorLinux | entry queue, condition queues, signalled queue, mutex | Enter, Leave, Wait, Signal, Broadcast; readers and writers on top of it | hand-over of the monitor between threads, lost wake-ups | mutual exclusion, no lost wake-up, reader/writer exclusion |
| VirtualMemoryLinux | page records, mappings, the files that play RAM and swap | `vinit`, `vend`, SIGSEGV handler, two kinds of swapping | an access that faults several times, a page record reused over evictions | a page is in one place and keeps its data while resident; every access completes |
| SchedulingServiceCORBA | job queues and result maps per client, server loads | submit, poll, schedule, execute | threads per job share maps, polling for results that never come | each job's result is delivered once |
| AuthenticatedFilesServer | two files of bans, timers, the list of uploads in memory and on disk, sessions | connect, list, upload, download, quit, ban, ban timer | timer threads against requests, three programs that wait for one another, stops in the middle of an upload | a banned client stays out; a confirmed upload survives a stop; nobody waits for ever |
| FilesServerLinux | connections in an epoll set | LS; READ and WRITE answer without doing anything yet | none: one thread answers one packet after the other | each request is answered |
| SerialPortDriverLinux, SerialPortDriverWindows | two buffers, two flags, one wait queue or event per direction, the interrupt enable register | load, read, write, ioctl, interrupt handler, unload | interrupt against system call, interrupted sleep | every byte is delivered once, in order; no sleeper is forgotten |
| MiniShellLinux | command tree, processes with descriptors and environment, pipes, files | parse a line, walk its tree, fork, redirect, wait | pipes and files shared by copies of the shell, statuses passed through several processes | the tree is the one the operators prescribe, conditions follow what happened, the prompt returns |
| RemoteShellRPC | user directory, current directory per server | commands over RPC | none: sequential | commands act below the user's directory |
| Image QuiltingCellArchitecture | image, tiles, SPU mailboxes | choose tiles, cut seams, distribute to SPUs | mailbox protocol between PPU and SPUs | the seam is minimal; every tile is filled once |

Vendored parts (`build/` trees, binaries, images), the scanner that flex has
generated for MiniShellLinux, the CORBA stubs and the test harnesses of the
course are left aside. The parser that bison has generated is modelled: its
tables decide what the shell runs.

## 2. FaultTolerantService

Rank 0 cuts its half of the input file into sort tasks, receives those of rank
1, writes a checkpoint and runs `main_loop()`: it hands one task at a time to a
worker, probes the worker, and takes its result. A result waits in
`merge_task1` until there is a second one; the two become a merge task. The
last task is solved by the master itself (`finish_solving()`). Rank 1 reads the
checkpoint after a barrier and polls for a message of rank 0: 111 makes it run
`main_loop()` with workers of its own, anything else ends it. In the build of
the Makefile (`-DSERVER_CRASH`) rank 0 sends 111 and exits at its first
checkpoint of the loop. `is_process_alive()` sends a header that, one time in
four, tells the worker to exit: that is how failures are injected.

| Module | What it is |
|---|---|
| `SortTasks` | tasks as values, and how `main()` and `next_task()` cut the input |
| `MergePool` | abstract specification: blocks of numbers sorted and merged until the whole input is written once |
| `FaultTolerantSort` | both masters, the workers, MPI and the checkpoint file |
| `FaultTolerantSortInv` | its inductive invariant |
| `FaultTolerantSortProofs` | theorems |
| `MCFaultTolerantSort` | the module TLC runs |

**State.** A number is its position in the input file and an array is the set
of positions it holds and whether it is in order: that is all the control of
masters and workers depends on. `pc` names the step of the master that runs
`main_loop()`; `queue`, `buffered` and `merge1` are its `TasksManager`; `inq`,
`torecv`, `cur`, `sent`, `size`, `it` its variables. Only one process is ever
in `main_loop()`, so these variables exist once and `active` says whose they
are. `mpc` and `mirror` are the place and the manager of rank 1 before it takes
over. Each worker is known by the intercommunicator that reaches it, and has
four channels: headers, answers, tasks and results.

**Actions.** One per step of `main_loop()` and `check_recv_from_slaves()` that
another process can observe: the checkpoint is two steps (the file is first
empty, then whole), the probe three (`Probe`, then `Alive` or `ProbeTimeout`),
receiving a result one. A worker has one action per turn of its loop
(`WorkerHeader`, `WorkerSolve`) and two ways to leave. `WorkerDeath`,
`MasterDeath` and `MirrorDeath` are deaths the program does not cause itself, at
any step and in collective calls too: the process that runs, or will run,
`main_loop()` (rank 0, and rank 1 after its takeover), and rank 1 before that.
Rank 0 then waits for ever for tasks or at the barrier. The constant
`PromptMirror` says that rank 1 reads the checkpoint before rank 0 rewrites it;
with FALSE both orders are explored. MPI is external: messages of one channel
arrive in order, `MPI_Send` buffers, nothing is lost while both ends live.

**Runs.**

| Run | Instance | What it shows |
|---|---|---|
| `ft_workers` | 5 tasks, 2 slots, 2 faults | retries, late answers and worker timeouts: counters agree with the queue (`CountersAgree`); each number is held once, only ordered arrays are merged, a result is only accepted for its task, packets fit a `task_buffer` two ints longer than the input (`TasksSound`); the sort ends (`Terminates`), `MergePool` is implemented (`RefinesPool`) |
| `ft_faults` | 3 tasks, 2 slots, any 2 faults, `ServerCrash` | the takeover and deaths of anybody at any time: the inductive invariant that is proved (`FullInv`), the mirror goes on from the checkpoint (`MirrorHasCheckPoint`), nothing but the whole sorted input is written (`OutputComplete`), and the sort ends except in the cases the code does not handle (`FinishesUnlessAbandoned`): rank 0 is dead without having sent 111 or both masters are, rank 0 waits for tasks of a dead mirror or with it at the barrier, or the master waits in `MPI_Recv` for a worker that is gone; whatever happens to the masters, no worker stays behind (`WorkersLeave`) |

**Bounds.** `OptimSize` is 1, so a packet is one number and 3 to 5 tasks give
several levels of merging, an odd and an even number of results (one left in
`merge_task1` at the end, or none), and tasks that are retried after a merge.
Two slots are enough because at most one task is ever out (theorem `Counters`),
so a third would only ever be idle. Two faults allow a retry of a retry and a
late worker next to a dead one; deaths of masters are not counted, a run can
have one of each. `MAX_PACKET_SIZE` is 16384 in the code and the smallest
value for which all packets fit here. `MaxComm` gives each worker that can be spawned
under these bounds an intercommunicator.

**Fairness.** Every process of a group is scheduled (weak fairness per process
group), a call that waits for a dead process does not return, and an idle worker
that no master will serve again eventually reaches its own timeout. Deaths and late answers are never forced: they are bounded by
`MaxFaults`. Worker and master deaths are excluded in `ft_workers`, because with
them `Terminates` fails (section 13); `ft_faults` has them all and says that
these failures are the only ones. Deadlock is not checked: the service ends.

**Proofs.** `FaultTolerantSortProofs` proves, for every input size, packet size,
number of slots and bound on faults, the safety properties of the two runs but
`MirrorHasCheckPoint`.

| Theorem | Says |
|---|---|
| `FullInvariance` | the inductive invariant `FullInv` of `FaultTolerantSortInv` holds |
| `TypeCorrect`, `NoErrors` | every variable keeps its type; no NULL task is used and the mirror never divides by its `slaves_size` of 0 |
| `Counters` | `CountersAgree` |
| `TasksStaySound` | `TasksSound`: each number in one task, ordered merges, no stale result, and packets that fit, for inputs at least two ints shorter than `task_buffer` (`InputFits`) |
| `OutputIsComplete` | `OutputComplete` |
| `ImplementsPool` | `RefinesPool`: every step is a step of `MergePool` or leaves its pool alone |

None of these is inductive alone. The control comes first (`Inv`): that
`removeTask()` finds a task needs `ntasks_in_queue` to equal the queue's length
plus the tasks out, that needs to know which slot is out at each step of the
loop (`LoopInv`), and that the mirror finds a non-empty queue needs to know when
a takeover message can exist and what the mirror has read by then (`MirrorInv`,
`PhaseInv`). The contents rest on it (`WorkInv`). Until the first task is handed
out the manager holds exactly what both ranks have cut (`GatherInv`), and a
takeover starts from just that (`CheckPointInv`). Afterwards every number is in
one task of the queue, in the task that is out or in the waiting result
(`SplitInv`), and no other slot holds anything (`SlotInv`). A merge task has two
ordered, disjoint, non-empty halves (`TaskInv`), which is why `check_task()` finds
the output in order; and as a task is only sent while another one is queued, it
never holds the whole input, so its packet is at most two ints longer than the
input (`PacketBound`). A worker
holds at most the task of its slot or the result of it, and an
intercommunicator is never used again, so the answer of a worker that was given
up is never read (`ChannelInv`).

Both invariants are proved with one lemma per conjunct (`MasterTypesStep` to
`ErrorStep`, `GatherStep` to `FinishStep`) and one case per action. The steps
that touch no task share one frame lemma (`QuietFrame`); what each of the others
does is stated once (`SpawnEffect` to `SolveEffect`). That `main()` cuts the
input without gap or overlap is a lemma of its own (`AllTasksGood`), from
arithmetic of quotients and remainders. For the refinement, `PoolShape` says
which blocks the pool consists of in each state; a probe that times out and a
task that is handed out move blocks about, a result that arrives is `SortOne` or
`MergeTwo` (`PoolResult`), the takeover is `Restart` and `finish_solving()`
`Deliver`.

The theorems assume `NoTornTakeover`: if the build has the SERVER_CRASH block,
the mirror reads the checkpoint before rank 0 enters its loop. Without it the
statements are false of the code, since the mirror may read an empty file and
take over with no task. Liveness (`Terminates`, `WorkersLeave`,
`FinishesUnlessAbandoned`) is left to TLC, and so is `MirrorHasCheckPoint`.

**Abstractions.** The two sorting loops are taken to sort and to merge, the
USE_MPI_PORT build is left out (it exits after its first connection), and so
are debug output and the test generator. `MPI_Send` of a large packet may block
in some MPI libraries; the program works only if it does not, and the model
takes that case. What follows when a packet is
longer than `task_buffer`, which nothing checks, is not modelled: `PacketFits`, a
part of `TasksSound`, says that it does not happen (section 13 says when it
does).

## 3. LinuxIPC

Clients send commands through a POSIX message queue, the server keeps a hash
table of words in shared memory, and one semaphore per bucket tells a client
that its command has been carried out. A client prints the table itself.

| Module | What it is |
|---|---|
| `LinuxIPC` | clients, server, queue, semaphores and cells |
| `Dictionary` | abstract specification: a set of words on which queued commands take effect once, in order |
| `MCLinuxIPC` | three words in two buckets |
| `LinuxIPCProofs` | theorems |

**State and actions.** `Send` is the first half of `packet_handler()`, up to
`mq_send()`; `SemWait` and `PrintBucket` are its waits and its printing loop.
`Receive` is one turn of the server's loop and `SemPost` each of its posts, so
that a client can run between two of them. `Cells` is the whole shared memory
as one array: `POSITION_AT()` counts 16 bytes for a word and the size 17, so
there are cells (`Slack`) past the last bucket, and the search for a free cell
crosses from one bucket into the next, as in the code.

**Run `ipc_clients`.** Two clients, three words (one in bucket 0, for which a
client does not wait, two in bucket 1), two cells per bucket, a queue of two
messages, three commands of each client and one print in all. That is enough
for one client to take the token meant for another, for a full queue, for a hole
in a bucket that a later add fills, and for tokens left behind by a print.
`CommandsReturn` says that nobody is left waiting, unless the server is told to
exit. `LoneClientInStep` (a command returns after the server has served it, a
print reads settled buckets) is stated for a client that is alone, up to its
first print: section 13 says what happens otherwise. `RefinesDict` holds as
long as a bucket has room. Fairness: the server and every client run on; a
client need not give another command.

**Proofs.** `TableIsASet`: the table implements `Dictionary` for any clients,
words, hash function and queue, if no bucket is asked to hold more words than it
has cells (`Room`; section 13 says what happens otherwise). The invariant
(`TableInv`) says that a word lies in a cell of its own bucket and in one cell
only; that the search for a free cell stays inside the bucket follows from
`Room` by counting (`FreeCell`). `LoneClientIsInStep`: `LoneClientInStep` for any
words, hash function and queue length if there is more than one bucket
(`hash.h:7` has 256). Its invariant follows the tokens of a client that is alone
and has not finished a print (`InStep`): a command the client waits for is the
only one in the queue, as long as it is there no bucket but 0 has a token or is
about to get one, and afterwards each token is one the client still waits for.
Only `CommandsReturn` is left to
TLC.

**Abstractions.** A word is a model value and `hash()` a constant function. A
word of 16 characters, which has no terminator in its cell, is excluded.

## 4. ThreadsMonitorLinux

A monitor built from a mutex, queues of semaphores and a planner, and a
readers-writers lock on top of it.

| Module | What it is |
|---|---|
| `Monitor` | `Enter`, `Leave`, `Wait`, `Signal`, `Broadcast` and `planifica()` as steps of a thread; no specification of its own |
| `MonitorUse` | threads that call the monitor in any order |
| `ThreadProofs` | theorems about threads that only enter and leave, and about the scheduler of section 8 |
| `ReadersWriters` | `StartCit`, `StopCit`, `StartScrit`, `StopScrit` over `Monitor` |
| `MCMonitors` | the module TLC runs: threads are either those of `MonitorUse` or the readers and writers |

**State and actions.** A thread's semaphore is a member of `posted` or not, and
the queues of semaphores are queues of threads. What a thread inside an
operation still has to do is `todo`, a list of tasks: `Enter()` is the trylock
and, when it fails, the tasks push, sleep and lock; `Wait()` is push, planifica
and sleep; and so on. Each task is one access to a queue, a semaphore or the
mutex, and other threads run in between: `Plans`, `Takes` and `TakesAll` look at
a queue and read its front, `Pops` takes it off, `Posts` posts it, and a push is
two steps, the element (`PushWrites`) and the end of the queue (`PushEnds`).

The queues are `std::queue`s that are changed with and without the mutex. A
thread that uses one between the two halves of the push of another sets `raced`;
from then on a push may be lost, replace the element before it, append the
element of another thread or `Stale`, a slot that nobody has written (`Damaged`),
which is popped and posted later. `undefined` records that two threads have
taken the same element, or that a semaphore was posted that is already freed.

`ReadersWriters` has one step per access to the counters. `cut` records that a
thread went on in `LibRW.cpp` while another was between the test of its loop and
the push of `Wait()`, or between the change of a counter and the end of the
`Signal()` or `Broadcast()` that follows it, or changed a counter that another
was about to change too (`SameCounter`). An increment is one step of the model
and a read and a write in the program; the two differ only when two threads
change the same counter at once, which sets `cut`.

**Run `mon_use`.** `users` and `useConditions` never change and say who the
threads of a behaviour are and whether they use conditions. Three threads, one
condition, two calls each, under SIGNAL_AND_WAIT (under which all queues are
used). Without conditions threads exclude each other, whatever comes of the
races on `entry_queue` (`EntryExclusion`); and until there is one, each sleeper
has its semaphore in one place, is never lost, and nobody else is woken
(`EntryQueued`). With conditions a thread that gave way, or was signalled, goes
on (`AnySignallersResume`), unless `raced` or `undefined`. Or two readers and two
writers of `LibRW.cpp`, once each, under SIGNAL_AND_CONTINUE: whoever waits has
someone left who will wake it (`NobodyWaitsInVain`), unless `cut`, `raced` or
`undefined`. Several threads may be in the monitor at once and in the middle of
their loops; section 13 shows that the conditions are needed: the program does
lose wake-ups. Threads that use conditions are followed until one of the three
flags is set (`Followed`), since nothing is claimed afterwards. Fairness: a
thread in the monitor goes on and leaves it.

**Proofs.** For any set of threads that only enter and leave: one thread at a
time is in the monitor (`EnterExcludes`), and until `raced` the semaphore of each
sleeper is in one place and no element is taken twice (`EntryQueueSound`). The
first invariant (`EntryInv`) says which tasks a thread may have and that the
thread inside is the one that locked the mutex; it needs no fact about the
contents of the queue, because a woken thread of `Enter()` locks the mutex again.
The second (`QueueInvariant`) rests on it: only one thread can be between reading
the front of the queue and posting it, others push at the other end, so the
front it has read is still there when it is popped; a thread sleeps in `Enter()`
exactly if it stands in the queue, or is in the hands of the thread that has
taken it, or is posted, and never two of these. Threads woken in `Wait()` do not
lock the mutex again, which is why these theorems stop there. What holds with
conditions, and liveness, is left to TLC.

**Abstractions.** `Destroy()` and the checks of arguments are left out; the
callbacks only count or print. `entered_threads` is a set: `Enter()` searches the
map without the mutex (`LibMonitor.cpp:126`) while another thread may rebalance
it, which may crash; the model takes the answer as right.

## 5. SimpleRAIDDriverWindows

A driver that mirrors sectors on two disks with their CRCs in a separate
area, and repairs a disk when it reads.

**State and actions** (`SimpleRAID`). `Transfer` is one IRP that completes,
`TransferFails` and `NoIrp` its two failures, and the step named by `After`
looks at the status, which is in a block shared by all requests of the disk. A
write puts data, then reads, patches and writes the CRC sector, of disk 0 and
then of disk 1; a read compares both disks (`Compare`) and repairs one
(`Repair`). All buffers are static in the driver and so are shared here.
`PowerFailure` ends all requests and empties the buffers; `Damage` changes the
data or the CRC of a sector.

**Run `raid_sole`.** One request at a time, two sectors, three contents with
CRCs of their own, two faults. With one fault every sector stays readable
(`KeepsReadable`), its contents change only through writes, and an interrupted
write has taken effect or not (`WritesTakeEffect`); with two
faults, which may be the two copies of a sector, a success still leaves the
disks equal (`SuccessMirrors`). Two sectors share a CRC sector, which is what
a wrong patch would damage; three contents tell old, new and other data apart.

**Proofs** (`SimpleRAIDProofs`). For any sectors and contents and one request at a
time (`Sole`): `SectorsStayReadable` is `KeepsReadable`, whatever the CRC;
`SuccessMeansMirrored` is `SuccessMirrors` for any number of faults, and
`WritesAreAtomic` is `WritesTakeEffect`, both for a CRC that tells the contents
apart (`Injective`): otherwise damage may go unnoticed. `Sole` is needed, since the buffers are shared (section 13). The
invariant (`Parts`) says for every step of `MyRead()` and `MyWrite()` what of the
disks the buffers hold, which disk has been written and, while one copy of a
sector is being overwritten and no fault is left to happen, that the other one
is right.

**Abstractions.** The CRC is a constant function without collisions in the
run; requests are for one whole sector; the sectors are those of one CRC
sector. Loading and unloading of the driver are left out.

## 6. SystemCallMonitorLinux

A kernel module with a system call of its own, by which processes intercept
other system calls and ask for them to be logged for a pid.

**State and actions** (`SyscallMonitor`). `my_syscall()` is not atomic: it
checks its arguments, changes the list, loads and stores the flags and changes
the table, the last under `mr_lock` only. Each is a step (`call[p].pc`).
`interceptor()` is entered and calls `old_syscall`, with a release possible in
between. The list of pids is a bag; `Fork` reuses the pid of a process that
has ended. `Serial` says whether commands are given one at a time.

**Run `sci_serial`.** Three processes (root and two users), one system call,
all commands; lists of up to two equal pids. The system call in the table
always leads to the original one (`ReachesOriginal`), also for a process that
was inside `interceptor()` during a release, and flags and table agree when no
command is under way (`TableMatchesFlags`).

**Proofs** (`KernelModuleProofs`). `SerialIsSafe` and `FlagsGovernTable`: the two
properties for any processes and system calls when commands are given one at a
time. They are not inductive: a command uses
flags it has loaded before, so the invariant says that only one command is
under way and which steps it may be at (`OneCommand`), that what it has loaded
still holds (`FlagsLoaded`), and that flags and table agree except between the
flag and the table of an INTERCEPT (`FlagsTable`). `TypeInvariance` needs no
such assumption.

**Abstractions.** Log output and the unloading of the module are left out.

## 7. NetworkFirewallLinux

A netfilter module: outgoing TCP connections and UDP packets add rules
that accept the answers, timers remove them, and an ioctl adds static rules.

**State and actions** (`Firewall`). A key is a class of packets that
`match_rule()` does not tell apart. A context is a CPU at the level of a process
or of a softirq; a softirq interrupts a process of its CPU and not the other
way round. A packet is handled in steps, with the lock released between
`search_rule()`, which returns the first match of a list, and the use of what it
found. `TimerFires` runs in a softirq.
`Enable`, `Disable`, `AddStatic` and the four steps of unloading run in a process.
`last` records what the program did last for a key, for the properties.

`stale` records that a rule was freed which another context had found, or whose
timer had expired there: what the code does with it afterwards is undefined, and
nothing is claimed from then on, and the run does not go on from there (`NoneStale`;
`TimersOnListed` fails, section 13).

**Run `fw_flows`.** One CPU that handles packets in a process and in softirqs that
interrupt it anywhere, two keys, memory for three rules (so `kmalloc()` can fail,
and a connection can follow two of the same ports), unloading included. Until a
rule is freed that is in use, a TCP connection is accepted from SYN to FIN
whatever timers of its predecessors are pending, and a UDP flow until its timer
expires (`StaysOpen`).

**Proofs** (`KernelModuleProofs`). `FlowsStayOpen` is `StaysOpen` for any CPUs, keys,
entries and packets, with unloading. The invariant (`FwInv`, which holds
`UntilStale`) says that what a context has found, or whose timer has expired
there, is still in the lists and has the key it was found for (`InHands`); that a
rule is freed only in the hands of the one that deletes it is what `stale` excludes.
A list holds an entry once and no entry is in both (`ListsOnce`): that
`del_rule()` stops at the first match is enough only because of it. An open TCP
connection has a rule whose timer does not run and which nobody is about to
delete (`TcpRules`); every SYN adds such a rule of its own, which is why timers of
earlier connections do no harm, and an open UDP flow has some rule
(`UdpRules`).

**Abstractions.** Packets that change no rule only read the lists and are not
modelled as steps; FW_LIST copies the static rules to the user.

## 8. SchedulingServiceCORBA

Clients submit jobs to a scheduler and poll for results; a mapper thread gives
each job to the server that reports the least load.

**State and actions** (`Scheduler`). `jobs`, `results`, `threads` and `nextID` are
the fields of `JobMapper`. A turn of its loop is `WakeUp`, then per job
`NextJob`, `AskServer` for every id and `StartThread`, then `ClearJobs` and
`Gather`; `m_jobs` is locked from the first to the last but one
(`MapperHoldsJobs`), and the other maps are not. A server obtains its id
(`ReadCounter`, `WriteCounter`: an increment without a lock), then binds its
name. ORB and naming service are external. A load is any value below the
initial minimum, so every server that answers may be chosen.

**Run `sched_jobs`.** Two clients with a job each, two servers that start at any
time and of which one may be killed, two job ids. No job is lost or run twice
and a client gets the result of its own job (`JobsKept`), and a job that was given to a server that lives is answered (`ServedOrUnlucky`).
Fairness: the mapper, its threads and polling clients go on; nothing makes a
server or a client start.

**Proofs** (`ThreadProofs`). `JobsStayKept` is `JobsKept` for any servers, of which any
may die, and any clients, as long as there are no more of them than ids
(`EnoughIDs`: a `short` has 65536 values, and results are kept for ever, so the job
after those would meet an old one). The maps of the mapper are not locked except
`m_jobs`, so the invariant (`SchedInv`) ties each entry to its owner: ids differ and
the next one is new (`IdsDiffer`), whatever is in a map or a thread under an id
belongs to the client that has the id (`UnderOwnId`), and a job in `m_jobs` has a
thread exactly if the mapper has dealt with it in this turn (`MapperKeepsTrack`),
so that `m_jobs.clear()` drops just the jobs that have one. `ServedOrUnlucky` is
left to TLC.

**Abstractions.** What a job computes is the job itself. The generated stubs,
the logger and the test driver are left out.

## 9. SerialPortDriverLinux and SerialPortDriverWindows

Two drivers for the 16550 UART with the same structure: `read()` waits until the
interrupt handler has emptied the FIFO into a buffer, `write()` puts bytes in a
second buffer that the handler sends.

**State and actions** (`SerialPort`, one port). `platform` says which driver is
running: Linux waits on flags, Windows on auto-reset events, and they enable
the transmitter's interrupt after and before the wait. `smp` says whether the
handler runs beside the processes or only between their steps. The interrupt
enable register is changed by reading it and writing it back, so each is a step
of its own (`irq_inb`, `irq_outb`, `inb`, `outb`). `use` says who uses the port.
Loading obtains the character device, the I/O region and the interrupt in
turn and may fail at each (`do_requests`, `do_requests_fails`); unloading
releases them. The UART (`arrive`, `transmit`) is external.

**Run `serial_port`.** A FIFO of two bytes (14 in the code), two bytes that
arrive, two that are written, and sizes of zero, one and more than the FIFO.
Both platforms, both values of `smp`, and a reader, a writer, one process that
does both in turns, or a reader during SET_LINE. `ReceivedOnce`: a port that is only read
gives every byte once and in order. `SentOnce`: on Linux a `write()` that has
returned has sent its bytes, once. `TransfersReturn`: on one CPU no wake-up is
lost. Two bytes are enough for one to arrive while another is being read, and
a FIFO that is full. Fairness: the handler runs while the UART asks for it, and
a process that is not waiting goes on; nobody has to call and nothing has to
arrive.

**Proofs** (`SerialPortProofs`). `ReadsAreComplete` and `WritesGoOut` are
`ReceivedOnce` and `SentOnce` for any FIFO size and any number of bytes. Nothing
but the interrupt enable register keeps the handler away from a buffer that a
process uses, so the invariant says where an interrupt can still come from: it
is off in the register, in the copy the handler is about to write back and in
those of the processes (`Off`, `Masked`), or the process has left the buffer to
the handler (`ReadInv`, `WriteInv`). The bytes are then accounted for as
sequences: what `read()` has returned, the buffer and the FIFO, one after the
other, are the bytes that arrived. `TransfersReturn` is left to TLC.

**Abstractions.** The second port is a second copy of the same state. The line
parameters are not kept; what SET_LINE changes here is the divisor latch,
which hides the data register. `loadParameters()` of the Windows driver, which
reads the choice of ports from the registry, is left out.

## 10. VirtualMemoryLinux

A library that gives a program more virtual pages than it has frames. Pages
start without protection; the SIGSEGV handler maps, protects and swaps them.

**State and actions** (`VirtualMemory`). `pages_info` are the page records,
`mapping` what mmap and mprotect have set, `ram` and `swap` the two files. An
access is `begin`, as many `sigsegv_handler` as it takes, and `complete`. The handler has a
disjunct per state of the page: `fault_none` (a free frame, or `swap_data`),
`fault_read` and `fault_swap` (`swap_data_swap`). Offsets are those of the code,
which uses the number of a page, of a frame or of a place in the swap in turn.

**Run `vm_pages`.** Two frames and four pages, accessed in any order and without
a bound. `PageTableSound`: the handler always finds its victim, a page has a
frame exactly when it is mapped, and frames are not shared by pages that are
touched first in ascending order. `ResidentKeepsData`: such a page keeps its
contents while it is in RAM, whatever is swapped around it. `AccessCompletes`:
an access ends after finitely many faults, or a CHECK ends the program. Four
pages over two frames allow both kinds of swapping, clean and dirty victims,
and a page that is swapped twice. Fairness: the faulting instruction is
executed again when the handler returns.

**Proofs** (`LinuxProgramProofs`). `TableSound` and `DataKept` are `PageTableSound`
and `ResidentKeepsData` for all numbers of pages and frames `vinit` accepts. The
handler always takes its victim from frame 0; so, while pages are touched first
in ascending order, pages 1 to `ram_pages - 1` stay in the frames of their own
number for good and all the others take turns in frame 0. That is the invariant
(`Ordered`) that makes the rest inductive, and the reason why the properties say
`ordered`. All steps of the handler are instances of two moves, a page that
enters a frame (`Enter`) and two that exchange one (`Exchange`), about which the
lemmas are. `AccessCompletes` is left to TLC.

**Abstractions.** A page is one value. `ram_sync()` and the getters change
nothing the program sees; `swap_data()` with `exists_in_swap` set has no caller.

## 11. AuthenticatedFilesServer

Clients connect to a department server, which asks an authorization server
about each of them. An upload that contains a forbidden word bans the client.

| Module | What it is |
|---|---|
| `AuthorizationServer` | the serving thread, the files of bans and the timers; no specification of its own |
| `DepartmentServer` | clients, accepting thread, handlers and upload list, composed with the former |
| `MCDepartmentServer` | two clients of different priority, one of which connects twice |
| `DepartmentServerProofs` | theorems |

**State and actions.** `enc` and `dec` are banned_encrypted and banned_decrypted,
by whether they exist and the list of names they decrypt to. `isBanned()` reads
one buffer of 1024 bytes: it finds the first `Fits` bans only. `isBanned()`, `ban()` and
`BannedTimerTask` take one step per file operation, since the timers run beside
the serving thread without a lock. Everything about a session is indexed by the
connection, and `User` says whose it is: a client connects whenever it likes,
also while its other connections are served or one of them is being banned. In the department server the accepting
thread asks and waits (`accept`, `verdict`), and a handler has a step for each
thing another thread can see: storing the file, the record in memory,
truncating the list, writing it, confirming. `server_crash` and `auth_dies` end
a process at any of these points, `server_start` reads the list back.

**Run `department`.** Two connections, of one client or of two, one file, one
command per connection, two bans with their timers, one stop of the department
server, the death of the authorization server, with and without a file of bans
at the start. `work` says what the behaviour is about: bans with two connections
of Ana, and uploads with a stop or of two lengths with one of Ana and one of Dan.
`ServedRightly`: only clients of sufficient
priority are served, and a connection is not served when a ban of its client had
been carried out before the server asked about it and is among the first `Fits`,
while no two threads have been at the files at once. Connections that a client
has already are served on after its ban, and so may be one that is asked about while the ban is
under way: section 13. `ListedIsStored`: the list, in memory and on disk, only names
stored files. `ConfirmedIsSaved`: a confirmed upload is on disk, while the list
is not written twice at once or cut. `EveryoneIsAnswered`: verdicts and answers
come, whatever dies. Fairness: threads that can run do; users, starts and
deaths need not happen.

**Proofs.** For any clients, connections, names, numbers of commands, bans, timers
and stops, and any `Fits`: `ListsSound` (`ListedIsStored`), `UploadsAreDurable`
(`ConfirmedIsSaved`) and `OnlyTheAllowed` (`ServedRightly`). The invariant comes in
layers, each proved with the ones before it. `Types` and `Sessions` (a connection that
waits for its verdict waits once and has no handler). For the list: `Stores` (a record in
memory, in the file or in the hands of a handler is that of a stored file, and
the list in memory extends the one in the file) and `Saves` (a confirmed record,
or one a handler is about to confirm, is among those the writer will have
written). For the verdicts: `Files` (while threads take turns, the two files hold
the list of bans in order, except at the steps where one of them is being replaced), `Requests`
(each question and each ban has one asker, who waits) and `Grants` (a verdict on
its way is right about the bans that were known when it was asked for; later ones
are added behind these). `EveryoneIsAnswered` is left
to TLC.

**Abstractions.** Encryption is what a file decrypts to; no name is part of
another (`isBanned()` looks for the name anywhere in the text), and the number of
bans in the first 1024 bytes does not depend on whose they are; certificates are those
of the clients (a refused one is a dropped connection). The set `connections`,
which nobody reads, `Cipher` objects used by two threads, a client that dies in
the middle of an upload, and errors of the disk are left out.

## 12. MiniShellLinux

A shell with `;`, `&`, `&&`, `||`, `|`, redirections and variables.

| Module | What it is |
|---|---|
| `ShellParser` | the automaton of `parser.tab.c` with its tables, and the actions that build the tree |
| `MiniShell` | the shell's processes, their descriptors, pipes and files |
| `ShellLines` | lines, their tokens and what the parser makes of them; the properties that compare a line's tree with what is run |
| `MCMiniShell` | the lines that are typed |
| `MiniShellInv` | the inductive invariants |
| `LinuxProgramProofs` | the proofs, together with those of section 10 |

`MiniShell` takes what `parse_line` returns for a line as a constant, `Parse`, and
so does not depend on the recursive `ShellParser`; `MCMiniShell` gives `Parse` the
value that the automaton computes.

**State and actions.** `parse_line` runs the automaton on the tokens of a line;
words live in a heap, because one can be linked into two lists. Each process
has a stack of frames, which says where in `display_command` or
`execute_simple_command` it is. `fork` copies the process; `&` and `|` are run by a
child and a grandchild, as in the code. A result is a return value, an exit
code of 8 bits or a wait status, converted where the code does so
(`ExitStatus`, `Result`, `OrStatus`). fork, pipe and open may fail. The
programs are external: they write, copy, fail, are killed or do not exist.

**Run `mini_shell`.** About 500 lines: all trees of three internal commands and
of four with blanks, all pairs of six programs with redirections under all
operators, longer pipes as in the repository's tests, cd, variables, and all
pairs of output redirections with and without blanks. A pipe holds one chunk, so writers
wait. `ParsedRight` compares the automaton's tree with a definition by the
priorities of the operators. `ConditionsRight`: && and || decide on what the
programs really did, where a pipe has succeeded when both its commands have, as
the comment on it says; conditions on a pipe whose left side has failed, or still
runs, while the right one succeeded are left out (`HidesFailure`, section 13). `NothingLeftRunning`: at the prompt nothing of the line
runs but what was piped into a command that has ended. `OutputKept`: what was
written is in the file, unless two processes had it open at once. `PromptReturns`: no reader of a pipe waits for an end
that does not come, whatever fails. Fairness: some process that can run does;
each takes finitely many steps per line, so all of them do.

**Proofs** (`LinuxProgramProofs`). `NobodyForgotten` and `OutputStays` are
`NothingLeftRunning` and `OutputKept` for all lines, whatever the parser makes of
them, all files, sizes of a pipe, numbers of processes and of failures.

- `NothingLeftRunning` rests on `ProcInv`. `Awaited`: while no system call has failed,
  each process that is not the writer of a pipe, or below one, is awaited by its
  parent, in one of its frames of `waitpid`, and the parent is such a process
  itself. Frames after which a process waits for nobody, because they end in
  `exit` or `execvp`, are below no frame that waits (`Tidy`): so no step drops a
  wait but the one that has seen the child end. That alone would allow a ring of processes that
  wait for each other apart from the shell; `Deeper` excludes it with a depth
  that grows from parent to child. At the prompt the shell has no frame left,
  so it awaits nobody; a counted process of least depth would have the shell
  for its parent, and there is none.
- `OutputKept` rests on `FileInv`. Files are opened only by the child that is to run a
  program, in the order input, output, error output (`Stage`); a copy of the shell has
  none open. So each file that was not opened by two processes has at most one
  description that is written to, which two streams of a command may share, and no
  description is both read and written (`Alone`); that description stands at the
  end of the file or appends (`AtEnd`). A write therefore overwrites nothing
  (`InFile`).

The parts of both invariants were checked by TLC on the lines of the run before
they were proved, all but the existence of the depth, over which it cannot
quantify. `ParsedRight` and `ConditionsRight` are left to TLC (section 14).

**Abstractions.** The scanner is left out: a line is the sequence of its tokens.
`MaxProcs` bounds the processes at a time: a fork that finds no free pid has to
wait or to fail.
A name is the sequence of its parts. `unsigned int` is as wide as `size_t`, as
on the machines the program was written for (see section 13). One line is
typed per behaviour; the shell keeps only its directory and environment from
one line to the next.

## 13. What does not hold

The statements below are definitions of the modules or were made for this
table, from what the documents and comments of the programs say. Each is
refuted by TLC with the constants given here, which differ from the run of the
component only as stated; those about code the models leave out say so.

| Statement | Where it fails | Why |
|---|---|---|
| FaultTolerantSort `Terminates` | `WorkerDies = TRUE` | a worker that dies after its answer to the probe leaves the master in `MPI_Recv` (`operations.cpp:85`); the program's README (line 63) promises to survive it |
| `MirrorReplacesMaster` | `ft_faults`, where rank 0 may die by itself (`MasterDies`) | the mirror waits for 111 for ever (`manager.cpp:360`), or at the barrier (`:172`); rank 0 waits as long for a mirror that has died before it |
| `TasksSound` (`PacketFits`) | `MAX_PACKET_SIZE = 6`: an input only one int shorter | `task_buffer` has 16384 ints (`task_manager.h:50`) whatever the input, and a merge task is sent whole: inputs of more than 16382 numbers, the 20000 of the Makefile among them, rely on the order of the merges |
| `SameQueue`, `MirrorHasCheckPoint`, `FullInv` | `PromptMirror = FALSE` | rank 1 may read the file while rank 0 rewrites it |
| LinuxIPC `WaitsForServer` without its conditions | a second client, or a second command after a print | tokens have no owner, and a print posts each semaphore once more (`client.c:61`) |
| `StoredOnce`, `RefinesDict` | three words in one bucket of two cells | the search for a free cell leaves the bucket (`server.c:112`) |
| Monitor `OneSemaphore`, `MutualExclusion` | threads that use conditions | a thread woken in `Wait()` or `Signal()` does not lock the mutex again (`LibMonitor.cpp:189`) |
| `NeverIdle` | two threads, no conditions | the owner may leave between a failed trylock and the push (`LibMonitor.cpp:129`) |
| `EntryQueued` without `raced` | three threads, no conditions | two threads push on `entry_queue` at once, without the mutex (`LibMonitor.cpp:138`): one is lost, or a slot that nobody wrote is posted |
| `AnySignallersResume` without `raced` | as in the run, followed further | with conditions two threads are inside at once, and a push on `signaled_queue` or `waiting_queue` is lost (`LibMonitor.cpp:223`, `:215`): a signaller sleeps for ever |
| ReadersWriters `SomebodyComes`: `NobodyWaitsInVain` without `cut` | three writers, `Rounds = 1` | a writer that `Signal()` has woken runs without the mutex; between its test and its count (`LibRW.cpp:66`) the last writer sees nobody waiting and wakes nobody |
| ReadersWriters `RWExclusion` | one reader and one writer, `Rounds = 2` | a woken writer does not own the monitor (`LibRW.cpp:70`) |
| SimpleRAID `KeepsReadable` | two requests that only write, two contents, no faults | the CRC sector is patched in a shared buffer (`ssr.c:90`) |
| `StoredWithCRC` | two requests that only read, two contents, no faults | a repair from a shared buffer (`ssr.c:211`) |
| `ReadDelivers` | one fault | a read that repairs copies nothing to the user (`ssr.c:219`) |
| SyscallMonitor `ReachesOriginal` | `Serial = FALSE` | the flag and the table are changed under different locks (`sci.c:205`) |
| `StartMonitors` | as in the run | START_MONITOR lists the caller, not its argument |
| `ExitForgets` | as in the run | only a command for exit_group takes a pid out of the lists; the end of a process does not (`sci.c:193`) |
| Firewall `TimersOnListed`, `NoSelfDeadlock` | as in the run, without its CONSTRAINT | the rule found is used without the lock (`ip_firewall.c:113`), which is taken with softirqs enabled (`rules.c:130`) |
| `FinRemoves` | as in the run | a repeated SYN adds a second rule |
| `NoTimerLeft` | as in the run | hooks are removed after the lists (`ip_firewall.c:336`) |
| Scheduler `Served` | as in the run | a job for which no server answers has a null result for ever (`JobMapper.java:38`) |
| `TakenOnce` | as in the run | finished threads are removed from the wrong map (`JobMapper.java:145`) |
| `NoAnswerToQueued` | `IDs = 1` | a new job meets the result of an old one (`JobMapper.java:157`) |
| `Reachable` | as in the run | two servers get one id (`Scheduler.java:57`) |
| SerialPort `ReceivedOnce` for every `use` | as in the run, uses "turns" and "setline" | `write()` writes back an ier in which the receiver's interrupt is enabled again; under the divisor latch the handler reads the divisor for data |
| `SentOnce` without its conditions | after a signal, for two processes, or on Windows | the buffer is refilled while the handler still sends it; on Windows the transmitter's interrupt is enabled from the start and the handler may send a buffer before it is filled |
| `TransfersReturn` | `smp`, or two processes ("together") | an update of ier is lost between its read and its write (`uart16550.c:162`, `:195`) |
| VirtualMemory: the program never exits by a CHECK | as in the run | a page that is swapped out clean for the second time takes its place from a field that was just reset (`tema-mv.c:372`) |
| a page that was evicted has its contents again | as in the run | the page is written to and read from places computed from the wrong number (`tema-mv.c:383`, `:455`) |
| `PageTableSound` without `ordered` | as in the run | a frame counts as free when the page of the same number is unused (`tema-mv.c:316`) |
| AuthorizationServer: a ban ends | as in the run | the result of `replace()` is dropped (`AuthorizationServer.java:137`) |
| every ban from before the question is found | a third connection, of another client that is banned first | `isBanned()` reads 1024 bytes of the list (`AuthorizationServer.java:290`): bans behind them do not count |
| a client is not served after its ban | as in the run | a handler or a question that was there before the ban is not told of it (`Server.java:507` ends the connection of the upload only) |
| `ServedRightly` with `lossy` | as in the run | a timer deletes banned_encrypted while it is read, and an exception counts as not banned; without that file no ban takes effect |
| `ConfirmedIsSaved` with `torn` | as in the run | `serialize()` truncates and rewrites the list without a lock (`Server.java:71`) |
| DepartmentServer: a client is always accepted again | as in the run | the accepting thread returns for ever when the authorization server does not answer (`Server.java:409`) |
| a stored file is what was uploaded | uploads of both lengths | a shorter upload leaves the end of the longer one (`Server.java:647`) |
| a list reply is complete | as in the run | an upload during the iteration cuts it, and the client takes the next answer for the rest |
| MiniShell `ParsedRight` without `Misread` | as in the run | `2>>` with blanks on both sides adds the file to the standard output's list (`parser.tab.c:2032`); after `&> x` a second output redirection ends in both lists or fails an assertion, because one word is in both |
| the result of `c1 & c2` is that of both | as in the run | the comment in `tema1_mini_shell.cpp:119` says so, but `result \| status2` is cut to 8 bits by `exit()` and the first command's code is lost |
| `ConditionsRight` without `HidesFailure` | as in the run | the comment in `tema1_mini_shell.cpp:120` gives `c1 \| c2` the result rezultat(c1) \| rezultat(c2), but line 196 returns that of c2 only: `false \| true && x` runs x |
| nothing runs at the prompt | a pipe whose right side ends first | nobody waits for the left side (`tema1_mini_shell.cpp:181`) |
| an invalid descriptor is ignored | a file that cannot be opened | the comment in `tema1_mini_shell.cpp:299` says so, but `redirect()` tests newfd, not oldfd, and exits |
| a command that is no assignment is executed | builds with a 64-bit `size_t` (not modelled) | `pos` is an unsigned int and is never equal to `npos` (`tema1_mini_shell.cpp:370`) |

## 14. What is proved and what is only model-checked

TLAPS proves the following for every value of the constants; the argument of
each is in the section of its component.

| Theorem | States | Hypotheses |
|---|---|---|
| `FaultTolerantSortProofs`: `FullInvariance`, `TypeCorrect`, `NoErrors`, `Counters`, `OutputIsComplete` | `FullInv`, `TypeOK`, `NoRunTimeError`, `CountersAgree`, `OutputComplete` are invariants | `NoTornTakeover` |
| `TasksStaySound` | `TasksSound` is an invariant | `NoTornTakeover`, `InputFits` |
| `ImplementsPool` | `FaultTolerantSort` implements `MergePool` | `NoTornTakeover` |
| `LinuxIPCProofs`: `TableIsASet` | `LinuxIPC` implements `Dictionary` | `Room` |
| `LoneClientIsInStep` | `LoneClientInStep` is an invariant | `Buckets > 1` |
| `ThreadProofs`: `EnterExcludes`, `EntryQueueSound` | `EntryExclusion`, `EntryQueued` are invariants | none |
| `JobsStayKept` | `JobsKept` is an invariant | `EnoughIDs` |
| `SimpleRAIDProofs`: `SectorsStayReadable` | `KeepsReadable` is an invariant | `Sole` |
| `SuccessMeansMirrored`, `WritesAreAtomic` | the action properties `SuccessMirrors`, `WritesTakeEffect` hold | `Sole`, `Injective` |
| `KernelModuleProofs`: `TypeInvariance` | `TypeOK` is an invariant | none |
| `SerialIsSafe`, `FlagsGovernTable` | `ReachesOriginal`, `TableMatchesFlags` are invariants | `Serial` |
| `FlowsStayOpen` | `StaysOpen` is an invariant | none |
| `SerialPortProofs`: `ReadsAreComplete`, `WritesGoOut` | `ReceivedOnce`, `SentOnce` are invariants | none |
| `LinuxProgramProofs`: `TableSound`, `DataKept` | `PageTableSound`, `ResidentKeepsData` are invariants | none |
| `NobodyForgotten`, `OutputStays` | `NothingLeftRunning`, `OutputKept` are invariants | none |
| `DepartmentServerProofs`: `ListsSound`, `UploadsAreDurable` | `ListedIsStored`, `ConfirmedIsSaved` are invariants | none |
| `OnlyTheAllowed` | the action property `ServedRightly` holds | none |

A hypothesis is a formula on the constants that TLC's instances satisfy. Section
13 shows that `NoTornTakeover`, `InputFits`, `Room`, `Sole`, `Serial` and `EnoughIDs` (by
`NoAnswerToQueued`) are needed; that there is more than one bucket is so in the code; that the CRC tells contents apart is
true of single errors only, and an assumption of the program itself. The
constants are otherwise only assumed to be what the modules' ASSUMEs say: sizes are natural
numbers, sets that the code cannot have empty (`Sectors`, `Names`) are not,
special values are none of the ordinary ones. Facts about a least element (the
first free cell, the first matching page) go through the well-foundedness of
the natural numbers (`WFMin`), since induction theorems with an operator as
parameter cannot be used.

The inductive invariants were checked by TLC on the instances of the runs
before they were proved; `FullInv` is among the properties of `ft_faults`. The
type invariants (`TypeOK`) of the modules without theorems hold on the same
instances; they are not listed among the properties of the runs.

Liveness (`Terminates`, `WorkersLeave`, `FinishesUnlessAbandoned`,
`CommandsReturn`, `AnySignallersResume`, `ServedOrUnlucky`, `TransfersReturn`,
`AccessCompletes`, `EveryoneIsAnswered`, `PromptReturns`) is beyond the prover,
and so are `ShellParser` and `ShellLines`, which are recursive. The safety
properties that are model-checked and not proved are `MirrorHasCheckPoint`, which
with `NoTornTakeover` says little more than that the file is read back right,
`NobodyWaitsInVain`, whose invariant would have to follow each semaphore of a
condition through the queues and the hands of the threads, and the two of
`ShellLines`:
`ParsedRight` compares two recursive definitions, and `ConditionsRight` follows
the tree of a line to any depth; both would need induction over data.

The modules of the firewall, of the scheduler and of the shell name their specifications
`FirewallSpec`, `SchedulerSpec` and `ShellSpec`, because each shares its module of proofs with
another component.

Deadlock is checked in `raid_sole` and `sci_serial`. In the other runs the
system may stop: a service ends, clients have no more commands to give, a
program has exited or the module is gone.

## 15. Not modelled, and the plan

- SyscallMonitorWindows and NetworkFirewallWindows: variants of their Linux
  counterparts, with lists per process and a filter hook. They would be
  variants of `SyscallMonitor` and `Firewall`, with a variable that never
  changes and names the platform, as in `SerialPort`.
- Image QuiltingCellArchitecture: numeric image processing, out of TLC's reach;
  only the mailbox protocol between PPU and SPUs could be modelled.
- FilesServerLinux and RemoteShellRPC: single-threaded servers that answer one
  request after the other and keep no state between requests, so nothing
  interleaves. READ and WRITE of the former are stubs.
- The scanner of MiniShellLinux, the CORBA stubs: generated code that maps
  characters to tokens and calls to messages.
- Unloading of the system call monitor, `Destroy()` of the monitor.
