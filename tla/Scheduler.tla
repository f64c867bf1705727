------------------------------ MODULE Scheduler -----------------------------
(***************************************************************************)
(* SchedulingServiceCORBA: clients submit jobs to the scheduler and poll   *)
(* for their results; the JobMapper thread gives each job to a thread,     *)
(* which runs it on the least loaded server. Servers obtain an id from the *)
(* scheduler and register under it in the naming service.                  *)
(*                                                                         *)
(* Requests are served concurrently by threads of the ORB. A job is named  *)
(* by the client that submits it and so is its result.                     *)
(***************************************************************************)
EXTENDS Naturals, Sequences, FiniteSets, Functions, SequencesExt

CONSTANTS
  Clients,
  Servers,
  Mortal,    \* the servers that may be killed
  None,      \* null
  IDs        \* the number of values of a short

ASSUME SchedulerAssumption ==
  /\ None \notin Clients \cup Servers /\ Mortal \subseteq Servers
  /\ IDs \in Nat \ {0}

VARIABLES
  jobs,      \* m_jobs
  results,   \* m_results
  threads,   \* m_threads
  nextID,    \* m_id
  mapper,    \* where JobMapper.run() is
  counter,   \* __server_id_counter
  names,     \* the naming service
  server,    \* per server: how far its main() is, and its id
  client     \* per client: how far its main() is, its job's id and its result

schedulerVars == <<jobs, results, threads, nextID, mapper, counter, names, server, client>>

JobIDs == 0 .. IDs - 1
MapperAsleep == [pc |-> "sleep", todo |-> {}, key |-> 0, i |-> 0, servers |-> 0, pick |-> None]

(* f with the mappings of g, which replace those of f.                     *)
Put(g, f) == [x \in DOMAIN f \cup DOMAIN g |-> IF x \in DOMAIN g THEN g[x] ELSE f[x]]

SchedulerInit ==
  /\ jobs = <<>> /\ results = <<>> /\ threads = <<>> /\ nextID = 0
  /\ mapper = MapperAsleep
  /\ counter = 0 /\ names = <<>>
  /\ server = [s \in Servers |-> [pc |-> "off", id |-> 0]]
  /\ client = [c \in Clients |-> [pc |-> "new", id |-> 0, got |-> None]]

Holds(f, D, R) == DOMAIN f \subseteq D /\ \A x \in DOMAIN f : f[x] \in R
-----------------------------------------------------------------------------
(* getServerID() increments the counter without a lock: it reads, and then *)
(* writes. The server then binds its name, replacing a former binding.     *)
ReadCounter(s) ==
  /\ server[s].pc = "off"
  /\ server' = [server EXCEPT ![s] = [pc |-> "counting", id |-> counter]]
  /\ UNCHANGED <<jobs, results, threads, nextID, mapper, counter, names, client>>

WriteCounter(s) ==
  /\ server[s].pc = "counting"
  /\ counter' = server[s].id + 1
  /\ server' = [server EXCEPT ![s].pc = "binding"]
  /\ UNCHANGED <<jobs, results, threads, nextID, mapper, names, client>>

Rebind(s) ==
  /\ server[s].pc = "binding"
  /\ names' = Put([i \in {server[s].id} |-> s], names)
  /\ server' = [server EXCEPT ![s].pc = "ready"]
  /\ UNCHANGED <<jobs, results, threads, nextID, mapper, counter, client>>

(* A server is killed; its name stays bound.                               *)
Kill(s) ==
  /\ s \in Mortal /\ server[s].pc = "ready"
  /\ server' = [server EXCEPT ![s].pc = "dead"]
  /\ UNCHANGED <<jobs, results, threads, nextID, mapper, counter, names, client>>
-----------------------------------------------------------------------------
(* putJob(), which waits while the mapper holds m_jobs.                    *)
MapperHoldsJobs_not_locked == FALSE

MapperHoldsJobs == mapper.pc \in {"map", "scan"}

SubmitJob_returns_next(c) ==
  /\ client[c].pc = "new" /\ ~MapperHoldsJobs
  /\ jobs' = Put([k \in {nextID} |-> c], jobs)
  /\ nextID' = (nextID + 1) % IDs
  /\ client' = [client EXCEPT ![c].pc = "polling", ![c].id = nextID']
  /\ UNCHANGED <<results, threads, mapper, counter, names, server>>

SubmitJob(c) ==
  /\ client[c].pc = "new" /\ ~MapperHoldsJobs
  /\ jobs' = Put([k \in {nextID} |-> c], jobs)
  /\ nextID' = (nextID + 1) % IDs
  /\ client' = [client EXCEPT ![c].pc = "polling", ![c].id = nextID]
  /\ UNCHANGED <<results, threads, mapper, counter, names, server>>

(* getResult(): a result is handed out once. The scheduler turns null into *)
(* IN_PROGRESS, at which the client polls again, so it also does for a     *)
(* result that is null.                                                    *)
GetResult(c) ==
  /\ client[c].pc = "polling" /\ client[c].id \in DOMAIN results
  /\ LET k == client[c].id
     IN  /\ results' = Restrict(results, DOMAIN results \ {k})
         /\ client' = IF results[k] = None THEN client
                      ELSE [client EXCEPT ![c].pc = "done", ![c].got = results[k]]
  /\ UNCHANGED <<jobs, threads, nextID, mapper, counter, names, server>>
-----------------------------------------------------------------------------
(* The mapper wakes up and takes m_jobs.                                   *)
WakeUp ==
  /\ mapper.pc = "sleep"
  /\ mapper' = [MapperAsleep EXCEPT !.pc = "map", !.todo = DOMAIN jobs]
  /\ UNCHANGED <<jobs, results, threads, nextID, counter, names, server, client>>

(* getScheduledServer() starts for the next job.                           *)
NextJob ==
  /\ mapper.pc = "map"
  /\ \E k \in mapper.todo :
       mapper' = [pc |-> "scan", todo |-> mapper.todo \ {k}, key |-> k, i |-> 0,
                  servers |-> counter, pick |-> None]
  /\ UNCHANGED <<jobs, results, threads, nextID, counter, names, server, client>>

(* Server i is asked for its load, which is whatever its clock says but    *)
(* less than 200, so the first one that answers is always picked and a     *)
(* later one may be. A name that is not bound, or is bound to a dead       *)
(* server, raises an exception and is skipped.                             *)
Answers(i) == i \in DOMAIN names /\ server[names[i]].pc = "ready"

AskServer ==
  /\ mapper.pc = "scan" /\ mapper.i < mapper.servers
  /\ \E pick \in IF Answers(mapper.i)
                 THEN {names[mapper.i]} \cup ({mapper.pick} \ {None})
                 ELSE {mapper.pick} :
       mapper' = [mapper EXCEPT !.i = @ + 1, !.pick = pick]
  /\ UNCHANGED <<jobs, results, threads, nextID, counter, names, server, client>>

StartThread ==
  /\ mapper.pc = "scan" /\ mapper.i >= mapper.servers
  /\ threads' = Append(threads, [job |-> jobs[mapper.key], id |-> mapper.key,
                                 server |-> mapper.pick, pc |-> "started",
                                 result |-> None])
  /\ mapper' = [MapperAsleep EXCEPT !.pc = "map", !.todo = mapper.todo]
  /\ UNCHANGED <<jobs, results, nextID, counter, names, server, client>>

ClearJobs_not_cleared ==
  /\ mapper.pc = "map" /\ mapper.todo = {}
  /\ mapper' = [MapperAsleep EXCEPT !.pc = "gather"]
  /\ UNCHANGED <<jobs, results, threads, nextID, counter, names, server, client>>

ClearJobs ==
  /\ mapper.pc = "map" /\ mapper.todo = {}
  /\ jobs' = <<>>
  /\ mapper' = [MapperAsleep EXCEPT !.pc = "gather"]
  /\ UNCHANGED <<results, threads, nextID, counter, names, server, client>>

(* The results of all finished threads are put into m_results, a later     *)
(* thread's over an earlier one's. Removing the threads, the code asks     *)
(* m_results, which has no thread among its keys: they stay in m_threads.  *)
Finished(t) == threads[t].pc = "finished"

Gathered ==
  [k \in {threads[t].id : t \in {u \in DOMAIN threads : Finished(u)}} |->
     LET last == SelectLastInSeq(threads, LAMBDA r : r.id = k /\ r.pc = "finished")
     IN  threads[last].result]

Gather ==
  /\ mapper.pc = "gather"
  /\ results' = Put(Gathered, results)
  /\ mapper' = MapperAsleep
  /\ UNCHANGED <<jobs, threads, nextID, counter, names, server, client>>
-----------------------------------------------------------------------------
(* SJobThread.run(): without a server the result stays null; a server that *)
(* is dead, or dies before it answers, raises an exception which ends the  *)
(* thread before threadFinished is set.                                    *)
Ended_flag_forgotten(r) == [r EXCEPT !.result = r.job]

Ended(r) ==
  IF r.server = None THEN [r EXCEPT !.pc = "finished"]
  ELSE IF server[r.server].pc = "ready"
       THEN [r EXCEPT !.pc = "finished", !.result = r.job]
       ELSE [r EXCEPT !.pc = "failed"]

Run(t) ==
  /\ threads[t].pc = "started"
  /\ threads' = [threads EXCEPT ![t] = Ended(@)]
  /\ UNCHANGED <<jobs, results, nextID, mapper, counter, names, server, client>>
-----------------------------------------------------------------------------
ServerStep(s) == ReadCounter(s) \/ WriteCounter(s) \/ Rebind(s)
ClientStep(c) == SubmitJob(c) \/ GetResult(c)
MapperStep ==
  WakeUp \/ NextJob \/ AskServer \/ StartThread \/ ClearJobs \/ Gather

SchedulerNext ==
  \/ \E s \in Servers : ServerStep(s) \/ Kill(s)
  \/ \E c \in Clients : ClientStep(c)
  \/ MapperStep
  \/ \E t \in DOMAIN threads : Run(t)

SchedulerSpec == SchedulerInit /\ [][SchedulerNext]_schedulerVars

(* The mapper wakes up every 200 ms, started threads run, and a client     *)
(* that polls polls again. Nothing makes a server or a client start.       *)
FairSchedulerSpec ==
  /\ SchedulerSpec
  /\ WF_schedulerVars(MapperStep)
  /\ \A t \in 1 .. Cardinality(Clients) : WF_schedulerVars(t \in DOMAIN threads /\ Run(t))
  /\ \A c \in Clients : WF_schedulerVars(GetResult(c))
-----------------------------------------------------------------------------
(* Tables, threads, servers and clients are well formed; ids are shorts.   *)
SchedulerTypeOK ==
  /\ Holds(jobs, JobIDs, Clients)
  /\ Holds(results, JobIDs, Clients \cup {None})
  /\ threads \in Seq([job : Clients, id : JobIDs, server : Servers \cup {None},
                      pc : {"started", "finished", "failed"},
                      result : Clients \cup {None}])
  /\ nextID \in JobIDs /\ counter \in Nat
  /\ mapper \in [pc : {"sleep", "map", "scan", "gather"}, todo : SUBSET JobIDs,
                 key : JobIDs, i : Nat, servers : Nat, pick : Servers \cup {None}]
  /\ Holds(names, Nat, Servers)
  /\ server \in [Servers -> [pc : {"off", "counting", "binding", "ready", "dead"},
                             id : Nat]]
  /\ client \in [Clients -> [pc : {"new", "polling", "done"}, id : JobIDs,
                             got : Clients \cup {None}]]

(* A client that stops polling prints the result of the job it submitted,  *)
(* whatever other jobs were submitted, mapped and collected meanwhile.     *)
OwnResult == \A c \in Clients : client[c].pc = "done" => client[c].got = c

(* A job that a client polls for is queued in m_jobs or has a thread: none *)
(* is lost between putJob() and m_jobs.clear(), however they interleave.   *)
NoJobLost ==
  \A c \in Clients : client[c].pc = "polling" =>
    \/ client[c].id \in DOMAIN jobs /\ jobs[client[c].id] = c
    \/ \E t \in DOMAIN threads : threads[t].job = c /\ threads[t].id = client[c].id

(* A job is executed once: the mapper gives it to one thread, and does not *)
(* find it again in m_jobs in a later round.                               *)
RunsOnce ==
  \A t \in DOMAIN threads :
    /\ \A u \in DOMAIN threads : threads[t].job = threads[u].job => t = u
    /\ \A k \in DOMAIN jobs : jobs[k] = threads[t].job => MapperHoldsJobs /\ k \notin mapper.todo

(* Whatever is submitted, mapped and collected meanwhile, a job is neither *)
(* lost nor executed twice, and its client gets no other job's result.     *)
JobsKept == OwnResult /\ NoJobLost /\ RunsOnce

(* A client that polls gets its result, unless no server answered when its *)
(* job was mapped or the server died on it.                                *)
Unlucky(c) ==
  \E t \in DOMAIN threads :
    threads[t].job = c /\ (threads[t].server = None \/ threads[t].pc = "failed")
ServedOrUnlucky ==
  \A c \in Clients : client[c].pc = "polling" ~> client[c].pc = "done" \/ Unlucky(c)
-----------------------------------------------------------------------------
(* What the documentation of the program promises and the code does not keep:
   none of the following holds.                                            *)

(* A client that polls gets its result in the end: the answer is null only *)
(* while its job is in execution.                                          *)
Served == \A c \in Clients : client[c].pc = "polling" ~> client[c].pc = "done"

(* A finished thread is moved to the results, so a result that its client  *)
(* has taken does not come back.                                           *)
TakenOnce == \A c \in Clients : client[c].pc = "done" => client[c].id \notin DOMAIN results

(* While a job is still queued there is no answer to it: a result under    *)
(* its id would be another job's.                                          *)
NoAnswerToQueued ==
  \A c \in Clients :
    /\ client[c].pc = "polling" /\ ~MapperHoldsJobs
    /\ client[c].id \in DOMAIN jobs /\ jobs[client[c].id] = c
    => client[c].id \notin DOMAIN results

(* The scheduler reaches every server that is ready by the server's id.    *)
Reachable == \A s \in Servers : server[s].pc = "ready" => names[server[s].id] = s
=============================================================================
