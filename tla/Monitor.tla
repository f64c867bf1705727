------------------------------- MODULE Monitor -------------------------------
(***************************************************************************)
(* ThreadsMonitorLinux: the generic monitor of LibMonitor.cpp.             *)
(*                                                                         *)
(* A thread that sleeps has made one semaphore, so the queues of           *)
(* semaphores are queues of threads, and posted is the set of semaphores   *)
(* that are 1.  What a thread in an operation of the monitor still has to  *)
(* do is a sequence of tasks; each task is one access to the mutex, a      *)
(* queue or a semaphore, and other threads run in between.                 *)
(***************************************************************************)
EXTENDS Integers, Sequences, FiniteSets, SequencesExt

CONSTANTS Threads,
          Conditions,
          Policy,     \* "SIGNAL_AND_WAIT" or "SIGNAL_AND_CONTINUE"
          Free,       \* the owner of a mutex nobody holds
          Stale       \* what a slot of a queue holds that nobody has written

ASSUME MonitorAssumption ==
  /\ Free \notin Threads /\ Stale \notin Threads
  /\ Policy \in {"SIGNAL_AND_WAIT", "SIGNAL_AND_CONTINUE"}
  /\ Conditions \cap {"entry", "signaled", "waiting"} = {}

VARIABLES
  mutex,     \* who locked the mutex last, or Free
  queue,     \* entry_queue, signaled_queue, waiting_queue, conditions_queue
  entered,   \* entered_threads
  posted,    \* threads whose semaphore has been posted
  todo,      \* per thread: what it still has to do in the monitor
  raced,     \* history: a queue has been used while another thread pushed on it
  undefined  \* history: an element has been taken twice, or a semaphore that
             \* is freed has been posted

monitorVars == <<mutex, queue, entered, posted, todo, raced, undefined>>

Task(do, q, who) == [do |-> do, queue |-> q, who |-> who]
Push(q, who) == Task("push", q, who)
Pop(q, who) == Task("pop", q, who)
Post(who) == Task("post", "none", who)
Sleep == Task("sleep", "none", Free)
Lock == Task("lock", "none", Free)
Unlock == Task("unlock", "none", Free)

(* planifica() looks at waiting_queue first.                               *)
Planifica_skips_waiting == Task("plan", "signaled", Free)
Planifica == Task("plan", "waiting", Free)

MonitorInit ==
  /\ mutex = Free
  /\ queue = [q \in {"entry", "signaled", "waiting"} \cup Conditions |-> <<>>]
  /\ entered = {} /\ posted = {}
  /\ todo = [t \in Threads |-> <<>>]
  /\ raced = FALSE /\ undefined = FALSE
-----------------------------------------------------------------------------
Doing(t, do) == todo[t] # <<>> /\ Head(todo[t]).do = do
Idle(t) == todo[t] = <<>>

(* Task of t, the first of its list, is done and some others come first.   *)
Done(t, tasks) == todo' = [todo EXCEPT ![t] = tasks \o Tail(@)]

(* The threads that have written an element behind the end of q and not yet
   moved the end.                                                          *)
Pushing(q) == {u \in Threads : Doing(u, "pushed") /\ Head(todo[u]).queue = q}

(* The queues are changed with and without the mutex.                      *)
Touch(t, q) == raced' = (raced \/ Pushing(q) \ {t} # {})
-----------------------------------------------------------------------------
(* push() writes the element behind the end, ...  The semaphore of a thread
   is new then.                                                            *)
PushWrites(t) ==
  /\ Doing(t, "push")
  /\ LET p == Head(todo[t])
     IN  /\ Touch(t, p.queue)
         /\ posted' = IF p.who = t /\ p.queue # "waiting" THEN posted \ {t} ELSE posted
         /\ Done(t, <<[p EXCEPT !.do = "pushed"]>>)
  /\ UNCHANGED <<mutex, queue, entered, undefined>>

(* What is left of a queue when pushes of the elements of W overlap: the end
   is moved once or not at all, and the slot before it, or the one before
   that, holds an element of one of the threads or one that nobody wrote.  *)
Damaged(s, W) ==
  {s} \cup {Append(s, x) : x \in W \cup {Stale}}
      \cup (IF s = <<>> THEN {} ELSE {Append(Front(s), x) : x \in W})

(* ... and moves the end.                                                  *)
PushEnds(t) ==
  /\ Doing(t, "pushed")
  /\ LET p == Head(todo[t])
         W == {p.who} \cup {Head(todo[u]).who : u \in Pushing(p.queue)}
     IN  \E s \in IF raced THEN Damaged(queue[p.queue], W)
                           ELSE {Append(queue[p.queue], p.who)} :
           queue' = [queue EXCEPT ![p.queue] = s]
  /\ Done(t, <<>>)
  /\ UNCHANGED <<mutex, entered, posted, raced, undefined>>

(* pop().  The element has been read before: another thread may have taken
   it too.                                                                 *)
Pops_keeps_entry(t) ==
  /\ Doing(t, "pop")
  /\ LET p == Head(todo[t])
     IN  /\ Touch(t, p.queue)
         /\ IF queue[p.queue] # <<>> /\ Head(queue[p.queue]) = p.who
              THEN /\ queue' = [queue EXCEPT ![p.queue] =
                                  IF p.queue = "entry" THEN @ ELSE Tail(@)]
                   /\ UNCHANGED undefined
              ELSE undefined' = TRUE /\ UNCHANGED queue
  /\ Done(t, <<>>)
  /\ UNCHANGED <<mutex, entered, posted>>

Pops(t) ==
  /\ Doing(t, "pop")
  /\ LET p == Head(todo[t])
     IN  /\ Touch(t, p.queue)
         /\ IF queue[p.queue] # <<>> /\ Head(queue[p.queue]) = p.who
              THEN queue' = [queue EXCEPT ![p.queue] = Tail(@)] /\ UNCHANGED undefined
              ELSE undefined' = TRUE /\ UNCHANGED queue
  /\ Done(t, <<>>)
  /\ UNCHANGED <<mutex, entered, posted>>
-----------------------------------------------------------------------------
(* A thread has a semaphore until it has slept.                            *)
HasSemaphore(t) ==
  t \in Threads /\ \E i \in 1 .. Len(todo[t]) : todo[t][i].do = "sleep"

(* sem_post(): the memory of a semaphore that is freed may be that of another
   one.                                                                    *)
Posts(t) ==
  /\ Doing(t, "post")
  /\ LET x == Head(todo[t]).who
     IN  IF HasSemaphore(x)
           THEN posted' = posted \cup {x} /\ UNCHANGED undefined
           ELSE /\ \E X \in {{}} \cup {{u} : u \in Threads} : posted' = posted \cup X
                /\ undefined' = TRUE
  /\ Done(t, <<>>)
  /\ UNCHANGED <<mutex, queue, entered, raced>>

(* sem_wait() returns and the semaphore is freed.                          *)
Wakes(t) ==
  /\ Doing(t, "sleep") /\ t \in posted
  /\ posted' = posted \ {t}
  /\ Done(t, <<>>)
  /\ UNCHANGED <<mutex, queue, entered, raced, undefined>>

(* The pthread_mutex_lock() of Enter(): nobody else locks the mutex after it
   has slept.                                                              *)
Locks_does_not_wait(t) ==
  /\ Doing(t, "lock")
  /\ mutex' = t /\ entered' = entered \cup {t}
  /\ Done(t, <<>>)
  /\ UNCHANGED <<queue, posted, raced, undefined>>

Locks(t) ==
  /\ Doing(t, "lock") /\ mutex = Free
  /\ mutex' = t /\ entered' = entered \cup {t}
  /\ Done(t, <<>>)
  /\ UNCHANGED <<queue, posted, raced, undefined>>

(* A default mutex does not check who unlocks it.                          *)
Unlocks(t) ==
  /\ Doing(t, "unlock")
  /\ mutex' = Free
  /\ Done(t, <<>>)
  /\ UNCHANGED <<queue, entered, posted, raced, undefined>>

(* planifica() looks at a queue and reads its front, or goes to the next: it
   wakes a thread and unlocks the mutex, but moves one that has signalled to
   waiting_queue first and begins again.                                   *)
Plans(t) ==
  /\ Doing(t, "plan")
  /\ LET q == Head(todo[t]).queue
         x == Head(queue[q])
     IN  /\ Touch(t, q)
         /\ \/ /\ queue[q] # <<>> /\ q = "signaled"
               /\ Done(t, <<Pop(q, x), Push("waiting", x), Planifica>>)
            \/ /\ queue[q] # <<>> /\ q # "signaled"
               /\ Done(t, <<Pop(q, x), Post(x), Unlock>>)
            \/ /\ queue[q] = <<>> /\ q = "waiting"
               /\ Done(t, <<Task("plan", "signaled", Free)>>)
            \/ /\ queue[q] = <<>> /\ q = "signaled"
               /\ Done(t, <<Task("plan", "entry", Free)>>)
            \/ queue[q] = <<>> /\ q = "entry" /\ Done(t, <<Unlock>>)
  /\ UNCHANGED <<mutex, queue, entered, posted, undefined>>

(* Signal() moves the first of those that wait, if there is one, ...       *)
Takes(t) ==
  /\ Doing(t, "take")
  /\ LET c == Head(todo[t]).queue
         x == Head(queue[c])
     IN  /\ Touch(t, c)
         /\ Done(t, IF queue[c] = <<>> THEN <<>> ELSE <<Pop(c, x), Push("waiting", x)>>)
  /\ UNCHANGED <<mutex, queue, entered, posted, undefined>>

(* ... Broadcast() one after the other.                                    *)
TakesAll(t) ==
  /\ Doing(t, "all")
  /\ LET c == Head(todo[t]).queue
         x == Head(queue[c])
     IN  /\ Touch(t, c)
         /\ Done(t, IF queue[c] = <<>> THEN <<>>
                    ELSE <<Push("waiting", x), Pop(c, x), Head(todo[t])>>)
  /\ UNCHANGED <<mutex, queue, entered, posted, undefined>>

(* The steps of a thread that has called an operation of the monitor.      *)
Inside(t) == \/ PushWrites(t) \/ PushEnds(t) \/ Pops(t) \/ Posts(t) \/ Wakes(t)
             \/ Locks(t) \/ Unlocks(t) \/ Plans(t) \/ Takes(t) \/ TakesAll(t)
-----------------------------------------------------------------------------
(* The operations.                                                         *)
Begins(t, tasks) == Idle(t) /\ todo' = [todo EXCEPT ![t] = tasks]

(* Enter() is pthread_mutex_trylock() and, when it fails, sleep and lock.  *)
Enter(t) ==
  /\ t \notin entered
  /\ IF mutex = Free
       THEN Idle(t) /\ mutex' = t /\ entered' = entered \cup {t} /\ UNCHANGED todo
       ELSE Begins(t, <<Push("entry", t), Sleep, Lock>>) /\ UNCHANGED <<mutex, entered>>
  /\ UNCHANGED <<queue, posted, raced, undefined>>

Leave(t) ==
  /\ t \in entered
  /\ entered' = entered \ {t}
  /\ Begins(t, <<Planifica>>)
  /\ UNCHANGED <<mutex, queue, posted, raced, undefined>>

Wait(t, c) ==
  /\ t \in entered
  /\ Begins(t, <<Push(c, t), Planifica, Sleep>>)
  /\ UNCHANGED <<mutex, queue, entered, posted, raced, undefined>>

(* The end of Signal() and Broadcast().                                    *)
GiveWay(t) == IF Policy = "SIGNAL_AND_WAIT"
                THEN <<Push("signaled", t), Planifica, Sleep>> ELSE <<>>

Signal(t, c) ==
  /\ t \in entered
  /\ Begins(t, <<Task("take", c, Free)>> \o GiveWay(t))
  /\ UNCHANGED <<mutex, queue, entered, posted, raced, undefined>>

Broadcast(t, c) ==
  /\ t \in entered
  /\ Begins(t, <<Task("all", c, Free)>> \o GiveWay(t))
  /\ UNCHANGED <<mutex, queue, entered, posted, raced, undefined>>
-----------------------------------------------------------------------------
(* Between the lock of Enter() and the unlock that planifica() does for
   Leave(), Wait() or Signal().                                            *)
Asleep(t) == Doing(t, "sleep")
Entering(t) == t \notin entered /\ ~Idle(t) /\ Last(todo[t]).do = "lock"
InMonitor == {t \in Threads : \/ t \in entered /\ ~Asleep(t)
                              \/ t \notin entered /\ ~Idle(t) /\ ~Entering(t)}

(* Only one thread at a time is there.                                     *)
MutualExclusion == \A t, u \in InMonitor : t = u

(* Where the semaphore of t is: in the queues, and in the hands of the threads
   that are to push or to post it.                                         *)
Places(t) == UNION {{<<q, i>> : i \in {j \in DOMAIN queue[q] : queue[q][j] = t}} :
                    q \in DOMAIN queue}
Hands(t) == {u \in Threads : /\ ~Idle(u) /\ Head(todo[u]).who = t
                             /\ Head(todo[u]).do \in {"push", "pushed", "post"}}

(* The semaphore of a thread that sleeps is in one queue, or in the hands of
   one thread, or posted, and no other semaphore is.                       *)
OneSemaphore ==
  /\ ~undefined
  /\ \A t \in Threads :
       Cardinality(Places(t)) + Cardinality(Hands(t)) + (IF t \in posted THEN 1 ELSE 0)
         = IF HasSemaphore(t) THEN 1 ELSE 0
-----------------------------------------------------------------------------
(* What the documentation of the program promises and the code does not keep:
   none of the following holds.                                            *)

(* Every thread calls planifica() before it blocks, so that the monitor is
   never left with nobody in it or on the way to it while a thread waits to
   enter.                                                                  *)
NeverIdle ==
  (\E t \in Threads : Entering(t) /\ Asleep(t) /\ t \notin posted) =>
    \E t \in Threads : t \in posted \cup InMonitor \/ (Entering(t) /\ ~Asleep(t))
=============================================================================
