----------------------------- MODULE ThreadProofs ----------------------------
(***************************************************************************)
(* ThreadsMonitorLinux: the monitor excludes threads that only enter and   *)
(* leave, and its entry queue, which is changed without the mutex, loses   *)
(* none of them unless it is used in the middle of a push.  With Wait() or *)
(* Signal() none of this holds: a thread they wake is in the monitor       *)
(* without its mutex.                                                      *)
(*                                                                         *)
(* SchedulingServiceCORBA: jobs are neither lost nor executed twice, and   *)
(* results go to the clients whose jobs they are of.                       *)
(***************************************************************************)
EXTENDS MCMonitors, Scheduler, FiniteSetTheorems, SequenceTheorems, WellFoundedInduction, TLAPS

(* What a thread that only enters and leaves still has to do in Enter(), ... *)
Writing(t) == <<Push("entry", t), Sleep, Lock>>
Written(t) == <<Task("pushed", "entry", t), Sleep, Lock>>
Sleeping == <<Sleep, Lock>>
Locking == <<Lock>>
(* ... and in Leave().                                                     *)
Looking(q) == <<Task("plan", q, Free)>>
Taking(x) == <<Pop("entry", x), Post(x), Unlock>>
Posting(x) == <<Post(x), Unlock>>
Unlocking == <<Unlock>>

EntersAt(t) == todo[t] \in {Writing(t), Written(t), Sleeping, Locking}
LeavesAt(t) == \/ \E q \in {"waiting", "signaled", "entry"} : todo[t] = Looking(q)
               \/ \E x : todo[t] = Taking(x) \/ todo[t] = Posting(x)
               \/ todo[t] = Unlocking

(* Only entry_queue is used, and the threads have such tasks.              *)
EntryTypes ==
  /\ todo = [t \in Threads |-> todo[t]]
  /\ DOMAIN queue = {"entry", "signaled", "waiting"} \cup Conditions
  /\ \A q \in DOMAIN queue : q # "entry" => queue[q] = <<>>
  /\ entered \subseteq Threads
  /\ \A t \in Threads : \/ todo[t] = <<>>
                        \/ t \notin entered /\ (EntersAt(t) \/ LeavesAt(t))

(* Whoever is in the monitor has locked its mutex.                         *)
OwnerInside ==
  \A t \in Threads : t \in entered \/ LeavesAt(t) => mutex = t

EntryInv == ~useConditions => EntryTypes /\ OwnerInside

-----------------------------------------------------------------------------
(* Lists of tasks: their ends, ...                                         *)
LEMMA Lists ==
  ASSUME NEW a, NEW b, NEW c
  PROVE  /\ <<>> # <<a>> /\ <<>> # <<a, b>> /\ <<>> # <<a, b, c>>
         /\ Head(<<a>>) = a /\ Head(<<a, b>>) = a /\ Head(<<a, b, c>>) = a
         /\ Tail(<<a>>) = <<>> /\ Tail(<<a, b>>) = <<b>> /\ Tail(<<a, b, c>>) = <<b, c>>
         /\ Last(<<a>>) = a /\ Last(<<a, b>>) = b /\ Last(<<a, b, c>>) = c
BY DEF Last

(* ... what comes of joining them, ...                                     *)
LEMMA Joined ==
  ASSUME NEW a, NEW b, NEW c
  PROVE  /\ <<>> \o <<>> = <<>> /\ <<>> \o <<a>> = <<a>> /\ <<>> \o <<a, b>> = <<a, b>>
         /\ <<a>> \o <<>> = <<a>> /\ <<a>> \o <<b, c>> = <<a, b, c>>
         /\ <<a, b, c>> \o <<>> = <<a, b, c>>
<1> DEFINE S == {a, b, c}
<1>1. /\ <<>> \in Seq(S) /\ <<a>> \in Seq(S) /\ <<a, b>> \in Seq(S)
      /\ <<b, c>> \in Seq(S) /\ <<a, b, c>> \in Seq(S)
  OBVIOUS
<1>2. <<a>> \o <<b, c>> = <<a, b, c>>
  <2> DEFINE s == <<a>> \o <<b, c>>
  <2>1. s \in Seq(S) /\ Len(s) = 3
        /\ \A i \in 1 .. 3 : s[i] = IF i <= 1 THEN <<a>>[i] ELSE <<b, c>>[i - 1]
    BY <1>1, ConcatProperties
  <2>2. s[1] = a /\ s[2] = b /\ s[3] = c
    BY <2>1
  <2> HIDE DEF s
  <2>3. \A i \in 1 .. 3 : s[i] = <<a, b, c>>[i]
    BY <2>2
  <2>4. s = <<a, b, c>>
    BY <1>1, <2>1, <2>3, SeqEqual
  <2> QED
    BY <2>4 DEF s
<1> QED
  BY <1>1, <1>2, ConcatEmptySeq

(* ... the first task and the others of those that are named above, ...    *)
LEMMA Forms ==
  ASSUME NEW t, NEW q, NEW x
  PROVE  /\ Writing(t) # <<>> /\ Head(Writing(t)) = Push("entry", t)
         /\ Tail(Writing(t)) = Sleeping
         /\ Written(t) # <<>> /\ Head(Written(t)) = Task("pushed", "entry", t)
         /\ Tail(Written(t)) = Sleeping
         /\ Sleeping # <<>> /\ Head(Sleeping) = Sleep /\ Tail(Sleeping) = Locking
         /\ Locking # <<>> /\ Head(Locking) = Lock /\ Tail(Locking) = <<>>
         /\ Looking(q) # <<>> /\ Head(Looking(q)) = Task("plan", q, Free)
         /\ Tail(Looking(q)) = <<>>
         /\ Taking(x) # <<>> /\ Head(Taking(x)) = Pop("entry", x)
         /\ Tail(Taking(x)) = Posting(x)
         /\ Posting(x) # <<>> /\ Head(Posting(x)) = Post(x)
         /\ Tail(Posting(x)) = Unlocking
         /\ Unlocking # <<>> /\ Head(Unlocking) = Unlock /\ Tail(Unlocking) = <<>>
BY Lists DEF Writing, Written, Sleeping, Locking, Looking, Taking, Posting, Unlocking

(* ... and the last.                                                       *)
LEMMA Ends ==
  ASSUME NEW t, NEW q, NEW x
  PROVE  /\ Last(Writing(t)) = Lock /\ Last(Written(t)) = Lock /\ Last(Sleeping) = Lock
         /\ Last(Locking) = Lock
         /\ Last(Looking(q)) = Task("plan", q, Free)
         /\ Last(Taking(x)) = Unlock /\ Last(Posting(x)) = Unlock
         /\ Last(Unlocking) = Unlock
BY Lists DEF Writing, Written, Sleeping, Locking, Looking, Taking, Posting, Unlocking, Last

(* The parts of a task.                                                    *)
LEMMA Words ==
  ASSUME NEW d, NEW q, NEW x
  PROVE  /\ Task(d, q, x).do = d /\ Task(d, q, x).queue = q /\ Task(d, q, x).who = x
         /\ Push(q, x) = Task("push", q, x) /\ Pop(q, x) = Task("pop", q, x)
         /\ Post(x) = Task("post", "none", x) /\ Sleep.do = "sleep"
         /\ Lock.do = "lock" /\ Unlock.do = "unlock" /\ Planifica = Task("plan", "waiting", Free)
BY DEF Task, Push, Pop, Post, Sleep, Lock, Unlock, Planifica

(* What the first task of each list is.                                    *)
LEMMA Heads ==
  /\ \A t : Head(Writing(t)).do = "push" /\ Head(Written(t)).do = "pushed"
  /\ Head(Sleeping).do = "sleep" /\ Head(Locking).do = "lock"
  /\ \A q : Head(Looking(q)).do = "plan"
  /\ \A x : Head(Taking(x)).do = "pop" /\ Head(Posting(x)).do = "post"
  /\ Head(Unlocking).do = "unlock"
<1>1. ASSUME NEW t PROVE Head(Writing(t)).do = "push" /\ Head(Written(t)).do = "pushed"
  <2>1. Head(Writing(t)) = Push("entry", t) /\ Head(Written(t)) = Task("pushed", "entry", t)
    BY Forms
  <2>2. QED
    BY <2>1 DEF Push, Task
<1>2. Head(Sleeping).do = "sleep" /\ Head(Locking).do = "lock" /\ Head(Unlocking).do = "unlock"
  BY Forms DEF Sleep, Lock, Unlock, Task
<1>3. ASSUME NEW q PROVE Head(Looking(q)).do = "plan"
  BY Forms DEF Task
<1>4. ASSUME NEW x PROVE Head(Taking(x)).do = "pop" /\ Head(Posting(x)).do = "post"
  <2>1. Head(Taking(x)) = Pop("entry", x) /\ Head(Posting(x)) = Post(x)
    BY Forms
  <2>2. QED
    BY <2>1 DEF Pop, Post, Task
<1>5. QED
  BY <1>1, <1>2, <1>3, <1>4

(* The tasks of a thread of which each is the first.                       *)
LEMMA FirstTask ==
  ASSUME EntryTypes, NEW t \in Threads, todo[t] # <<>>
  PROVE  LET d == Head(todo[t]).do
         IN  /\ d = "push" => todo[t] = Writing(t)
             /\ d = "pushed" => todo[t] = Written(t)
             /\ d = "sleep" => todo[t] = Sleeping
             /\ d = "lock" => todo[t] = Locking
             /\ d = "plan" => \E q \in {"waiting", "signaled", "entry"} : todo[t] = Looking(q)
             /\ d = "pop" => \E x : todo[t] = Taking(x)
             /\ d = "post" => \E x : todo[t] = Posting(x)
             /\ d = "unlock" => todo[t] = Unlocking
             /\ d \notin {"take", "all"}
<1>1. EntersAt(t) \/ LeavesAt(t)
  BY DEF EntryTypes
<1>2. CASE EntersAt(t)
  <2>1. /\ Head(Writing(t)).do = "push" /\ Head(Written(t)).do = "pushed"
        /\ Head(Sleeping).do = "sleep" /\ Head(Locking).do = "lock"
    BY Heads
  <2>2. QED
    BY <1>2, <2>1 DEF EntersAt
<1>3. CASE \E q \in {"waiting", "signaled", "entry"} : todo[t] = Looking(q)
  <2>1. PICK q \in {"waiting", "signaled", "entry"} : todo[t] = Looking(q)
    BY <1>3
  <2>2. Head(todo[t]).do = "plan"
    BY <2>1, Heads
  <2>3. QED
    BY <2>1, <2>2
<1>4. CASE \E x : todo[t] = Taking(x)
  <2>1. PICK x : todo[t] = Taking(x)
    BY <1>4
  <2>2. Head(todo[t]).do = "pop"
    BY <2>1, Heads
  <2>3. QED
    BY <2>1, <2>2
<1>5. CASE \E x : todo[t] = Posting(x)
  <2>1. PICK x : todo[t] = Posting(x)
    BY <1>5
  <2>2. Head(todo[t]).do = "post"
    BY <2>1, Heads
  <2>3. QED
    BY <2>1, <2>2
<1>6. CASE todo[t] = Unlocking
  <2>1. Head(todo[t]).do = "unlock"
    BY <1>6, Heads
  <2>2. QED
    BY <1>6, <2>1
<1>7. QED
  BY <1>1, <1>2, <1>3, <1>4, <1>5, <1>6 DEF LeavesAt

(* The tasks of t become s.                                                *)
Moves(t, s) == todo' = [todo EXCEPT ![t] = s]

(* The steps inside the monitor of a thread that only enters and leaves.   *)
LEMMA EntrySteps ==
  ASSUME EntryTypes, NEW t \in Threads, Inside(t)
  PROVE  \/ /\ todo[t] = Writing(t) /\ Moves(t, Written(t)) /\ PushWrites(t)
            /\ Touch(t, "entry") /\ posted' = posted \ {t}
         \/ /\ todo[t] = Written(t) /\ Moves(t, Sleeping) /\ PushEnds(t)
            /\ \E s : /\ queue' = [queue EXCEPT !["entry"] = s]
                      /\ ~raced => s = Append(queue["entry"], t)
         \/ todo[t] = Sleeping /\ Moves(t, Locking) /\ Wakes(t)
         \/ todo[t] = Locking /\ Moves(t, <<>>) /\ Locks(t)
         \/ todo[t] = Looking("waiting") /\ Moves(t, Looking("signaled")) /\ Plans(t)
         \/ todo[t] = Looking("signaled") /\ Moves(t, Looking("entry")) /\ Plans(t)
         \/ /\ todo[t] = Looking("entry") /\ queue["entry"] = <<>>
            /\ Moves(t, Unlocking) /\ Plans(t)
         \/ /\ todo[t] = Looking("entry") /\ queue["entry"] # <<>>
            /\ Moves(t, Taking(Head(queue["entry"]))) /\ Plans(t) /\ Touch(t, "entry")
         \/ \E x : /\ todo[t] = Taking(x) /\ Moves(t, Posting(x)) /\ Pops(t)
                   /\ Touch(t, "entry")
                   /\ IF queue["entry"] # <<>> /\ Head(queue["entry"]) = x
                        THEN /\ queue' = [queue EXCEPT !["entry"] = Tail(queue["entry"])]
                             /\ UNCHANGED undefined
                        ELSE undefined' = TRUE /\ UNCHANGED queue
         \/ \E x : /\ todo[t] = Posting(x) /\ Moves(t, Unlocking) /\ Posts(t)
                   /\ HasSemaphore(x) => posted' = posted \cup {x} /\ UNCHANGED undefined
         \/ todo[t] = Unlocking /\ Moves(t, <<>>) /\ Unlocks(t)
<1> USE DEF Moves, Doing
<1>1. CASE PushWrites(t)
  <2>1. todo[t] = Writing(t)
    BY <1>1, FirstTask DEF PushWrites
  <2>2. Head(todo[t]) = Task("push", "entry", t) /\ Tail(todo[t]) = Sleeping
    BY <2>1, Forms, Words
  <2>3. [Head(todo[t]) EXCEPT !.do = "pushed"] = Task("pushed", "entry", t)
    BY <2>2 DEF Task
  <2>4. <<Task("pushed", "entry", t)>> \o Sleeping = Written(t)
    BY Joined DEF Sleeping, Written
  <2>5. Head(todo[t]).queue = "entry" /\ Head(todo[t]).who = t
    BY <2>2, Words
  <2>6. Touch(t, "entry") /\ posted' = posted \ {t}
    BY <1>1, <2>5 DEF PushWrites
  <2>7. Moves(t, Written(t))
    BY <1>1, <2>1, <2>2, <2>3, <2>4 DEF PushWrites, Done
  <2>8. QED
    BY <1>1, <2>1, <2>6, <2>7
<1>2. CASE PushEnds(t)
  <2>1. todo[t] = Written(t)
    BY <1>2, FirstTask DEF PushEnds
  <2>0. Tail(todo[t]) = Sleeping
    BY <2>1, Forms
  <2>2. <<>> \o Sleeping = Sleeping
    BY Joined DEF Sleeping
  <2>3. Moves(t, Sleeping)
    BY <1>2, <2>1, <2>0, <2>2 DEF PushEnds, Done
  <2>4. Head(todo[t]).queue = "entry" /\ Head(todo[t]).who = t
    <3>1. Head(todo[t]) = Task("pushed", "entry", t)
      BY <2>1, Forms
    <3>2. QED
      BY <3>1 DEF Task
  <2>5. \E s : /\ queue' = [queue EXCEPT !["entry"] = s]
               /\ ~raced => s = Append(queue["entry"], t)
    BY <1>2, <2>4 DEF PushEnds
  <2>6. QED
    BY <1>2, <2>1, <2>3, <2>5
<1>3. CASE Pops(t)
  <2>1. PICK x : todo[t] = Taking(x)
    BY <1>3, FirstTask DEF Pops
  <2>2. Tail(todo[t]) = Posting(x) /\ <<>> \o Posting(x) = Posting(x)
    BY <2>1, Forms, Joined DEF Posting
  <2>3. Moves(t, Posting(x))
    BY <1>3, <2>1, <2>2 DEF Pops, Done
  <2>4. Head(todo[t]).queue = "entry" /\ Head(todo[t]).who = x
    <3>1. Head(todo[t]) = Pop("entry", x)
      BY <2>1, Forms
    <3>2. QED
      BY <3>1 DEF Pop, Task
  <2>5. QED
    BY <1>3, <2>1, <2>3, <2>4 DEF Pops
<1>4. CASE Posts(t)
  <2>1. PICK x : todo[t] = Posting(x)
    BY <1>4, FirstTask DEF Posts
  <2>2. Tail(todo[t]) = Unlocking /\ <<>> \o Unlocking = Unlocking
    BY <2>1, Forms, Joined DEF Unlocking
  <2>3. Moves(t, Unlocking)
    BY <1>4, <2>1, <2>2 DEF Posts, Done
  <2>4. Head(todo[t]).who = x
    <3>1. Head(todo[t]) = Post(x)
      BY <2>1, Forms
    <3>2. QED
      BY <3>1 DEF Post, Task
  <2>5. QED
    BY <1>4, <2>1, <2>3, <2>4 DEF Posts
<1>5. CASE Wakes(t)
  <2>1. todo[t] = Sleeping /\ Tail(todo[t]) = Locking /\ <<>> \o Locking = Locking
    BY <1>5, FirstTask, Forms, Joined DEF Wakes, Locking
  <2>2. QED
    BY <1>5, <2>1 DEF Wakes, Done
<1>6. CASE Locks(t)
  <2>1. todo[t] = Locking /\ Tail(todo[t]) = <<>> /\ <<>> \o <<>> = <<>>
    BY <1>6, FirstTask, Forms, Joined DEF Locks
  <2>2. QED
    BY <1>6, <2>1 DEF Locks, Done
<1>7. CASE Unlocks(t)
  <2>1. todo[t] = Unlocking /\ Tail(todo[t]) = <<>> /\ <<>> \o <<>> = <<>>
    BY <1>7, FirstTask, Forms, Joined DEF Unlocks
  <2>2. QED
    BY <1>7, <2>1 DEF Unlocks, Done
<1>8. CASE Plans(t)
  <2>1. PICK q \in {"waiting", "signaled", "entry"} : todo[t] = Looking(q)
    BY <1>8, FirstTask DEF Plans
  <2>2. Head(todo[t]).queue = q /\ Tail(todo[t]) = <<>>
    BY <2>1, Forms, Words
  <2>3. \A a : <<a>> \o <<>> = <<a>>
    BY Joined
  <2>4. \A a, b, c : <<a, b, c>> \o <<>> = <<a, b, c>>
    BY Joined
  <2>5. CASE queue[q] = <<>>
    BY <1>8, <2>1, <2>2, <2>3, <2>5 DEF Plans, Done, Looking, Unlocking
  <2>6. CASE queue[q] # <<>>
    <3>1. q = "entry"
      BY <2>6 DEF EntryTypes
    <3>2. <<Pop("entry", Head(queue["entry"])), Post(Head(queue["entry"])), Unlock>> \o <<>>
          = Taking(Head(queue["entry"]))
      BY <2>4 DEF Taking
    <3>3. Done(t, <<Pop(q, Head(queue[q])), Post(Head(queue[q])), Unlock>>)
      BY <1>8, <2>2, <2>6, <3>1 DEF Plans
    <3>4. Moves(t, Taking(Head(queue["entry"])))
      BY <2>2, <3>1, <3>2, <3>3 DEF Done
    <3>5. Touch(t, "entry")
      BY <1>8, <2>2, <3>1 DEF Plans
    <3>6. QED
      BY <1>8, <2>1, <2>6, <3>1, <3>4, <3>5
  <2>7. QED
    BY <2>5, <2>6
<1>9. ~Takes(t) /\ ~TakesAll(t)
  BY FirstTask DEF Takes, TakesAll
<1>10. QED
  BY <1>1, <1>2, <1>3, <1>4, <1>5, <1>6, <1>7, <1>8, <1>9 DEF Inside
-----------------------------------------------------------------------------
(* The tasks s are those of Enter(), or of Leave().                        *)
Enters(t, s) == s \in {Writing(t), Written(t), Sleeping, Locking}
Leaves(s) == \/ \E q \in {"waiting", "signaled", "entry"} : s = Looking(q)
             \/ \E x : s = Taking(x) \/ s = Posting(x)
             \/ s = Unlocking

(* They are never both.                                                    *)
LEMMA Apart ==
  ASSUME NEW t, NEW s, s = <<>> \/ Enters(t, s)
  PROVE  ~Leaves(s)
<1>3. \A q, x : Looking(q) # <<>> /\ Taking(x) # <<>> /\ Posting(x) # <<>> /\ Unlocking # <<>>
  BY Forms
<1>4. CASE s = <<>>
  BY <1>3, <1>4 DEF Leaves
<1>5. CASE Enters(t, s)
  <2>1. Head(s).do \in {"push", "pushed", "sleep", "lock"}
    BY Heads, <1>5 DEF Enters
  <2>2. Leaves(s) => Head(s).do \in {"plan", "pop", "post", "unlock"}
    BY Heads DEF Leaves
  <2>3. QED
    BY <2>1, <2>2
<1>6. QED
  BY <1>4, <1>5

(* A step of t that leaves the other threads where they are.               *)
LEMMA OwnerStep ==
  ASSUME EntryTypes, OwnerInside, NEW t \in Threads, NEW s, Moves(t, s),
         DOMAIN queue' = DOMAIN queue,
         \A q \in DOMAIN queue : q # "entry" => queue'[q] = <<>>,
         entered' \subseteq Threads, \A u \in Threads \ {t} : u \in entered' <=> u \in entered,
         s = <<>> \/ (t \notin entered' /\ (Enters(t, s) \/ Leaves(s))),
         t \in entered' \/ Leaves(s) => mutex' = t,
         mutex' = mutex \/ mutex = Free \/ Leaves(todo[t])
  PROVE  (EntryTypes /\ OwnerInside)'
<1> USE DEF EntryTypes, OwnerInside, EntersAt, LeavesAt, Enters, Leaves, Moves
<1>1. DOMAIN todo' = Threads /\ todo'[t] = s
      /\ \A u \in Threads \ {t} : todo'[u] = todo[u]
  OBVIOUS
<1>2. EntryTypes'
  BY <1>1
<1>3. ASSUME NEW u \in Threads, (u \in entered \/ LeavesAt(u))' PROVE mutex' = u
  <2>1. CASE u = t
    BY <1>1, <1>3, <2>1
  <2>2. CASE u # t
    <3>1. u \in entered \/ LeavesAt(u)
      BY <1>1, <1>3, <2>2
    <3>2. mutex = u
      BY <3>1
    <3>3. mutex # Free
      BY <3>2, MonitorAssumption
    <3>4. ~Leaves(todo[t])
      BY <3>2, <2>2
    <3>5. QED
      BY <3>2, <3>3, <3>4
  <2>3. QED
    BY <2>1, <2>2
<1>4. QED
  BY <1>2, <1>3
-----------------------------------------------------------------------------
(* The steps of such a thread keep the owner of the mutex the only one inside. *)
LEMMA OwnerInvariant ==
  ASSUME EntryTypes, OwnerInside, NEW t \in Threads, Inside(t)
  PROVE  (EntryTypes /\ OwnerInside)'
<1> USE DEF Enters, Leaves
<1>0. \/ todo[t] = <<>> \/ t \notin entered
  BY DEF EntryTypes
<1>1. CASE todo[t] = Writing(t) /\ Moves(t, Written(t)) /\ PushWrites(t)
  BY <1>1, Apart, Forms, OwnerStep DEF PushWrites, EntryTypes
<1>2. CASE /\ todo[t] = Written(t) /\ Moves(t, Sleeping) /\ PushEnds(t)
           /\ \E s : queue' = [queue EXCEPT !["entry"] = s]
  <2>1. /\ DOMAIN queue' = DOMAIN queue
        /\ \A q \in DOMAIN queue : q # "entry" => queue'[q] = <<>>
    BY <1>2 DEF EntryTypes
  <2>2. QED
    BY <1>0, <1>2, <2>1, Apart, Forms, OwnerStep DEF PushEnds, EntryTypes
<1>3. CASE todo[t] = Sleeping /\ Moves(t, Locking) /\ Wakes(t)
  BY <1>3, Apart, Forms, OwnerStep DEF Wakes, EntryTypes
<1>4. CASE todo[t] = Locking /\ Moves(t, <<>>) /\ Locks(t)
  BY <1>4, OwnerStep DEF Locks, EntryTypes
<1>5. ASSUME Leaves(todo[t]), Leaves(todo'[t]), Moves(t, todo'[t]), UNCHANGED <<mutex, entered>>,
             DOMAIN queue' = DOMAIN queue,
             \A q \in DOMAIN queue : q # "entry" => queue'[q] = <<>>
      PROVE (EntryTypes /\ OwnerInside)'
  <2>1. mutex = t
    BY <1>5 DEF OwnerInside, LeavesAt
  <2>2. todo[t] # <<>>
    BY <1>5, Apart
  <2>3. QED
    BY <1>0, <1>5, <2>1, <2>2, OwnerStep DEF EntryTypes
<1>6. \A q \in {"waiting", "signaled", "entry"} : Leaves(Looking(q))
  OBVIOUS
<1>7. \A x : Leaves(Taking(x)) /\ Leaves(Posting(x)) /\ Leaves(Unlocking)
  OBVIOUS
<1> HIDE DEF Leaves, Enters
<1>8. ASSUME Plans(t), NEW s, Leaves(todo[t]), Leaves(s), Moves(t, s)
      PROVE (EntryTypes /\ OwnerInside)'
  BY <1>5, <1>8 DEF Plans, EntryTypes, Moves
<1>9. ASSUME NEW x, todo[t] = Taking(x) /\ Moves(t, Posting(x)) /\ Pops(t),
             \/ queue' = [queue EXCEPT !["entry"] = Tail(queue["entry"])]
             \/ UNCHANGED queue
      PROVE (EntryTypes /\ OwnerInside)'
  BY <1>5, <1>7, <1>9 DEF Pops, EntryTypes, Moves
<1>10. ASSUME NEW x, todo[t] = Posting(x) /\ Moves(t, Unlocking) /\ Posts(t)
       PROVE (EntryTypes /\ OwnerInside)'
  BY <1>5, <1>7, <1>10 DEF Posts, EntryTypes, Moves
<1> USE DEF Enters, Leaves
<1>11. CASE todo[t] = Unlocking /\ Moves(t, <<>>) /\ Unlocks(t)
  BY <1>11, Apart, Forms, OwnerStep DEF Unlocks, EntryTypes
<1>12. QED
  <2> HIDE DEF Enters, Leaves
  <2>1. QED
    BY EntrySteps, <1>1, <1>2, <1>3, <1>4, <1>6, <1>7, <1>8, <1>9, <1>10, <1>11

(* The calls of a thread that only enters and leaves.                      *)
LEMMA OwnerCalls ==
  ASSUME EntryTypes, OwnerInside, NEW t \in Threads, Enter(t) \/ Leave(t)
  PROVE  (EntryTypes /\ OwnerInside)'
<1>1. CASE Enter(t) /\ mutex = Free
  <2>1. todo[t] = <<>> /\ todo' = todo /\ mutex' = t /\ entered' = entered \cup {t} /\ UNCHANGED queue
    BY <1>1 DEF Enter, Idle
  <2>2. Moves(t, <<>>)
    BY <2>1 DEF Moves, EntryTypes
  <2>3. QED
    BY <1>1, <2>1, <2>2, OwnerStep DEF EntryTypes
<1>2. CASE Enter(t) /\ mutex # Free
  <2>1. Moves(t, Writing(t)) /\ t \notin entered /\ UNCHANGED <<mutex, queue, entered>>
    BY <1>2 DEF Enter, Begins, Moves, Writing
  <2>2. Enters(t, Writing(t)) /\ ~Leaves(Writing(t))
    BY Apart DEF Enters
  <2>3. QED
    BY <2>1, <2>2, OwnerStep DEF EntryTypes
<1>3. CASE Leave(t)
  <2>1. Moves(t, Looking("waiting")) /\ UNCHANGED <<mutex, queue>>
        /\ t \in entered /\ entered' = entered \ {t}
    BY <1>3 DEF Leave, Begins, Moves, Looking, Planifica
  <2>2. Leaves(Looking("waiting")) /\ mutex = t
    BY <2>1 DEF Leaves, OwnerInside
  <2>3. QED
    BY <2>1, <2>2, OwnerStep DEF EntryTypes
<1>4. QED
  BY <1>1, <1>2, <1>3

(* Threads that call only Enter() and Leave(): whoever is in the monitor is the
   owner of its mutex.                                                     *)
LEMMA OwnerInvariance == Spec => []EntryInv
<1>1. Init => EntryInv
  BY DEF Init, MonitorInit, EntryInv, EntryTypes, OwnerInside, LeavesAt, Looking, Taking, Posting,
     Unlocking
<1>2. EntryInv /\ [Next]_vars => EntryInv'
  <2> SUFFICES ASSUME EntryInv, [Next]_vars, ~useConditions' PROVE (EntryTypes /\ OwnerInside)'
    BY DEF EntryInv
  <2>1. ~useConditions /\ EntryTypes /\ OwnerInside
    BY DEF EntryInv, Next, Call, LeaveCall, Step, Spend, vars
  <2>2. CASE UNCHANGED vars
    BY <2>1, <2>2 DEF vars, monitorVars, EntryTypes, OwnerInside, EntersAt, LeavesAt
  <2>3. CASE Next
    <3>1. PICK t \in Threads : Enter(t) \/ Leave(t) \/ Inside(t)
      BY <2>1, <2>3 DEF Next, Call, LeaveCall, Step
    <3>2. QED
      BY <2>1, <3>1, OwnerCalls, OwnerInvariant
  <2>4. QED
    BY <2>2, <2>3
<1>3. QED
  BY <1>1, <1>2, PTL DEF Spec

(* LibMonitor.cpp: Enter() and Leave() let one thread at a time into the
   monitor, for every set of threads and whatever comes of the pushes on
   entry_queue that overlap.                                               *)
THEOREM EnterExcludes == Spec => []EntryExclusion
<1>1. EntryInv => EntryExclusion
  <2> SUFFICES ASSUME EntryTypes, OwnerInside, NEW t \in InMonitor, NEW u \in InMonitor
               PROVE  t = u
    BY DEF EntryInv, EntryExclusion, MutualExclusion
  <2>1. ASSUME NEW v \in InMonitor PROVE v \in Threads /\ mutex = v
    <3>1. EntersAt(v) => Last(todo[v]).do = "lock"
      BY Ends, Words DEF EntersAt
    <3>2. v \in entered \/ LeavesAt(v)
      BY <2>1, <3>1 DEF EntryTypes, InMonitor, Idle, Entering
    <3>3. QED
      BY <2>1, <3>2 DEF OwnerInside, InMonitor
  <2>2. QED
    BY <2>1
<1>2. QED
  BY <1>1, OwnerInvariance, PTL
-----------------------------------------------------------------------------
(* The entry queue.                                                        *)

(* u stands in the sequence s; nobody stands there twice.                  *)
Stands(s, u) == \E i \in 1 .. Len(s) : s[i] = u
Distinct(s) == \A i, j \in 1 .. Len(s) : s[i] = s[j] => i = j

(* planifica() has taken the semaphore of u and is about to post it.       *)
InHand(u) == \E v \in Threads : todo[v] = Posting(u)

(* The semaphore of a thread that sleeps is in the queue, once, or in the
   hands of the thread that has taken it from there, or posted.            *)
SleepersKept ==
  \A u \in Threads :
    /\ Stands(queue["entry"], u) \/ InHand(u) \/ u \in posted <=> todo[u] = Sleeping
    /\ ~(Stands(queue["entry"], u) /\ InHand(u))
    /\ ~(Stands(queue["entry"], u) /\ u \in posted)
    /\ ~(InHand(u) /\ u \in posted)

(* What planifica() has read is still the front of the queue when it is popped:
   whoever pushes in between pushes at the other end.                      *)
FrontKept ==
  \A v \in Threads : \A x :
    /\ todo[v] = Taking(x) => queue["entry"] # <<>> /\ Head(queue["entry"]) = x
    /\ todo[v] = Posting(x) => x \in Threads

QueueSound ==
  /\ queue["entry"] \in Seq(Threads) /\ Distinct(queue["entry"])
  /\ posted \subseteq Threads /\ ~undefined
  /\ SleepersKept /\ FrontKept

(* A sequence that a thread is added to, ...                               *)
LEMMA Pushed ==
  ASSUME NEW s \in Seq(Threads), NEW t \in Threads, Distinct(s), ~Stands(s, t)
  PROVE  /\ Append(s, t) \in Seq(Threads) /\ Distinct(Append(s, t))
         /\ \A u : Stands(Append(s, t), u) <=> Stands(s, u) \/ u = t
         /\ s # <<>> => Append(s, t) # <<>> /\ Head(Append(s, t)) = Head(s)
<1> DEFINE a == Append(s, t)
<1>1. /\ a \in Seq(Threads) /\ Len(s) \in Nat /\ Len(a) = Len(s) + 1 /\ a[Len(s) + 1] = t
      /\ \A i \in 1 .. Len(s) : a[i] = s[i]
  OBVIOUS
<1>2. a # <<>> /\ (s # <<>> => Len(s) > 0 /\ Head(s) = s[1])
  <2>1. Len(<<>>) = 0
    OBVIOUS
  <2>2. QED
    BY <1>1, <2>1
<1> HIDE DEF a
<1>3. Head(a) = a[1]
  BY <1>1, <1>2
<1>4. \A i \in 1 .. Len(a) : i \in 1 .. Len(s) \/ i = Len(s) + 1
  BY <1>1
<1>5. Distinct(a)
  BY <1>1, <1>4 DEF Distinct, Stands
<1>6. \A u : Stands(a, u) <=> Stands(s, u) \/ u = t
  <2>1. \A i \in 1 .. Len(s) : i \in 1 .. Len(a)
    BY <1>1
  <2>2. Len(s) + 1 \in 1 .. Len(a)
    BY <1>1
  <2>3. QED
    BY <1>1, <1>4, <2>1, <2>2 DEF Stands
<1>7. s # <<>> => a # <<>> /\ Head(a) = Head(s)
  BY <1>1, <1>2, <1>3
<1>8. QED
  BY <1>1, <1>5, <1>6, <1>7 DEF a

(* ... or taken from.                                                      *)
LEMMA Popped ==
  ASSUME NEW s \in Seq(Threads), Distinct(s), s # <<>>
  PROVE  /\ Tail(s) \in Seq(Threads) /\ Distinct(Tail(s)) /\ Head(s) \in Threads
         /\ Stands(s, Head(s))
         /\ \A u : Stands(Tail(s), u) <=> Stands(s, u) /\ u # Head(s)
<1> DEFINE a == Tail(s)
<1>1. /\ a \in Seq(Threads) /\ Len(s) \in Nat /\ Len(s) > 0 /\ Len(a) = Len(s) - 1
      /\ Head(s) = s[1] /\ s[1] \in Threads
      /\ \A i \in 1 .. Len(s) - 1 : a[i] = s[i + 1] /\ i + 1 \in 1 .. Len(s)
  OBVIOUS
<1> HIDE DEF a
<1>2. Distinct(a)
  <2>1. \A i, j \in 1 .. Len(s) - 1 : i + 1 = j + 1 => i = j
    BY <1>1
  <2>2. QED
    BY <1>1, <2>1 DEF Distinct
<1>3. 1 \in 1 .. Len(s) /\ Stands(s, Head(s))
  BY <1>1 DEF Stands
<1>4. ASSUME NEW u, Stands(a, u) PROVE Stands(s, u) /\ u # Head(s)
  <2>1. PICK i \in 1 .. Len(s) - 1 : a[i] = u
    BY <1>1, <1>4 DEF Stands
  <2>2. s[i + 1] = u /\ i + 1 \in 1 .. Len(s) /\ i + 1 # 1
    BY <1>1, <2>1
  <2>3. QED
    BY <1>1, <1>3, <2>2 DEF Stands, Distinct
<1>5. ASSUME NEW u, Stands(s, u), u # Head(s) PROVE Stands(a, u)
  <2>1. PICK i \in 1 .. Len(s) : s[i] = u
    BY <1>5 DEF Stands
  <2>2. i # 1 /\ i - 1 \in 1 .. Len(a) /\ (i - 1) + 1 = i
    BY <1>1, <1>5, <2>1
  <2>3. a[i - 1] = u
    BY <1>1, <2>1, <2>2
  <2>4. QED
    BY <2>2, <2>3 DEF Stands
<1>6. QED
  BY <1>1, <1>2, <1>3, <1>4, <1>5 DEF a

(* The thread that is woken is part of the list.                           *)
LEMMA Alike ==
  ASSUME NEW x, NEW y
  PROVE  /\ Posting(x) = Posting(y) => x = y
         /\ Taking(x) = Taking(y) => x = y
<1>1. Head(Posting(x)).who = x /\ Head(Posting(y)).who = y
  <2>1. Head(Posting(x)) = Post(x) /\ Head(Posting(y)) = Post(y)
    BY Forms
  <2>2. QED
    BY <2>1 DEF Post, Task
<1>2. Head(Taking(x)).who = x /\ Head(Taking(y)).who = y
  <2>1. Head(Taking(x)) = Pop("entry", x) /\ Head(Taking(y)) = Pop("entry", y)
    BY Forms
  <2>2. QED
    BY <2>1 DEF Pop, Task
<1>3. QED
  BY <1>1, <1>2

(* Which of the lists are different.                                       *)
LEMMA Others ==
  ASSUME NEW t, NEW q, NEW x,
         NEW s \in {<<>>, Writing(t), Written(t), Locking, Looking(q), Unlocking}
  PROVE  s # Sleeping /\ s # Taking(x) /\ s # Posting(x)
<1>1. Sleeping # <<>> /\ Taking(x) # <<>> /\ Posting(x) # <<>>
  BY Forms
<1>2. CASE s = <<>>
  BY <1>1, <1>2
<1>3. CASE s # <<>>
  <2>1. Head(s).do \in {"push", "pushed", "lock", "plan", "unlock"}
    BY <1>3, Heads
  <2>2. Head(Sleeping).do = "sleep" /\ Head(Taking(x)).do = "pop" /\ Head(Posting(x)).do = "post"
    BY Heads
  <2>3. QED
    BY <2>1, <2>2
<1>4. QED
  BY <1>2, <1>3

LEMMA ApartLeaving ==
  ASSUME NEW x, NEW y
  PROVE  Sleeping # Taking(x) /\ Sleeping # Posting(x) /\ Taking(x) # Posting(y)
<1>1. Head(Sleeping).do = "sleep" /\ Head(Taking(x)).do = "pop" /\ Head(Posting(x)).do = "post"
      /\ Head(Posting(y)).do = "post"
  BY Heads
<1>2. QED
  BY <1>1

(* A thread goes on without a semaphore of a sleeper.                      *)
LEMMA Aside ==
  ASSUME QueueSound, DOMAIN todo = Threads, NEW t \in Threads, NEW s, Moves(t, s),
         queue'["entry"] = queue["entry"], posted' = posted, undefined' = undefined,
         todo[t] # Sleeping, \A x : todo[t] # Posting(x), s # Sleeping,
         \A x : s # Taking(x) /\ s # Posting(x)
  PROVE  QueueSound'
<1>1. todo'[t] = s /\ \A u \in Threads \ {t} : todo'[u] = todo[u]
  BY DEF Moves
<1>2. \A u : InHand(u)' <=> InHand(u)
  BY <1>1 DEF InHand
<1>3. SleepersKept'
  BY <1>1, <1>2 DEF QueueSound, SleepersKept
<1>4. FrontKept'
  BY <1>1 DEF QueueSound, FrontKept
<1>5. QED
  BY <1>3, <1>4 DEF QueueSound

QueueInv == EntryTypes /\ OwnerInside /\ QueueSound

(* A push that no other has overlapped ends.                               *)
LEMMA QueuePushed ==
  ASSUME QueueInv, NEW t \in Threads, todo[t] = Written(t), Moves(t, Sleeping),
         queue' = [queue EXCEPT !["entry"] = Append(queue["entry"], t)],
         UNCHANGED <<posted, undefined>>
  PROVE  QueueSound'
<1>0. DOMAIN todo = Threads /\ "entry" \in DOMAIN queue
  BY DEF QueueInv, EntryTypes
<1>1. todo'[t] = Sleeping /\ \A u \in Threads \ {t} : todo'[u] = todo[u]
  BY <1>0 DEF Moves
<1>2. queue'["entry"] = Append(queue["entry"], t)
  BY <1>0
<1>3. todo[t] # Sleeping /\ \A x : todo[t] # Taking(x) /\ todo[t] # Posting(x)
  BY Others
<1>4. ~Stands(queue["entry"], t) /\ ~InHand(t) /\ t \notin posted
  BY <1>3 DEF QueueInv, QueueSound, SleepersKept
<1>5. /\ queue'["entry"] \in Seq(Threads) /\ Distinct(queue'["entry"])
      /\ \A u : Stands(queue'["entry"], u) <=> Stands(queue["entry"], u) \/ u = t
      /\ queue["entry"] # <<>> => queue'["entry"] # <<>> /\ Head(queue'["entry"]) = Head(queue["entry"])
  BY <1>2, <1>4, Pushed DEF QueueInv, QueueSound
<1>6. \A u : InHand(u)' <=> InHand(u)
  BY <1>1, <1>3, ApartLeaving DEF InHand
<1>7. SleepersKept'
  BY <1>1, <1>4, <1>5, <1>6 DEF QueueInv, QueueSound, SleepersKept
<1>8. FrontKept'
  <2>1. \A x : Sleeping # Taking(x) /\ Sleeping # Posting(x)
    BY ApartLeaving
  <2>2. QED
    BY <1>1, <1>5, <2>1 DEF QueueInv, QueueSound, FrontKept
<1>9. QED
  BY <1>5, <1>7, <1>8 DEF QueueInv, QueueSound

(* planifica() pops what it has read, ...                                  *)
LEMMA QueuePopped ==
  ASSUME QueueInv, NEW t \in Threads, NEW x, todo[t] = Taking(x), Moves(t, Posting(x)),
         queue["entry"] # <<>>, Head(queue["entry"]) = x,
         queue' = [queue EXCEPT !["entry"] = Tail(queue["entry"])],
         UNCHANGED <<posted, undefined>>
  PROVE  QueueSound'
<1>0. DOMAIN todo = Threads /\ "entry" \in DOMAIN queue
  BY DEF QueueInv, EntryTypes
<1>1. todo'[t] = Posting(x) /\ \A u \in Threads \ {t} : todo'[u] = todo[u]
  BY <1>0 DEF Moves
<1>2. queue'["entry"] = Tail(queue["entry"])
  BY <1>0
<1>3. \A u \in Threads \ {t} : \A y : todo[u] # Taking(y) /\ todo[u] # Posting(y)
  BY MonitorAssumption DEF QueueInv, OwnerInside, LeavesAt
<1>4. /\ queue'["entry"] \in Seq(Threads) /\ Distinct(queue'["entry"]) /\ x \in Threads
      /\ Stands(queue["entry"], x)
      /\ \A u : Stands(queue'["entry"], u) <=> Stands(queue["entry"], u) /\ u # x
  BY <1>2, Popped DEF QueueInv, QueueSound
<1>5. \A u : ~InHand(u)
  BY <1>3, ApartLeaving DEF InHand
<1>6. \A u : InHand(u)' <=> u = x
  BY <1>1, <1>3, Alike DEF InHand
<1>7. \A u \in Threads : todo'[u] = Sleeping <=> todo[u] = Sleeping
  BY <1>1, ApartLeaving
<1>8. SleepersKept'
  BY <1>4, <1>5, <1>6, <1>7 DEF QueueInv, QueueSound, SleepersKept
<1>9. FrontKept'
  BY <1>1, <1>3, <1>4, Alike, ApartLeaving DEF FrontKept
<1>10. QED
  BY <1>4, <1>8, <1>9 DEF QueueInv, QueueSound

(* ... posts it, ...                                                       *)
LEMMA QueuePosted ==
  ASSUME QueueInv, NEW t \in Threads, NEW x, todo[t] = Posting(x), Moves(t, Unlocking),
         posted' = posted \cup {x}, UNCHANGED <<queue, undefined>>
  PROVE  QueueSound'
<1>1. todo'[t] = Unlocking /\ \A u \in Threads \ {t} : todo'[u] = todo[u]
  BY DEF Moves, QueueInv, EntryTypes
<1>2. \A u \in Threads \ {t} : \A y : todo[u] # Taking(y) /\ todo[u] # Posting(y)
  BY MonitorAssumption DEF QueueInv, OwnerInside, LeavesAt
<1>3. x \in Threads /\ InHand(x)
  BY DEF QueueInv, QueueSound, FrontKept, InHand
<1>4. \A u : InHand(u) <=> u = x
  BY <1>2, Alike DEF InHand
<1>5. \A y : Unlocking # Sleeping /\ Unlocking # Taking(y) /\ Unlocking # Posting(y)
  BY Others
<1>6. \A u : ~InHand(u)'
  BY <1>1, <1>2, <1>5 DEF InHand
<1>7. \A u \in Threads : todo'[u] = Sleeping <=> todo[u] = Sleeping
  BY <1>1, <1>5, ApartLeaving
<1>8. SleepersKept'
  BY <1>3, <1>4, <1>6, <1>7 DEF QueueInv, QueueSound, SleepersKept
<1>9. FrontKept'
  BY <1>1, <1>2, <1>5 DEF FrontKept
<1>10. QED
  BY <1>3, <1>8, <1>9 DEF QueueInv, QueueSound

(* ... and the thread wakes up.                                            *)
LEMMA QueueWoken ==
  ASSUME QueueInv, NEW t \in Threads, todo[t] = Sleeping, Moves(t, Locking),
         t \in posted, posted' = posted \ {t}, UNCHANGED <<queue, undefined>>
  PROVE  QueueSound'
<1>1. todo'[t] = Locking /\ \A u \in Threads \ {t} : todo'[u] = todo[u]
  BY DEF Moves, QueueInv, EntryTypes
<1>2. \A y : Locking # Sleeping /\ Locking # Taking(y) /\ Locking # Posting(y)
  BY Others
<1>3. \A u : InHand(u)' <=> InHand(u)
  BY <1>1, <1>2, ApartLeaving DEF InHand
<1>4. SleepersKept'
  BY <1>1, <1>2, <1>3 DEF QueueInv, QueueSound, SleepersKept
<1>5. FrontKept'
  BY <1>1, <1>2 DEF QueueInv, QueueSound, FrontKept
<1>6. QED
  BY <1>4, <1>5 DEF QueueInv, QueueSound

(* A step of a thread that uses no condition keeps the queue sound.        *)
LEMMA QueueStep ==
  ASSUME QueueInv, ~raced, NEW t \in Threads, Inside(t)
  PROVE  QueueSound'
<1>0. EntryTypes /\ QueueSound /\ DOMAIN todo = Threads
  BY DEF QueueInv, EntryTypes
<1>1. CASE /\ todo[t] = Writing(t) /\ Moves(t, Written(t)) /\ PushWrites(t)
           /\ posted' = posted \ {t}
  <2>1. t \notin posted
    BY <1>1, Others DEF QueueInv, QueueSound, SleepersKept
  <2>2. QED
    BY <1>0, <1>1, <2>1, Others, Aside DEF PushWrites
<1>2. CASE /\ todo[t] = Written(t) /\ Moves(t, Sleeping) /\ PushEnds(t)
           /\ queue' = [queue EXCEPT !["entry"] = Append(queue["entry"], t)]
  BY <1>2, QueuePushed DEF PushEnds
<1>3. CASE todo[t] = Sleeping /\ Moves(t, Locking) /\ Wakes(t)
  BY <1>3, QueueWoken DEF Wakes
<1>4. CASE todo[t] = Locking /\ Moves(t, <<>>) /\ Locks(t)
  BY <1>0, <1>4, Others, Aside DEF Locks
<1>5. ASSUME NEW q, NEW s \in {Looking("signaled"), Looking("entry"), Unlocking},
             todo[t] = Looking(q) /\ Moves(t, s) /\ Plans(t)
      PROVE  QueueSound'
  BY <1>0, <1>5, Others, Aside DEF Plans
<1>6. CASE /\ todo[t] = Looking("entry") /\ queue["entry"] # <<>>
           /\ Moves(t, Taking(Head(queue["entry"]))) /\ Plans(t)
  <2> DEFINE x == Head(queue["entry"])
  <2>1. todo'[t] = Taking(x) /\ \A u \in Threads \ {t} : todo'[u] = todo[u]
    BY <1>0, <1>6 DEF Moves
  <2>2. UNCHANGED <<queue, posted, undefined>>
    BY <1>6 DEF Plans
  <2>3. todo[t] # Sleeping /\ \A y : todo[t] # Posting(y)
    BY <1>6, Others
  <2>4. \A u : InHand(u)' <=> InHand(u)
    BY <2>1, <2>3, ApartLeaving DEF InHand
  <2>5. SleepersKept'
    BY <1>0, <2>1, <2>2, <2>3, <2>4, ApartLeaving DEF QueueSound, SleepersKept
  <2>6. FrontKept'
    BY <1>0, <1>6, <2>1, <2>2, Alike, ApartLeaving DEF QueueSound, FrontKept
  <2>7. QED
    BY <1>0, <2>2, <2>5, <2>6 DEF QueueSound
<1>7. ASSUME NEW x, todo[t] = Taking(x) /\ Moves(t, Posting(x)) /\ Pops(t),
             IF queue["entry"] # <<>> /\ Head(queue["entry"]) = x
               THEN /\ queue' = [queue EXCEPT !["entry"] = Tail(queue["entry"])]
                    /\ UNCHANGED undefined
               ELSE undefined' = TRUE /\ UNCHANGED queue
      PROVE  QueueSound'
  <2>1. queue["entry"] # <<>> /\ Head(queue["entry"]) = x
    BY <1>0, <1>7 DEF QueueSound, FrontKept
  <2>2. QED
    BY <1>7, <2>1, QueuePopped DEF Pops
<1>8. ASSUME NEW x, todo[t] = Posting(x) /\ Moves(t, Unlocking) /\ Posts(t),
             HasSemaphore(x) => posted' = posted \cup {x} /\ UNCHANGED undefined
      PROVE  QueueSound'
  <2>1. x \in Threads /\ InHand(x)
    BY <1>0, <1>8 DEF QueueSound, FrontKept, InHand
  <2>2. todo[x] = Sleeping
    BY <1>0, <2>1 DEF QueueSound, SleepersKept
  <2>3. HasSemaphore(x)
    <3>1. Len(Sleeping) = 2 /\ Sleeping[1] = Sleep
      BY DEF Sleeping
    <3>2. QED
      BY <2>1, <2>2, <3>1, Words DEF HasSemaphore
  <2>4. QED
    BY <1>8, <2>3, QueuePosted DEF Posts
<1>9. CASE todo[t] = Unlocking /\ Moves(t, <<>>) /\ Unlocks(t)
  BY <1>0, <1>9, Others, Aside DEF Unlocks
<1>10. QED
  BY <1>0, EntrySteps, <1>1, <1>2, <1>3, <1>4, <1>5, <1>6, <1>7, <1>8, <1>9

(* So do the calls of Enter() and Leave().                                 *)
LEMMA QueueCalls ==
  ASSUME QueueInv, NEW t \in Threads, Enter(t) \/ Leave(t)
  PROVE  QueueSound'
<1>0. QueueSound /\ DOMAIN todo = Threads
  BY DEF QueueInv, EntryTypes
<1>1. CASE Enter(t) /\ mutex = Free
  BY <1>0, <1>1 DEF Enter, QueueSound, SleepersKept, FrontKept, InHand
<1>2. CASE Enter(t) /\ mutex # Free
  <2>1. Moves(t, Writing(t)) /\ todo[t] = <<>> /\ UNCHANGED <<queue, posted, undefined>>
    BY <1>2 DEF Enter, Begins, Moves, Writing, Idle
  <2>2. QED
    BY <1>0, <2>1, Others, Aside
<1>3. CASE Leave(t)
  <2>1. Moves(t, Looking("waiting")) /\ todo[t] = <<>> /\ UNCHANGED <<queue, posted, undefined>>
    BY <1>3 DEF Leave, Begins, Moves, Looking, Planifica, Idle
  <2>2. QED
    BY <1>0, <2>1, Others, Aside
<1>4. QED
  BY <1>1, <1>2, <1>3

(* As long as no queue has been used in the middle of a push of another.   *)
QueueInvariant == ~useConditions /\ ~raced => QueueSound

(* entry_queue stays sound while threads enter and leave.                  *)
LEMMA QueueInvariance == Spec => []QueueInvariant
<1>1. Init => QueueInvariant
  <2> SUFFICES ASSUME Init PROVE QueueSound
    BY DEF QueueInvariant
  <2>1. queue["entry"] = <<>> /\ posted = {} /\ ~undefined
        /\ \A u \in Threads : todo[u] = <<>>
    BY DEF Init, MonitorInit
  <2>2. \A x : <<>> # Sleeping /\ <<>> # Taking(x) /\ <<>> # Posting(x)
    BY Others
  <2>3. <<>> \in Seq(Threads) /\ Distinct(<<>>) /\ \A u : ~Stands(<<>>, u)
    BY DEF Distinct, Stands
  <2>4. QED
    BY <2>1, <2>2, <2>3 DEF QueueSound, SleepersKept, FrontKept, InHand
<1>2. EntryInv /\ QueueInvariant /\ [Next]_vars => QueueInvariant'
  <2> SUFFICES ASSUME EntryInv, QueueInvariant, [Next]_vars, ~useConditions', ~raced'
               PROVE  QueueSound'
    BY DEF QueueInvariant
  <2>1. CASE UNCHANGED vars
    BY <2>1 DEF vars, monitorVars, QueueInvariant, QueueSound, SleepersKept, FrontKept, InHand
  <2>2. CASE Next
    <3>1. ~useConditions
      BY <2>2 DEF Next, Call, LeaveCall, Step, Spend
    <3>2. PICK t \in Threads : Enter(t) \/ Leave(t) \/ Inside(t)
      BY <2>2, <3>1 DEF Next, Call, LeaveCall, Step
    <3>3. EntryTypes /\ OwnerInside
      BY <3>1 DEF EntryInv
    <3>4. CASE Enter(t) \/ Leave(t)
      <4>1. ~raced
        BY <3>4 DEF Enter, Leave
      <4>2. QED
        BY <3>1, <3>3, <3>4, <4>1, QueueCalls DEF QueueInvariant, QueueInv
    <3>5. CASE Inside(t)
      <4>1. ~raced
        BY <3>5 DEF Inside, PushWrites, PushEnds, Pops, Posts, Wakes, Locks, Unlocks, Plans,
           Takes, TakesAll, Touch
      <4>2. QED
        BY <3>1, <3>3, <3>5, <4>1, QueueStep DEF QueueInvariant, QueueInv
    <3>6. QED
      BY <3>2, <3>4, <3>5
  <2>3. QED
    BY <2>1, <2>2
<1>3. QED
  BY <1>1, <1>2, OwnerInvariance, PTL DEF Spec

(* Where the semaphore of a thread is in the queues.                       *)
LEMMA OnePlace ==
  ASSUME QueueInv, NEW t \in Threads
  PROVE  IF Stands(queue["entry"], t) THEN Cardinality(Places(t)) = 1
                                      ELSE Cardinality(Places(t)) = 0
<1> DEFINE s == queue["entry"]
           at == {<<"entry", i>> : i \in {j \in 1 .. Len(s) : s[j] = t}}
<1>1. DOMAIN s = 1 .. Len(s) /\ "entry" \in DOMAIN queue
  BY DEF QueueInv, QueueSound, EntryTypes
<1>2. \A q \in DOMAIN queue : q # "entry" => DOMAIN queue[q] = {}
  BY DEF QueueInv, EntryTypes
<1>3. Places(t) = at
  <2>1. \A p \in Places(t) : p \in at
    BY <1>1, <1>2 DEF Places
  <2>2. \A p \in at : p \in Places(t)
    BY <1>1 DEF Places
  <2>3. QED
    BY <2>1, <2>2
<1>4. CASE Stands(s, t)
  <2>1. PICK i \in 1 .. Len(s) : s[i] = t
    BY <1>4 DEF Stands
  <2>2. {j \in 1 .. Len(s) : s[j] = t} = {i}
    BY <2>1 DEF QueueInv, QueueSound, Distinct
  <2>3. at = {<<"entry", i>>}
    BY <2>2
  <2>4. QED
    BY <1>3, <1>4, <2>3, FS_Singleton
<1>5. CASE ~Stands(s, t)
  <2>1. at = {}
    BY <1>5 DEF Stands
  <2>2. QED
    BY <1>3, <1>5, <2>1, FS_EmptySet
<1>6. QED
  BY <1>4, <1>5

(* Who has it in hand: the thread itself before it is queued, or one that wakes
   it.                                                                     *)
LEMMA OneHand ==
  ASSUME QueueInv, NEW t \in Threads
  PROVE  IF InHand(t) \/ todo[t] = Writing(t) \/ todo[t] = Written(t)
           THEN Cardinality(Hands(t)) = 1 ELSE Cardinality(Hands(t)) = 0
<1>1. ASSUME NEW u \in Threads
      PROVE  u \in Hands(t) <=>
               \/ todo[u] = Posting(t)
               \/ u = t /\ (todo[t] = Writing(t) \/ todo[t] = Written(t))
  <2>1. /\ Posting(t) # <<>> /\ Head(Posting(t)).do = "post" /\ Head(Posting(t)).who = t
        /\ Writing(t) # <<>> /\ Head(Writing(t)).do = "push" /\ Head(Writing(t)).who = t
        /\ Written(t) # <<>> /\ Head(Written(t)).do = "pushed" /\ Head(Written(t)).who = t
    BY Lists DEF Posting, Writing, Written, Post, Push, Task
  <2>2. ASSUME u \in Hands(t)
        PROVE  \/ todo[u] = Posting(t)
               \/ u = t /\ (todo[t] = Writing(t) \/ todo[t] = Written(t))
    <3>0. todo[u] # <<>> /\ Head(todo[u]).who = t /\ Head(todo[u]).do \in {"push", "pushed", "post"}
      BY <2>2 DEF Hands, Idle
    <3>1. CASE Head(todo[u]).do = "post"
      <4>1. PICK x : todo[u] = Posting(x)
        BY <3>0, <3>1, FirstTask DEF QueueInv
      <4>2. Head(Posting(x)) = Post(x)
        BY Forms
      <4>3. Head(Posting(x)).who = x
        BY <4>2 DEF Post, Task
      <4>4. QED
        BY <3>0, <4>1, <4>3
    <3>2. CASE Head(todo[u]).do = "push"
      <4>1. todo[u] = Writing(u)
        BY <3>0, <3>2, FirstTask DEF QueueInv
      <4>2. Head(Writing(u)) = Push("entry", u)
        BY Forms
      <4>3. Head(Writing(u)).who = u
        BY <4>2 DEF Push, Task
      <4>4. QED
        BY <3>0, <4>1, <4>3
    <3>3. CASE Head(todo[u]).do = "pushed"
      <4>1. todo[u] = Written(u)
        BY <3>0, <3>3, FirstTask DEF QueueInv
      <4>2. Head(Written(u)) = Task("pushed", "entry", u)
        BY Forms
      <4>3. Head(Written(u)).who = u
        BY <4>2 DEF Task
      <4>4. QED
        BY <3>0, <4>1, <4>3
    <3>4. QED
      BY <3>0, <3>1, <3>2, <3>3
  <2>3. ASSUME \/ todo[u] = Posting(t)
               \/ u = t /\ (todo[t] = Writing(t) \/ todo[t] = Written(t))
        PROVE  u \in Hands(t)
    <3>1. /\ todo[u] # <<>> /\ Head(todo[u]).who = t
          /\ Head(todo[u]).do \in {"push", "pushed", "post"}
      BY <2>1, <2>3
    <3>2. QED
      BY <3>1 DEF Hands, Idle
  <2>4. QED
    BY <2>2, <2>3
<1>2. CASE todo[t] = Writing(t) \/ todo[t] = Written(t)
  <2>1. ~InHand(t)
    BY <1>2, Others DEF QueueInv, QueueSound, SleepersKept
  <2>2. Hands(t) = {t}
    BY <1>1, <1>2, <2>1 DEF InHand, Hands
  <2>3. QED
    BY <1>2, <2>2, FS_Singleton
<1>3. CASE InHand(t) /\ ~(todo[t] = Writing(t) \/ todo[t] = Written(t))
  <2>1. PICK v \in Threads : todo[v] = Posting(t)
    BY <1>3 DEF InHand
  <2>2. \A u \in Threads : todo[u] = Posting(t) => u = v
    BY <2>1 DEF QueueInv, OwnerInside, LeavesAt
  <2>3. \A u \in Threads : u \in Hands(t) <=> u = v
    BY <1>1, <1>3, <2>1, <2>2
  <2>4. Hands(t) \subseteq Threads
    BY DEF Hands
  <2>5. Hands(t) = {v}
    BY <2>1, <2>3, <2>4
  <2>6. QED
    BY <1>3, <2>5, FS_Singleton
<1>4. CASE ~InHand(t) /\ ~(todo[t] = Writing(t) \/ todo[t] = Written(t))
  <2>1. Hands(t) = {}
    BY <1>1, <1>4 DEF InHand, Hands
  <2>2. QED
    BY <1>4, <2>1, FS_EmptySet
<1>5. QED
  BY <1>2, <1>3, <1>4

(* Who has a semaphore.                                                    *)
LEMMA Owners ==
  ASSUME QueueInv, NEW t \in Threads
  PROVE  HasSemaphore(t) <=> todo[t] \in {Writing(t), Written(t), Sleeping}
<1>1. \A a, b, c : Len(<<a, b, c>>) = 3 /\ <<a, b, c>>[1] = a /\ <<a, b, c>>[2] = b
                  /\ <<a, b, c>>[3] = c
  OBVIOUS
<1>2. \A a, b : Len(<<a, b>>) = 2 /\ <<a, b>>[1] = a /\ <<a, b>>[2] = b
  OBVIOUS
<1>3. \A a : Len(<<a>>) = 1 /\ <<a>>[1] = a
  OBVIOUS
<1>4. CASE todo[t] \in {Writing(t), Written(t), Sleeping}
  <2>1. Sleep.do = "sleep"
    BY Words
  <2>2. \E i \in 1 .. Len(todo[t]) : todo[t][i] = Sleep
    BY <1>1, <1>2, <1>4 DEF Writing, Written, Sleeping
  <2>3. QED
    BY <1>4, <2>1, <2>2 DEF HasSemaphore
<1>5. CASE todo[t] \notin {Writing(t), Written(t), Sleeping}
  <2>1. todo[t] = <<>> \/ todo[t] = Locking \/ LeavesAt(t)
    BY <1>5 DEF QueueInv, EntryTypes, EntersAt
  <2>2. /\ Lock.do # "sleep" /\ Unlock.do # "sleep"
        /\ \A q : Task("plan", q, Free).do # "sleep"
        /\ \A x : Pop("entry", x).do # "sleep" /\ Post(x).do # "sleep"
    BY DEF Lock, Unlock, Pop, Post, Task
  <2>3. CASE todo[t] = <<>>
    BY <1>5, <2>3 DEF HasSemaphore
  <2>4. CASE todo[t] = Locking
    BY <1>3, <1>5, <2>2, <2>4 DEF HasSemaphore, Locking
  <2>5. CASE LeavesAt(t)
    <3>1. CASE \E q \in {"waiting", "signaled", "entry"} : todo[t] = Looking(q)
      BY <1>3, <1>5, <2>2, <3>1 DEF HasSemaphore, Looking
    <3>2. CASE todo[t] = Unlocking
      BY <1>3, <1>5, <2>2, <3>2 DEF HasSemaphore, Unlocking
    <3>3. CASE \E x : todo[t] = Posting(x)
      BY <1>2, <1>5, <2>2, <3>3 DEF HasSemaphore, Posting
    <3>4. CASE \E x : todo[t] = Taking(x)
      BY <1>1, <1>5, <2>2, <3>4 DEF HasSemaphore, Taking
    <3>5. QED
      BY <2>5, <3>1, <3>2, <3>3, <3>4 DEF LeavesAt
  <2>6. QED
    BY <2>1, <2>3, <2>4, <2>5
<1>6. QED
  BY <1>4, <1>5

(* LibMonitor.cpp: the semaphore of a thread that sleeps in Enter() is in the
   queue once, in the hands of one thread, or posted, and planifica() takes no
   element twice, for every set of threads and every number of calls, as long
   as no thread uses the queue in the middle of the push of another.       *)
THEOREM EntryQueueSound == Spec => []EntryQueued
<1>1. EntryInv /\ QueueInvariant => EntryQueued
  <2> SUFFICES ASSUME QueueInv PROVE OneSemaphore
    BY DEF EntryInv, QueueInvariant, EntryQueued, QueueInv
  <2>1. ASSUME NEW t \in Threads
        PROVE  Cardinality(Places(t)) + Cardinality(Hands(t)) + (IF t \in posted THEN 1 ELSE 0)
                 = IF HasSemaphore(t) THEN 1 ELSE 0
    <3>1. todo[t] = Writing(t) \/ todo[t] = Written(t) => todo[t] # Sleeping
      BY Others
    <3>2. QED
      BY <3>1, OnePlace, OneHand, Owners DEF QueueInv, QueueSound, SleepersKept
  <2>2. QED
    BY <2>1 DEF OneSemaphore, QueueInv, QueueSound
<1>2. QED
  BY <1>1, OwnerInvariance, QueueInvariance, PTL
-----------------------------------------------------------------------------
(* SchedulingServiceCORBA, with the names of its module.                   *)
(* There are as many ids, which are shorts, as clients: an id comes again only
   after IDs jobs.                                                         *)
EnoughIDs == IDs \in Nat \ {0} /\ IsFiniteSet(Clients) /\ Cardinality(Clients) <= IDs

(* The clients that have submitted their jobs have different ids, and the
   next id is not one of them.                                             *)
Submitted == {c \in Clients : client[c].pc # "new"}

IdsDiffer ==
  /\ \A c, d \in Submitted : client[c].id = client[d].id => c = d
  /\ \A c \in Submitted : client[c].id < Cardinality(Submitted)
  /\ Submitted # Clients => nextID = Cardinality(Submitted)

(* A job, a thread or a result that is kept under an id is that of the client
   which has the id.                                                       *)
Own(c, k) == c \in Submitted /\ client[c].id = k

UnderOwnId ==
  /\ \A k \in DOMAIN jobs : Own(jobs[k], k)
  /\ \A t \in DOMAIN threads :
       Own(threads[t].job, threads[t].id) /\ threads[t].result \in {None, threads[t].job}
  /\ \A k \in DOMAIN results : results[k] = None \/ Own(results[k], k)

(* The jobs of m_jobs that the mapper has already given to a thread: they are
   just those that have one.                                               *)
Given(k) ==
  /\ MapperHoldsJobs /\ k \in DOMAIN jobs \ mapper.todo
  /\ mapper.pc = "scan" => k # mapper.key

MapperKeepsTrack ==
  /\ MapperHoldsJobs => mapper.todo \subseteq DOMAIN jobs
  /\ mapper.pc = "scan" => mapper.key \in DOMAIN jobs \ mapper.todo
  /\ \A k \in DOMAIN jobs :
       Given(k) <=> \E t \in DOMAIN threads : threads[t].job = jobs[k]
  /\ \A t, u \in DOMAIN threads : threads[t].job = threads[u].job => t = u

SchedInv ==
  /\ SchedulerTypeOK /\ IdsDiffer /\ UnderOwnId /\ MapperKeepsTrack
  /\ OwnResult /\ NoJobLost
-----------------------------------------------------------------------------
(* The types of the parts.                                                 *)
ThreadRecord ==
  [job : Clients, id : JobIDs, server : Servers \cup {None},
   pc : {"started", "finished", "failed"}, result : Clients \cup {None}]
MapperRecord ==
  [pc : {"sleep", "map", "scan", "gather"}, todo : SUBSET JobIDs,
   key : JobIDs, i : Nat, servers : Nat, pick : Servers \cup {None}]
ServerRecord == [pc : {"off", "counting", "binding", "ready", "dead"}, id : Nat]
ClientRecord == [pc : {"new", "polling", "done"}, id : JobIDs, got : Clients \cup {None}]

TableTypes ==
  /\ Holds(jobs, JobIDs, Clients)
  /\ Holds(results, JobIDs, Clients \cup {None})
ServerTypes == /\ counter \in Nat /\ Holds(names, Nat, Servers)
               /\ server \in [Servers -> ServerRecord]

LEMMA TypesSplit ==
  SchedulerTypeOK <=> /\ TableTypes /\ threads \in Seq(ThreadRecord) /\ nextID \in JobIDs
                   /\ mapper \in MapperRecord /\ ServerTypes /\ client \in [Clients -> ClientRecord]
BY DEF SchedulerTypeOK, TableTypes, ThreadRecord, MapperRecord, ServerTypes, ServerRecord, ClientRecord

LEMMA TypesSplitNext ==
  SchedulerTypeOK' <=> /\ TableTypes' /\ threads' \in Seq(ThreadRecord) /\ nextID' \in JobIDs
                    /\ mapper' \in MapperRecord /\ ServerTypes' /\ client' \in [Clients -> ClientRecord]
BY DEF SchedulerTypeOK, TableTypes, ThreadRecord, MapperRecord, ServerTypes, ServerRecord, ClientRecord

(* The mapper's record at the start of a turn.                             *)
LEMMA SleepingFacts ==
  ASSUME EnoughIDs
  PROVE  /\ MapperAsleep \in MapperRecord /\ 0 \in JobIDs
         /\ MapperAsleep.pc = "sleep" /\ MapperAsleep.todo = {}
         /\ \A pc \in {"map", "gather"}, T \in SUBSET JobIDs :
              LET m == [MapperAsleep EXCEPT !.pc = pc, !.todo = T]
              IN  m \in MapperRecord /\ m.pc = pc /\ m.todo = T
<1>1. 0 \in JobIDs
  BY DEF EnoughIDs, JobIDs
<1> QED  BY <1>1 DEF MapperAsleep, MapperRecord

(* A step of a server: nothing that the invariant is about changes.        *)
LEMMA ServersStep ==
  ASSUME SchedInv, NEW s \in Servers, ServerStep(s) \/ Kill(s) PROVE SchedInv'
<1>1. UNCHANGED <<jobs, results, threads, nextID, mapper, client>>
  BY DEF ServerStep, ReadCounter, WriteCounter, Rebind, Kill
<1>2. ServerTypes /\ server[s] \in ServerRecord /\ server[s].id \in Nat
  BY TypesSplit DEF SchedInv, ServerTypes, ServerRecord
<1>3. ServerTypes'
  <2>1. CASE ReadCounter(s)
    BY <1>2, <2>1 DEF ReadCounter, ServerTypes, ServerRecord
  <2>2. CASE WriteCounter(s)
    BY <1>2, <2>2 DEF WriteCounter, ServerTypes, ServerRecord
  <2>3. CASE Rebind(s)
    <3>1. names' = Put([i \in {server[s].id} |-> s], names) /\ counter' = counter
          /\ server' = [server EXCEPT ![s].pc = "ready"]
      BY <2>3 DEF Rebind
    <3>2. /\ DOMAIN names' = DOMAIN names \cup {server[s].id} /\ names'[server[s].id] = s
          /\ \A k \in DOMAIN names \ {server[s].id} : names'[k] = names[k]
      BY <3>1 DEF Put
    <3>3. Holds(names, Nat, Servers)'
      BY <1>2, <3>2 DEF ServerTypes, Holds
    <3> QED  BY <1>2, <3>1, <3>3 DEF ServerTypes, ServerRecord
  <2>4. CASE Kill(s)
    BY <1>2, <2>4 DEF Kill, ServerTypes, ServerRecord
  <2> QED  BY <2>1, <2>2, <2>3, <2>4 DEF ServerStep
<1>4. SchedulerTypeOK'
  BY <1>1, <1>3, TypesSplit, TypesSplitNext DEF SchedInv, TableTypes
<1>5. IdsDiffer' /\ UnderOwnId' /\ OwnResult' /\ NoJobLost'
  BY <1>1 DEF SchedInv, IdsDiffer, UnderOwnId, Own, Submitted, OwnResult, NoJobLost
<1>6. MapperKeepsTrack'
  BY <1>1 DEF SchedInv, MapperKeepsTrack, Given, MapperHoldsJobs
<1> QED  BY <1>4, <1>5, <1>6 DEF SchedInv

(* The steps of the mapper that only change where it is.                   *)
LEMMA MapperMoves ==
  ASSUME SchedInv, UNCHANGED <<jobs, results, threads, nextID, counter, names, server, client>>,
         mapper' \in MapperRecord, MapperKeepsTrack'
  PROVE  SchedInv'
<1>1. SchedulerTypeOK'
  BY TypesSplit, TypesSplitNext DEF SchedInv, TableTypes, ServerTypes
<1>2. IdsDiffer' /\ UnderOwnId' /\ OwnResult' /\ NoJobLost'
  BY DEF SchedInv, IdsDiffer, UnderOwnId, Own, Submitted, OwnResult, NoJobLost
<1> QED  BY <1>1, <1>2 DEF SchedInv

(* What the invariant says of the mapper and the jobs.                     *)
LEMMA SchedFacts ==
  ASSUME SchedInv
  PROVE  /\ mapper \in MapperRecord /\ threads \in Seq(ThreadRecord)
         /\ DOMAIN jobs \subseteq JobIDs /\ (\A k \in DOMAIN jobs : jobs[k] \in Clients)
         /\ client \in [Clients -> ClientRecord] /\ TableTypes /\ ServerTypes /\ nextID \in JobIDs
         /\ DOMAIN threads = 1 .. Len(threads) /\ Len(threads) \in Nat
         /\ \A t \in DOMAIN threads : threads[t] \in ThreadRecord
<1>1. TableTypes /\ threads \in Seq(ThreadRecord) /\ nextID \in JobIDs
      /\ mapper \in MapperRecord /\ ServerTypes /\ client \in [Clients -> ClientRecord]
  BY TypesSplit DEF SchedInv
<1> QED  BY <1>1 DEF TableTypes, Holds

(* The mapper wakes up: none of the jobs has a thread.                     *)
LEMMA SchedWakes ==
  ASSUME EnoughIDs, SchedInv, WakeUp PROVE SchedInv'
<1>1. /\ mapper.pc = "sleep" /\ UNCHANGED <<jobs, results, threads, nextID, counter, names, server, client>>
      /\ mapper' = [MapperAsleep EXCEPT !.pc = "map", !.todo = DOMAIN jobs]
  BY DEF WakeUp
<1>2. mapper' \in MapperRecord /\ mapper'.pc = "map" /\ mapper'.todo = DOMAIN jobs
  BY <1>1, SleepingFacts, SchedFacts
<1>3. MapperKeepsTrack'
  BY <1>1, <1>2 DEF SchedInv, MapperKeepsTrack, Given, MapperHoldsJobs
<1> QED  BY <1>1, <1>2, <1>3, MapperMoves

(* The mapper turns to the next job.                                       *)
LEMMA SchedTurns ==
  ASSUME SchedInv, NextJob PROVE SchedInv'
<1>1. PICK k0 \in mapper.todo :
        mapper' = [pc |-> "scan", todo |-> mapper.todo \ {k0}, key |-> k0, i |-> 0,
                   servers |-> counter, pick |-> None]
  BY DEF NextJob
<1>2. mapper.pc = "map" /\ UNCHANGED <<jobs, results, threads, nextID, counter, names, server, client>>
  BY DEF NextJob
<1>3. k0 \in JobIDs /\ mapper.todo \subseteq JobIDs /\ counter \in Nat
  BY SchedFacts DEF MapperRecord, ServerTypes
<1>4. /\ mapper' \in MapperRecord /\ mapper'.pc = "scan" /\ mapper'.todo = mapper.todo \ {k0}
      /\ mapper'.key = k0
  BY <1>1, <1>3 DEF MapperRecord
<1>5. \A k \in DOMAIN jobs : Given(k)' <=> Given(k)
  BY <1>2, <1>4 DEF Given, MapperHoldsJobs
<1>6. MapperKeepsTrack'
  BY <1>2, <1>4, <1>5 DEF SchedInv, MapperKeepsTrack, MapperHoldsJobs
<1> QED  BY <1>2, <1>4, <1>6, MapperMoves

(* The mapper asks a server for its load.                                  *)
LEMMA SchedAsks ==
  ASSUME SchedInv, AskServer PROVE SchedInv'
<1>1. PICK pick0 \in Servers \cup {None} : mapper' = [mapper EXCEPT !.i = @ + 1, !.pick = pick0]
  <2>1. PICK q \in IF Answers(mapper.i)
                   THEN {names[mapper.i]} \cup ({mapper.pick} \ {None})
                   ELSE {mapper.pick} :
          mapper' = [mapper EXCEPT !.i = @ + 1, !.pick = q]
    BY DEF AskServer
  <2>2. Answers(mapper.i) => names[mapper.i] \in Servers
    BY SchedFacts DEF Answers, ServerTypes, Holds
  <2>3. mapper.pick \in Servers \cup {None}
    BY SchedFacts DEF MapperRecord
  <2> QED  BY <2>1, <2>2, <2>3
<1>2. mapper.pc = "scan" /\ UNCHANGED <<jobs, results, threads, nextID, counter, names, server, client>>
  BY DEF AskServer
<1>3. /\ mapper' \in MapperRecord /\ mapper'.pc = mapper.pc /\ mapper'.todo = mapper.todo
      /\ mapper'.key = mapper.key
  <2>1. mapper \in MapperRecord /\ mapper.i + 1 \in Nat
    BY SchedFacts DEF MapperRecord
  <2>2. mapper' = [mapper EXCEPT !.i = mapper.i + 1, !.pick = pick0]
    BY <1>1, <2>1 DEF MapperRecord
  <2> QED  BY <2>1, <2>2 DEF MapperRecord
<1>4. \A k \in DOMAIN jobs : Given(k)' <=> Given(k)
  BY <1>2, <1>3 DEF Given, MapperHoldsJobs
<1>5. MapperKeepsTrack'
  BY <1>2, <1>3, <1>4 DEF SchedInv, MapperKeepsTrack, MapperHoldsJobs
<1> QED  BY <1>2, <1>3, <1>5, MapperMoves

(* A job gets its thread, and has had none before.                         *)
LEMMA SchedStarts ==
  ASSUME EnoughIDs, SchedInv, StartThread PROVE SchedInv'
<1> DEFINE n == Len(threads) + 1
           r == [job |-> jobs[mapper.key], id |-> mapper.key, server |-> mapper.pick,
                 pc |-> "started", result |-> None]
<1>1. /\ mapper.pc = "scan" /\ threads' = Append(threads, r)
      /\ mapper' = [MapperAsleep EXCEPT !.pc = "map", !.todo = mapper.todo]
      /\ UNCHANGED <<jobs, results, nextID, counter, names, server, client>>
  BY DEF StartThread
<1>2. mapper.key \in DOMAIN jobs \ mapper.todo /\ mapper.todo \subseteq DOMAIN jobs
  BY <1>1 DEF SchedInv, MapperKeepsTrack, MapperHoldsJobs
<1>3. mapper' \in MapperRecord /\ mapper'.pc = "map" /\ mapper'.todo = mapper.todo
  BY <1>1, SleepingFacts, SchedFacts DEF MapperRecord
<1>4. /\ r \in ThreadRecord /\ r.job = jobs[mapper.key] /\ r.id = mapper.key /\ r.result = None
  BY <1>2, SchedFacts DEF ThreadRecord, MapperRecord
<1> HIDE DEF r
<1>5. /\ threads' \in Seq(ThreadRecord) /\ DOMAIN threads' = DOMAIN threads \cup {n}
      /\ n \notin DOMAIN threads /\ threads'[n] = r
      /\ \A t \in DOMAIN threads : threads'[t] = threads[t]
  <2>1. /\ threads' \in Seq(ThreadRecord) /\ Len(threads') = n /\ threads'[n] = r
        /\ \A t \in 1 .. Len(threads) : threads'[t] = threads[t]
    BY <1>1, <1>4, SchedFacts, AppendProperties
  <2>2. DOMAIN threads' = 1 .. n
    BY <2>1
  <2> QED  BY <2>1, <2>2, SchedFacts
<1> HIDE DEF n
<1>6. SchedulerTypeOK'
  BY <1>1, <1>3, <1>5, SchedFacts, TypesSplitNext DEF TableTypes, ServerTypes
<1>7. IdsDiffer' /\ OwnResult'
  BY <1>1 DEF SchedInv, IdsDiffer, Submitted, OwnResult
<1>8. \A c, k : Own(c, k)' <=> Own(c, k)
  BY <1>1 DEF Own, Submitted
<1>9. UnderOwnId'
  <2>1. Own(r.job, r.id)
    BY <1>2, <1>4 DEF SchedInv, UnderOwnId
  <2> QED  BY <1>1, <1>4, <1>5, <1>8, <2>1 DEF SchedInv, UnderOwnId
<1>10. NoJobLost'
  BY <1>1, <1>5 DEF SchedInv, NoJobLost
<1>11. MapperKeepsTrack'
  <2>1. ~Given(mapper.key) /\ \A t \in DOMAIN threads : threads[t].job # r.job
    BY <1>1, <1>2, <1>4 DEF Given, SchedInv, MapperKeepsTrack
  <2>2. \A k \in DOMAIN jobs : Given(k)' <=> Given(k) \/ k = mapper.key
    BY <1>1, <1>2, <1>3 DEF Given, MapperHoldsJobs
  <2>3. \A k \in DOMAIN jobs : jobs[k] = r.job => k = mapper.key
    BY <1>2, <1>4 DEF SchedInv, UnderOwnId, Own
  <2>4. ASSUME NEW k \in DOMAIN jobs
        PROVE  Given(k)' <=> \E t \in DOMAIN threads' : threads'[t].job = jobs[k]
    <3>1. Given(k) <=> \E t \in DOMAIN threads : threads[t].job = jobs[k]
      BY DEF SchedInv, MapperKeepsTrack
    <3>2. (\E t \in DOMAIN threads' : threads'[t].job = jobs[k])
            <=> (\E t \in DOMAIN threads : threads[t].job = jobs[k]) \/ r.job = jobs[k]
      BY <1>5
    <3> QED  BY <1>4, <2>2, <2>3, <3>1, <3>2
  <2>5. \A t, u \in DOMAIN threads' : threads'[t].job = threads'[u].job => t = u
    BY <1>5, <2>1 DEF SchedInv, MapperKeepsTrack
  <2> QED  BY <1>1, <1>2, <1>3, <2>4, <2>5 DEF MapperKeepsTrack
<1> QED  BY <1>6, <1>7, <1>9, <1>10, <1>11 DEF SchedInv

(* m_jobs.clear(): all the jobs have threads.                              *)
LEMMA SchedClears ==
  ASSUME EnoughIDs, SchedInv, ClearJobs PROVE SchedInv'
<1>1. /\ mapper.pc = "map" /\ mapper.todo = {} /\ jobs' = <<>>
      /\ mapper' = [MapperAsleep EXCEPT !.pc = "gather"]
      /\ UNCHANGED <<results, threads, nextID, counter, names, server, client>>
  BY DEF ClearJobs
<1>2. mapper' \in MapperRecord /\ mapper'.pc = "gather" /\ DOMAIN jobs' = {}
  <2>1. mapper' \in MapperRecord /\ mapper'.pc = "gather"
    BY <1>1, SleepingFacts DEF MapperRecord
  <2> QED  BY <1>1, <2>1
<1>3. SchedulerTypeOK'
  BY <1>1, <1>2, SchedFacts, TypesSplitNext DEF TableTypes, ServerTypes, Holds
<1>4. IdsDiffer' /\ OwnResult' /\ UnderOwnId'
  BY <1>1, <1>2 DEF SchedInv, IdsDiffer, Submitted, OwnResult, UnderOwnId, Own
<1>5. \A k \in DOMAIN jobs : \E t \in DOMAIN threads : threads[t].job = jobs[k] /\ threads[t].id = k
  <2> SUFFICES ASSUME NEW k \in DOMAIN jobs
               PROVE  \E t \in DOMAIN threads : threads[t].job = jobs[k] /\ threads[t].id = k
    OBVIOUS
  <2>1. Given(k)
    BY <1>1 DEF Given, MapperHoldsJobs
  <2>2. PICK t \in DOMAIN threads : threads[t].job = jobs[k]
    BY <2>1 DEF SchedInv, MapperKeepsTrack
  <2> QED  BY <2>2 DEF SchedInv, UnderOwnId, Own
<1>6. NoJobLost'
  BY <1>1, <1>2, <1>5 DEF SchedInv, NoJobLost
<1>7. MapperKeepsTrack'
  BY <1>1, <1>2 DEF SchedInv, MapperKeepsTrack, MapperHoldsJobs
<1> QED  BY <1>3, <1>4, <1>6, <1>7 DEF SchedInv

(* The greatest of some numbers up to n.                                   *)
LEMMA GreatestNumber ==
  ASSUME NEW n \in Nat, NEW T \in SUBSET (1 .. n), T # {} PROVE Max(T) \in T
<1> DEFINE R == {z \in Nat \X Nat : z[1] < z[2]}
           D == {n - x : x \in T}
<1>1. IsWellFoundedOn(R, Nat)
  BY NatLessThanWellFounded DEF OpToRel
<1>2. \A x, y \in Nat : <<x, y>> \in R <=> x < y
  OBVIOUS
<1> HIDE DEF R
<1>3. D \in SUBSET Nat /\ D # {}
  <2>1. \A x \in T : n - x \in Nat
    OBVIOUS
  <2>2. D \in SUBSET Nat
    BY <2>1
  <2>3. PICK x \in T : TRUE
    OBVIOUS
  <2>4. n - x \in D
    BY <2>3
  <2> QED  BY <2>2, <2>4
<1> HIDE DEF D
<1>4. PICK d \in D : \A y \in D : ~(<<y, d>> \in R)
  BY <1>1, <1>3, WFMin
<1>5. PICK m \in T : d = n - m
  BY <1>4 DEF D
<1>6. \A y \in T : m >= y
  <2> SUFFICES ASSUME NEW y \in T PROVE m >= y
    OBVIOUS
  <2>1. n - y \in D /\ n - y \in Nat /\ n - m \in Nat
    BY DEF D
  <2>2. ~(n - y < n - m)
    BY <1>2, <1>4, <1>5, <2>1
  <2> QED  BY <2>2
<1> QED  BY <1>5, <1>6 DEF Max

(* A result that is gathered is the result of a thread with its id.        *)
LEMMA GatheredFacts ==
  ASSUME SchedInv
  PROVE  \A k \in DOMAIN Gathered :
           \E t \in DOMAIN threads : threads[t].id = k /\ Gathered[k] = threads[t].result
<1> SUFFICES ASSUME NEW k \in DOMAIN Gathered
             PROVE  \E t \in DOMAIN threads :
                      threads[t].id = k /\ Gathered[k] = threads[t].result
  OBVIOUS
<1> DEFINE T == {i \in 1 .. Len(threads) : threads[i].id = k /\ threads[i].pc = "finished"}
<1>1. PICK u \in DOMAIN threads : Finished(u) /\ threads[u].id = k
  BY DEF Gathered
<1>2. u \in T
  BY <1>1, SchedFacts DEF Finished
<1>3. Max(T) \in T
  BY <1>2, SchedFacts, GreatestNumber
<1>4. Gathered[k] = threads[Max(T)].result
  <2>1. SelectLastInSeq(threads, LAMBDA x : x.id = k /\ x.pc = "finished") = Max(T)
    BY <1>2 DEF SelectLastInSeq
  <2> QED  BY <2>1 DEF Gathered
<1> QED  BY <1>3, <1>4, SchedFacts

(* The mapper collects the results.                                        *)
LEMMA SchedGathers ==
  ASSUME EnoughIDs, SchedInv, Gather PROVE SchedInv'
<1>1. /\ mapper.pc = "gather" /\ results' = Put(Gathered, results)
      /\ mapper' = MapperAsleep
      /\ UNCHANGED <<jobs, threads, nextID, counter, names, server, client>>
  BY DEF Gather
<1>2. mapper' \in MapperRecord /\ mapper'.pc = "sleep"
  BY <1>1, SleepingFacts
<1>3. \A k \in DOMAIN Gathered :
        /\ k \in JobIDs /\ Gathered[k] \in Clients \cup {None}
        /\ Gathered[k] = None \/ Own(Gathered[k], k)
  <2> SUFFICES ASSUME NEW k \in DOMAIN Gathered
               PROVE  /\ k \in JobIDs /\ Gathered[k] \in Clients \cup {None}
                      /\ Gathered[k] = None \/ Own(Gathered[k], k)
    OBVIOUS
  <2>1. PICK t \in DOMAIN threads : threads[t].id = k /\ Gathered[k] = threads[t].result
    BY GatheredFacts
  <2>2. threads[t] \in ThreadRecord
    BY <2>1, SchedFacts
  <2>3. Own(threads[t].job, k) /\ threads[t].result \in {None, threads[t].job}
    BY <2>1 DEF SchedInv, UnderOwnId
  <2> QED  BY <2>1, <2>2, <2>3 DEF ThreadRecord
<1>4. /\ DOMAIN results' = DOMAIN results \cup DOMAIN Gathered
      /\ \A k \in DOMAIN Gathered : results'[k] = Gathered[k]
      /\ \A k \in DOMAIN results \ DOMAIN Gathered : results'[k] = results[k]
  BY <1>1 DEF Put
<1>5. \A k \in DOMAIN results' :
        /\ k \in JobIDs /\ results'[k] \in Clients \cup {None}
        /\ results'[k] = None \/ Own(results'[k], k)
  <2>1. \A k \in DOMAIN results :
          /\ k \in JobIDs /\ results[k] \in Clients \cup {None}
          /\ results[k] = None \/ Own(results[k], k)
    BY SchedFacts DEF SchedInv, UnderOwnId, TableTypes, Holds
  <2> QED  BY <1>3, <1>4, <2>1
<1>6. TableTypes'
  BY <1>1, <1>5, SchedFacts DEF TableTypes, Holds
<1>7. SchedulerTypeOK'
  BY <1>1, <1>2, <1>6, SchedFacts, TypesSplitNext DEF ServerTypes
<1>8. \A c, k : Own(c, k)' <=> Own(c, k)
  BY <1>1 DEF Own, Submitted
<1>9. UnderOwnId'
  BY <1>1, <1>5, <1>8 DEF SchedInv, UnderOwnId
<1>10. IdsDiffer' /\ OwnResult' /\ NoJobLost'
  BY <1>1 DEF SchedInv, IdsDiffer, Submitted, OwnResult, NoJobLost
<1>11. MapperKeepsTrack'
  BY <1>1, <1>2 DEF SchedInv, MapperKeepsTrack, Given, MapperHoldsJobs
<1> QED  BY <1>7, <1>9, <1>10, <1>11 DEF SchedInv

(* A thread ends: its result is its job's, or null.                        *)
LEMMA SchedRuns ==
  ASSUME SchedInv, NEW t \in DOMAIN threads, Run(t) PROVE SchedInv'
<1> DEFINE r == Ended(threads[t])
<1>1. /\ threads' = [threads EXCEPT ![t] = r]
      /\ UNCHANGED <<jobs, results, nextID, mapper, counter, names, server, client>>
  BY DEF Run
<1>2. threads[t] \in ThreadRecord
  BY SchedFacts
<1>3. /\ r \in ThreadRecord /\ r.job = threads[t].job /\ r.id = threads[t].id
      /\ r.result \in {threads[t].result, threads[t].job}
  BY <1>2 DEF Ended, ThreadRecord
<1> HIDE DEF r
<1>4. /\ threads' \in Seq(ThreadRecord) /\ DOMAIN threads' = DOMAIN threads /\ threads'[t] = r
      /\ \A u \in DOMAIN threads : u # t => threads'[u] = threads[u]
  BY <1>1, <1>3, SchedFacts, ExceptSeq
<1>5. \A u \in DOMAIN threads : threads'[u].job = threads[u].job /\ threads'[u].id = threads[u].id
  BY <1>3, <1>4
<1>6. SchedulerTypeOK'
  BY <1>1, <1>4, SchedFacts, TypesSplitNext DEF TableTypes, ServerTypes
<1>7. \A c, k : Own(c, k)' <=> Own(c, k)
  BY <1>1 DEF Own, Submitted
<1>8. UnderOwnId'
  BY <1>1, <1>3, <1>4, <1>5, <1>7 DEF SchedInv, UnderOwnId
<1>9. IdsDiffer' /\ OwnResult'
  BY <1>1 DEF SchedInv, IdsDiffer, Submitted, OwnResult
<1>10. NoJobLost'
  BY <1>1, <1>4, <1>5 DEF SchedInv, NoJobLost
<1>11. MapperKeepsTrack'
  BY <1>1, <1>4, <1>5 DEF SchedInv, MapperKeepsTrack, Given, MapperHoldsJobs
<1> QED  BY <1>6, <1>8, <1>9, <1>10, <1>11 DEF SchedInv

(* A client submits its job, under an id that nobody has.                  *)
LEMMA SchedSubmits ==
  ASSUME EnoughIDs, SchedInv, NEW c \in Clients, SubmitJob(c) PROVE SchedInv'
<1>0. PICK n : n = Cardinality(Submitted)
  OBVIOUS
<1>1. /\ client[c].pc = "new" /\ ~MapperHoldsJobs
      /\ jobs' = Put([k \in {nextID} |-> c], jobs)
      /\ nextID' = (nextID + 1) % IDs
      /\ client' = [client EXCEPT ![c].pc = "polling", ![c].id = nextID]
      /\ UNCHANGED <<results, threads, mapper, counter, names, server>>
  BY DEF SubmitJob
<1>2. /\ client' \in [Clients -> ClientRecord]
      /\ client'[c].pc = "polling" /\ client'[c].id = nextID
      /\ \A d \in Clients : d # c => client'[d] = client[d]
  BY <1>1, SchedFacts DEF ClientRecord
<1>3. c \notin Submitted /\ Submitted' = Submitted \cup {c} /\ Submitted # Clients
      /\ Submitted \subseteq Clients
  BY <1>1, <1>2 DEF Submitted
<1>4. IsFiniteSet(Submitted) /\ n \in Nat /\ nextID = n
  <2>1. IsFiniteSet(Submitted)
    BY <1>3, FS_Subset DEF EnoughIDs
  <2> QED  BY <1>0, <1>3, <2>1, FS_CardinalityType DEF SchedInv, IdsDiffer
<1>5. Cardinality(Submitted') = n + 1 /\ (Submitted' # Clients => n + 1 < IDs)
  <2>1. IsFiniteSet(Submitted \cup {c}) /\ Cardinality(Submitted \cup {c}) = n + 1
    BY <1>0, <1>3, <1>4, FS_AddElement
  <2>2. Cardinality(Clients) \in Nat /\ Cardinality(Clients) <= IDs /\ IDs \in Nat
    BY FS_CardinalityType DEF EnoughIDs
  <2>3. /\ n + 1 <= Cardinality(Clients)
        /\ n + 1 = Cardinality(Clients) => Submitted \cup {c} = Clients
    <3>1. Submitted \cup {c} \in SUBSET Clients
      BY <1>3
    <3>2. /\ Cardinality(Submitted \cup {c}) <= Cardinality(Clients)
          /\ Cardinality(Clients) = Cardinality(Submitted \cup {c}) => Clients = Submitted \cup {c}
      BY <3>1, FS_Subset DEF EnoughIDs
    <3> QED  BY <2>1, <3>2
  <2> QED  BY <1>3, <1>4, <2>1, <2>2, <2>3
<1>6. \A d \in Submitted : client[d].id < n /\ client'[d] = client[d] /\ d # c
  BY <1>0, <1>2, <1>3 DEF SchedInv, IdsDiffer
<1>7. nextID' \in JobIDs /\ (n + 1 < IDs => nextID' = n + 1)
  <2>1. IDs \in Nat \ {0}
    BY DEF EnoughIDs
  <2> QED  BY <1>1, <1>4, <2>1 DEF JobIDs
<1>8. IdsDiffer'
  <2>1. \A d \in Submitted : client'[d].id \in Nat /\ client'[d].id < n
    BY <1>3, <1>6, SchedFacts DEF ClientRecord, JobIDs
  <2>2. client'[c].id = n
    BY <1>2, <1>4
  <2>3. \A d, e \in Submitted' : client'[d].id = client'[e].id => d = e
    <3>1. \A d, e \in Submitted : client'[d].id = client'[e].id => d = e
      BY <1>6 DEF SchedInv, IdsDiffer
    <3> QED  BY <1>3, <1>4, <2>1, <2>2, <3>1
  <2>4. \A d \in Submitted' : client'[d].id < Cardinality(Submitted')
    BY <1>3, <1>4, <1>5, <2>1, <2>2
  <2> QED  BY <1>5, <1>7, <2>3, <2>4 DEF IdsDiffer
<1>9. (\A d, k : Own(d, k) => Own(d, k)' /\ k < n /\ d # c) /\ Own(c, n)'
  BY <1>2, <1>3, <1>4, <1>6 DEF Own
<1>10. nextID \notin DOMAIN jobs
  BY <1>4, <1>9 DEF SchedInv, UnderOwnId
<1>11. /\ DOMAIN jobs' = DOMAIN jobs \cup {nextID} /\ jobs'[nextID] = c
       /\ \A k \in DOMAIN jobs : jobs'[k] = jobs[k]
  BY <1>1, <1>10 DEF Put
<1>12. SchedulerTypeOK'
  <2>1. TableTypes'
    BY <1>1, <1>11, SchedFacts DEF TableTypes, Holds
  <2> QED  BY <1>1, <1>2, <1>7, <2>1, SchedFacts, TypesSplitNext DEF ServerTypes
<1>13. UnderOwnId'
  <2>1. \A k \in DOMAIN jobs' : Own(jobs[k], k)'
    BY <1>4, <1>9, <1>11 DEF SchedInv, UnderOwnId
  <2> QED  BY <1>1, <1>9, <2>1 DEF SchedInv, UnderOwnId
<1>14. OwnResult' /\ NoJobLost'
  BY <1>1, <1>2, <1>11 DEF SchedInv, OwnResult, NoJobLost
<1>15. MapperKeepsTrack'
  <2>1. \A t \in DOMAIN threads : threads[t].job # c
    BY <1>9 DEF SchedInv, UnderOwnId
  <2>2. \A k : ~Given(k) /\ ~Given(k)'
    BY <1>1 DEF Given, MapperHoldsJobs
  <2>3. \A k \in DOMAIN jobs' : ~\E t \in DOMAIN threads' : threads'[t].job = jobs'[k]
    BY <1>1, <1>11, <2>1, <2>2 DEF SchedInv, MapperKeepsTrack
  <2>4. ~MapperHoldsJobs' /\ mapper'.pc # "scan"
    BY <1>1 DEF MapperHoldsJobs
  <2> QED  BY <1>1, <2>2, <2>3, <2>4 DEF SchedInv, MapperKeepsTrack
<1> QED  BY <1>8, <1>12, <1>13, <1>14, <1>15 DEF SchedInv

(* A client takes what is under its id: its own result, or null.           *)
LEMMA SchedTakes ==
  ASSUME SchedInv, NEW c \in Clients, GetResult(c) PROVE SchedInv'
<1>1. PICK k0 : k0 = client[c].id
  OBVIOUS
<1>2. /\ client[c].pc = "polling" /\ k0 \in DOMAIN results
      /\ results' = Restrict(results, DOMAIN results \ {k0})
      /\ client' = IF results[k0] = None THEN client
                   ELSE [client EXCEPT ![c].pc = "done", ![c].got = results[k0]]
      /\ UNCHANGED <<jobs, threads, nextID, mapper, counter, names, server>>
  BY <1>1 DEF GetResult
<1>3. Own(c, k0)
  BY <1>1, <1>2 DEF Own, Submitted
<1>4. results[k0] \in Clients \cup {None} /\ results[k0] \in {None, c}
  <2>1. results[k0] = None \/ Own(results[k0], k0)
    BY <1>2 DEF SchedInv, UnderOwnId
  <2>2. Own(results[k0], k0) => results[k0] = c
    BY <1>3 DEF SchedInv, IdsDiffer, Own
  <2> QED  BY <1>2, <2>1, <2>2, SchedFacts DEF TableTypes, Holds
<1>5. /\ client' \in [Clients -> ClientRecord]
      /\ \A d \in Clients : /\ client'[d].id = client[d].id
                            /\ client'[d].pc = "new" <=> client[d].pc = "new"
                            /\ client'[d].pc = "polling" => client[d].pc = "polling"
                            /\ client'[d].pc = "done" =>
                                 \/ client[d].pc = "done" /\ client'[d].got = client[d].got
                                 \/ client'[d].got = d
  <2>1. CASE results[k0] = None
    BY <1>2, <2>1, SchedFacts
  <2>2. CASE results[k0] # None
    BY <1>2, <1>4, <2>2, SchedFacts DEF ClientRecord
  <2> QED  BY <2>1, <2>2
<1>6. DOMAIN results' \subseteq DOMAIN results /\ \A k \in DOMAIN results' : results'[k] = results[k]
  BY <1>2 DEF Restrict
<1>7. Submitted' = Submitted /\ \A d, k : Own(d, k)' <=> Own(d, k)
  BY <1>5 DEF Submitted, Own
<1>8. SchedulerTypeOK'
  <2>1. TableTypes'
    BY <1>2, <1>6, SchedFacts DEF TableTypes, Holds
  <2> QED  BY <1>2, <1>5, <2>1, SchedFacts, TypesSplitNext DEF ServerTypes
<1>9. IdsDiffer'
  <2>1. \A d \in Submitted : d \in Clients /\ client'[d].id = client[d].id
    BY <1>5 DEF Submitted
  <2>2. Cardinality(Submitted)' = Cardinality(Submitted) /\ nextID' = nextID
    BY <1>2, <1>7
  <2> QED  BY <1>7, <2>1, <2>2 DEF SchedInv, IdsDiffer
<1>10. UnderOwnId'
  BY <1>2, <1>6, <1>7 DEF SchedInv, UnderOwnId
<1>11. MapperKeepsTrack'
  BY <1>2 DEF SchedInv, MapperKeepsTrack, Given, MapperHoldsJobs
<1>12. OwnResult'
  BY <1>5 DEF SchedInv, OwnResult
<1>13. NoJobLost'
  BY <1>2, <1>5 DEF SchedInv, NoJobLost
<1> QED  BY <1>8, <1>9, <1>10, <1>11, <1>12, <1>13 DEF SchedInv

(* At the start there are neither jobs nor threads.                        *)
LEMMA SchedInit ==
  ASSUME EnoughIDs, SchedulerInit PROVE SchedInv
<1>1. DOMAIN jobs = {} /\ DOMAIN results = {} /\ DOMAIN threads = {} /\ DOMAIN names = {}
  BY DEF SchedulerInit
<1>2. /\ 0 \in JobIDs /\ client \in [Clients -> ClientRecord]
      /\ \A c \in Clients : client[c].pc = "new"
  BY SleepingFacts DEF SchedulerInit, ClientRecord
<1>3. Submitted = {} /\ Cardinality(Submitted) = 0
  <2>1. Submitted = {}
    BY <1>2 DEF Submitted
  <2> QED  BY <2>1, FS_EmptySet
<1>4. SchedulerTypeOK
  <2>1. TableTypes /\ threads \in Seq(ThreadRecord)
    BY <1>1 DEF SchedulerInit, TableTypes, Holds
  <2>2. mapper \in MapperRecord /\ nextID \in JobIDs
    BY <1>2, SleepingFacts DEF SchedulerInit
  <2>3. ServerTypes
    BY <1>1 DEF SchedulerInit, ServerTypes, ServerRecord, Holds
  <2> QED  BY <1>2, <2>1, <2>2, <2>3, TypesSplit
<1>5. IdsDiffer
  BY <1>3 DEF IdsDiffer, SchedulerInit
<1>6. UnderOwnId /\ OwnResult /\ NoJobLost
  BY <1>1, <1>2 DEF UnderOwnId, OwnResult, NoJobLost
<1>7. MapperKeepsTrack
  <2>1. mapper.pc = "sleep"
    BY SleepingFacts DEF SchedulerInit
  <2> QED  BY <1>1, <2>1 DEF MapperKeepsTrack, MapperHoldsJobs
<1> QED  BY <1>4, <1>5, <1>6, <1>7 DEF SchedInv

(* Every step keeps the invariant.                                         *)
LEMMA SchedStep ==
  ASSUME EnoughIDs, SchedInv, [SchedulerNext]_schedulerVars PROVE SchedInv'
<1>1. CASE \E s \in Servers : ServerStep(s) \/ Kill(s)
  BY <1>1, ServersStep
<1>2. CASE \E c \in Clients : ClientStep(c)
  BY <1>2, SchedSubmits, SchedTakes DEF ClientStep
<1>3. CASE MapperStep
  BY <1>3, SchedWakes, SchedTurns, SchedAsks, SchedStarts, SchedClears, SchedGathers
  DEF MapperStep
<1>4. CASE \E t \in DOMAIN threads : Run(t)
  BY <1>4, SchedRuns
<1>5. CASE UNCHANGED schedulerVars
  <2>1. UNCHANGED <<jobs, results, threads, nextID, mapper, counter, names, server, client>>
    BY <1>5 DEF schedulerVars
  <2>2. mapper' \in MapperRecord /\ MapperKeepsTrack'
    BY <2>1, SchedFacts DEF SchedInv, MapperKeepsTrack, Given, MapperHoldsJobs
  <2> QED  BY <2>1, <2>2, MapperMoves
<1> QED  BY <1>1, <1>2, <1>3, <1>4, <1>5 DEF SchedulerNext

(* Scheduler, JobMapper, SJobThread: no job is lost between putJob() and
   m_jobs.clear(), none is given to two threads, and a client that stops
   polling has the result of its own job, for any clients and servers, as long
   as the ids of the jobs do not come again.                               *)
THEOREM JobsStayKept ==
  ASSUME EnoughIDs PROVE SchedulerSpec => []JobsKept
<1>1. SchedulerInit => SchedInv
  BY SchedInit
<1>2. SchedInv /\ [SchedulerNext]_schedulerVars => SchedInv'
  BY SchedStep
<1>3. SchedInv => JobsKept
  <2> SUFFICES ASSUME SchedInv PROVE JobsKept
    OBVIOUS
  <2>1. RunsOnce
    <3>1. \A t, u \in DOMAIN threads : threads[t].job = threads[u].job => t = u
      BY DEF SchedInv, MapperKeepsTrack
    <3>2. \A t \in DOMAIN threads, k \in DOMAIN jobs :
            jobs[k] = threads[t].job => MapperHoldsJobs /\ k \notin mapper.todo
      BY DEF SchedInv, MapperKeepsTrack, Given
    <3> QED  BY <3>1, <3>2 DEF RunsOnce
  <2> QED  BY <2>1 DEF SchedInv, JobsKept
<1> QED  BY <1>1, <1>2, <1>3, PTL DEF SchedulerSpec
==============================================================================
