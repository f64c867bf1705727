------------------------------ MODULE LinuxIPC ------------------------------
(***************************************************************************)
(* LinuxIPC: clients send commands to a server through a message queue;    *)
(* the server keeps a hash table of words in shared memory, which clients  *)
(* print themselves; one semaphore per bucket tells a client that its      *)
(* command has been carried out.                                           *)
(***************************************************************************)
EXTENDS Integers, Sequences, FiniteSets

CONSTANTS
  Clients,
  Words,
  NoWord,      \* an empty cell
  Buckets,     \* BUCKET_COUNT
  Slots,       \* MAX_WORDS_PER_BUCKET
  Slack,       \* cells after the last bucket: SHARED_MEMORY_SIZE counts 17
               \* bytes for a word, POSITION_AT() only 16
  Hash,        \* hash()
  MaxMsg,      \* mq_maxmsg
  Kinds,       \* the commands clients give: A, R, C, P, E
  MaxCommands, \* bound: commands of one client
  MaxPrints    \* bound: print commands of all clients

ASSUME TableAssumption ==
  /\ {Buckets, Slots, MaxMsg} \subseteq Nat \ {0}
  /\ {Slack, MaxCommands, MaxPrints} \subseteq Nat
  /\ Hash \in [Words -> 0 .. Buckets - 1]
  /\ NoWord \notin Words
  /\ Kinds \subseteq {"A", "R", "C", "P", "E"}

VARIABLES
  queue,   \* the message queue; a message also records its sender
  table,   \* hash_table, as one array of cells
  sem,     \* the semaphores
  server,  \* "up", "stopped" by an E command, or "segv"
  posts,   \* the semaphores the server has still to post for this command
  waits,   \* per client: the semaphores it has still to wait for
  mode,    \* per client: "command", "print", or "reading" a bucket
  left,    \* per client: commands it may still give
  prints   \* print commands given

vars == <<queue, table, sem, server, posts, waits, mode, left, prints>>
clientVars == <<waits, mode, left, prints>>
-----------------------------------------------------------------------------
Cells == 0 .. Buckets * Slots + Slack - 1

(* POSITION_AT(hash_table, b, j) for j < MAX_WORDS_PER_BUCKET.             *)
CellsOf(b) == {b * Slots + j : j \in 0 .. Slots - 1}

AllBuckets == [i \in 1 .. Buckets |-> i - 1]

MessageOf(c) == [kind : Kinds \cap {"A", "R"}, word : Words, from : {c}]
                \cup [kind : Kinds \ {"A", "R"}, word : {NoWord}, from : {c}]

Init ==
  /\ queue = <<>> /\ table = [a \in Cells |-> NoWord]
  /\ sem = [b \in 0 .. Buckets - 1 |-> 0]
  /\ server = "up" /\ posts = <<>>
  /\ waits = [c \in Clients |-> <<>>]
  /\ mode = [c \in Clients |-> "command"]
  /\ left = [c \in Clients |-> MaxCommands] /\ prints = 0
-----------------------------------------------------------------------------
(* client.c: packet_handler().                                             *)

Awaits_not_for_remove(m) ==
  CASE m.kind = "A" -> IF Hash[m.word] # 0 THEN <<Hash[m.word]>> ELSE <<>>
    [] m.kind \in {"C", "P"} -> AllBuckets
    [] OTHER -> <<>>

(* Bucket 0 is also the value of sem_get when there is nothing to wait for. *)
Awaits(m) ==
  CASE m.kind \in {"A", "R"} -> IF Hash[m.word] # 0 THEN <<Hash[m.word]>> ELSE <<>>
    [] m.kind \in {"C", "P"} -> AllBuckets
    [] m.kind = "E" -> <<>>

(* mq_send() blocks while the queue is full.                               *)
Send(c, m) ==
  /\ mode[c] = "command" /\ waits[c] = <<>> /\ left[c] > 0
  /\ m.kind = "P" => prints < MaxPrints
  /\ Len(queue) < MaxMsg
  /\ queue' = Append(queue, m)
  /\ waits' = [waits EXCEPT ![c] = Awaits(m)]
  /\ mode' = [mode EXCEPT ![c] = IF m.kind = "P" THEN "print" ELSE "command"]
  /\ left' = [left EXCEPT ![c] = @ - 1]
  /\ prints' = IF m.kind = "P" THEN prints + 1 ELSE prints
  /\ UNCHANGED <<table, sem, server, posts>>

(* sem_trywait(), whose failure is not looked at.                          *)
SemWait_does_not_block(c) ==
  /\ waits[c] # <<>> /\ mode[c] # "reading"
  /\ sem' = [sem EXCEPT ![Head(waits[c])] = IF @ > 0 THEN @ - 1 ELSE 0]
  /\ IF mode[c] = "print"
       THEN mode' = [mode EXCEPT ![c] = "reading"] /\ UNCHANGED waits
       ELSE waits' = [waits EXCEPT ![c] = Tail(@)] /\ UNCHANGED mode
  /\ UNCHANGED <<queue, table, server, posts, left, prints>>

SemWait(c) ==
  /\ waits[c] # <<>> /\ mode[c] # "reading" /\ sem[Head(waits[c])] > 0
  /\ sem' = [sem EXCEPT ![Head(waits[c])] = @ - 1]
  /\ IF mode[c] = "print"
       THEN mode' = [mode EXCEPT ![c] = "reading"] /\ UNCHANGED waits
       ELSE waits' = [waits EXCEPT ![c] = Tail(@)] /\ UNCHANGED mode
  /\ UNCHANGED <<queue, table, server, posts, left, prints>>

(* The words of the bucket are printed and its semaphore is posted again.  *)
PrintBucket(c) ==
  /\ mode[c] = "reading"
  /\ sem' = [sem EXCEPT ![Head(waits[c])] = @ + 1]
  /\ waits' = [waits EXCEPT ![c] = Tail(@)]
  /\ mode' = [mode EXCEPT ![c] = IF Tail(waits[c]) = <<>> THEN "command"
                                                          ELSE "print"]
  /\ UNCHANGED <<queue, table, server, posts, left, prints>>
-----------------------------------------------------------------------------
(* server.c: the main loop.                                                *)

PostsFor_not_for_print(m) ==
  CASE m.kind \in {"A", "R"} -> <<Hash[m.word]>>
    [] m.kind = "C" -> AllBuckets
    [] OTHER -> <<>>

PostsFor(m) ==
  CASE m.kind \in {"A", "R"} -> <<Hash[m.word]>>
    [] m.kind \in {"C", "P"} -> AllBuckets
    [] m.kind = "E" -> <<>>

Holds(w) == {a \in CellsOf(Hash[w]) : table[a] = w}
First(S) == CHOOSE a \in S : \A b \in S : a <= b
FreeFrom(b) == {a \in Cells : a >= b * Slots /\ table[a] = NoWord}

Store(w) ==
  IF FreeFrom(Hash[w]) = {}
    THEN server' = "segv" /\ UNCHANGED table
    ELSE /\ table' = [table EXCEPT ![First(FreeFrom(Hash[w]))] = w]
         /\ UNCHANGED server

Add_without_search(w) == Store(w)

(* A word is looked for in the cells of its bucket; if it is not there it is
   written to the first free cell, which may be past the end of the bucket
   or, when there is none, of the memory.                                  *)
Add(w) == IF Holds(w) # {} THEN UNCHANGED <<table, server>> ELSE Store(w)

Remove_first_cell(w) ==
  /\ table' = [table EXCEPT ![Hash[w] * Slots] = NoWord]
  /\ UNCHANGED server

Remove(w) ==
  /\ table' = IF Holds(w) = {} THEN table
              ELSE [table EXCEPT ![First(Holds(w))] = NoWord]
  /\ UNCHANGED server

Clear == table' = [a \in Cells |-> NoWord] /\ UNCHANGED server

Receive ==
  /\ server = "up" /\ posts = <<>> /\ queue # <<>>
  /\ LET m == Head(queue)
     IN  /\ posts' = PostsFor(m)
         /\ \/ m.kind = "A" /\ Add(m.word)
            \/ m.kind = "R" /\ Remove(m.word)
            \/ m.kind = "C" /\ Clear
            \/ m.kind = "P" /\ UNCHANGED <<table, server>>
            \/ m.kind = "E" /\ server' = "stopped" /\ UNCHANGED table
  /\ queue' = Tail(queue)
  /\ UNCHANGED <<sem, clientVars>>

SemPost ==
  /\ server = "up" /\ posts # <<>>
  /\ sem' = [sem EXCEPT ![Head(posts)] = @ + 1]
  /\ posts' = Tail(posts)
  /\ UNCHANGED <<queue, table, server, clientVars>>
-----------------------------------------------------------------------------
Server == Receive \/ SemPost
Client(c) == SemWait(c) \/ PrintBucket(c)
Next == \/ Server
        \/ \E c \in Clients : Client(c)
        \/ \E c \in Clients : \E m \in MessageOf(c) : Send(c, m)

Spec == Init /\ [][Next]_vars
(* Both programs run; a client need not give another command.              *)
FairSpec == Spec /\ WF_vars(Server) /\ \A c \in Clients : WF_vars(Client(c))
-----------------------------------------------------------------------------
(* Queue, table, semaphores and the loops of both programs are well formed,
   and no word has been written past the end of the memory.                *)
TypeOK ==
  /\ queue \in Seq(UNION {MessageOf(c) : c \in Clients}) /\ Len(queue) <= MaxMsg
  /\ table \in [Cells -> Words \cup {NoWord}]
  /\ sem \in [0 .. Buckets - 1 -> Nat]
  /\ server \in {"up", "stopped"} /\ posts \in Seq(0 .. Buckets - 1)
  /\ waits \in [Clients -> Seq(0 .. Buckets - 1)]
  /\ mode \in [Clients -> {"command", "print", "reading"}]
  /\ \A c \in Clients : mode[c] # "command" => waits[c] # <<>>
  /\ left \in [Clients -> 0 .. MaxCommands] /\ prints \in 0 .. MaxPrints

In(b, s) == {i \in DOMAIN s : s[i] = b}

Exit == server = "stopped" \/ \E i \in DOMAIN queue : queue[i].kind = "E"

Owed(b) ==
  Cardinality({i \in DOMAIN queue : In(b, PostsFor(queue[i])) # {}})
  + Cardinality(In(b, posts))
  + Cardinality({c \in Clients : mode[c] = "reading" /\ Head(waits[c]) = b})

Needed(b) ==
  Cardinality({c \in Clients : In(b, waits[c]) # {}
                               /\ ~(mode[c] = "reading" /\ Head(waits[c]) = b)})

(* Until an exit command is given, every sem_wait() of a client, however
   clients mix their commands, is covered by a token or by a sem_post()
   that is still to come from the server or from a printing client.        *)
TokensCoverWaits ==
  ~Exit => \A b \in 0 .. Buckets - 1 : sem[b] + Owed(b) >= Needed(b)

(* No command of a client hangs, unless an exit command stops the server.  *)
CommandsReturn ==
  \A c \in Clients : (waits[c] # <<>>) ~> (waits[c] = <<>> \/ server = "stopped")

(* The other clients have not given a command so far.                      *)
Alone(c) == \A d \in Clients \ {c} : left[d] = MaxCommands

(* Commands of c that the server has not received and that c waits for; c does
   not wait for one on bucket 0.                                           *)
Unserved(c) == {i \in DOMAIN queue : queue[i].from = c /\ Awaits(queue[i]) # <<>>}

(* A command that has returned has been carried out: the server adds the word
   before the client goes on. It holds for a client that is alone, so long as
   it has not printed the table: tokens have no owner, and a print leaves one
   in every bucket.                                                        *)
WaitsForServer ==
  \A c \in Clients : Alone(c) /\ prints = 0 /\ waits[c] = <<>> => Unserved(c) = {}

Changes(m, b) == m.kind = "C" \/ (m.kind \in {"A", "R"} /\ Hash[m.word] = b)

(* A client that is alone and prints for the first time reads a bucket other
   than 0 when none of its commands that change the bucket is in the queue. *)
ReadsSettled ==
  \A c \in Clients : mode[c] = "reading" /\ Alone(c) /\ prints = 1 /\ Head(waits[c]) # 0 =>
    \A i \in Unserved(c) : ~Changes(queue[i], Head(waits[c]))

(* A client that is alone and has not printed before is synchronised with the
   server through the bucket semaphores: what has returned has been carried
   out, and what it reads is settled.                                      *)
LoneClientInStep == WaitsForServer /\ ReadsSettled

Places(w) == {a \in Cells : table[a] = w}

(* A word is in the table once, whatever was added and removed around it:
   a key is added only if it is not in the dictionary.                     *)
StoredOnce == \A w \in Words : Cardinality(Places(w)) <= 1

(* The table implements a set of words on which every command takes effect
   once, in the order of the queue.                                        *)
Dict == INSTANCE Dictionary WITH
          Commands <- UNION {MessageOf(c) : c \in Clients}, todo <- queue,
          dict <- {table[a] : a \in Cells} \ {NoWord}
RefinesDict == Dict!DictSpec
=============================================================================
