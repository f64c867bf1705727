--------------------------- MODULE LinuxIPCProofs ---------------------------
(***************************************************************************)
(* LinuxIPC for any clients, words, buckets and queue: the table of the    *)
(* server implements a set of words, and a client that is alone and has    *)
(* not printed before is in step with the server.                          *)
(***************************************************************************)
EXTENDS LinuxIPC, FiniteSetTheorems, SequenceTheorems, WellFoundedInduction, TLAPS

Bucket == 0 .. Buckets - 1
Messages == UNION {MessageOf(c) : c \in Clients}
Modes == {"command", "print", "reading"}

(* No bucket can be asked to hold more words than it has cells.            *)
WordsOf(b) == {w \in Words : Hash[w] = b}
Room == \A b \in Bucket : IsFiniteSet(WordsOf(b)) /\ Cardinality(WordsOf(b)) <= Slots

QueueTypes == queue \in Seq(Messages)
TableTypes == table \in [Cells -> Words \cup {NoWord}]
SemTypes == sem \in [Bucket -> Nat] /\ posts \in Seq(Bucket)
ClientTypes ==
  /\ waits \in [Clients -> Seq(Bucket)] /\ mode \in [Clients -> Modes]
  /\ left \in [Clients -> Nat] /\ prints \in Nat
  /\ \A c \in Clients : mode[c] # "command" => waits[c] # <<>>
Types == QueueTypes /\ TableTypes /\ SemTypes /\ ClientTypes

-----------------------------------------------------------------------------
(* The table: every word is in its own bucket, and once. *)

AtHome == \A a \in Cells : table[a] # NoWord => a \in CellsOf(Hash[table[a]])
Once == \A a, b \in Cells : table[a] # NoWord /\ table[a] = table[b] => a = b
TableInv == AtHome /\ Once

-----------------------------------------------------------------------------
(* The tokens of a client that is alone. *)

Has(s, b) == \E i \in 1 .. Len(s) : s[i] = b
Increasing(s) == \A i, j \in 1 .. Len(s) : i < j => s[i] < s[j]

(* Who has not given a command has left no trace.                          *)
FreshInv ==
  /\ \A d \in Clients : left[d] <= MaxCommands
  /\ \A d \in Clients : left[d] = MaxCommands => waits[d] = <<>> /\ mode[d] = "command"
  /\ \A i \in 1 .. Len(queue) : left[queue[i].from] # MaxCommands
  /\ prints = 0 => \A d \in Clients : mode[d] = "command"

OrderInv == Increasing(posts) /\ \A c \in Clients : Increasing(waits[c])

(* The client has not begun to print, or prints for the first time.        *)
Early(c) == prints = 0 \/ (prints = 1 /\ mode[c] # "command")

(* A command that c waits for is the only one in the queue; as long as it  *)
(* is there no bucket but 0 has a token, and c waits for all it brings.    *)
OneUnserved(c) == \A i, j \in Unserved(c) : i = j

NoTokens == \A b \in Bucket \ {0} : sem[b] = 0 /\ ~Has(posts, b)

InWaits(c) ==
  \A i \in Unserved(c) : \A b \in Bucket \ {0} : Has(PostsFor(queue[i]), b) => Has(waits[c], b)

UnservedInv(c) ==
  Unserved(c) # {} => NoTokens /\ (mode[c] = "reading" => Head(waits[c]) = 0)

(* Outside of a print there is at most one token in each such bucket, and  *)
(* c waits for it.                                                         *)
Tokens(c) ==
  mode[c] = "command" =>
    \A b \in Bucket \ {0} :
      /\ sem[b] \in {0, 1}
      /\ sem[b] = 1 => ~Has(posts, b) /\ Has(waits[c], b)
      /\ Has(posts, b) => Has(waits[c], b)

InStep(c) == OneUnserved(c) /\ InWaits(c) /\ UnservedInv(c) /\ Tokens(c)
LoneInv == \A c \in Clients : Alone(c) /\ Early(c) => InStep(c)

-----------------------------------------------------------------------------
(* Cells and buckets. *)

LEMMA Constants ==
  /\ Buckets \in Nat \ {0} /\ Slots \in Nat \ {0} /\ Slack \in Nat
  /\ Hash \in [Words -> Bucket] /\ NoWord \notin Words
BY TableAssumption DEF Bucket

LEMMA Multiples ==
  ASSUME NEW a \in Nat, NEW b \in Nat, NEW n \in Nat, a < b
  PROVE  a * n \in Nat /\ b * n \in Nat /\ a * n + n <= b * n
<1>1. (a + 1) * n = a * n + n
  OBVIOUS
<1>2. PICK d \in Nat : b = (a + 1) + d
  <2>1. b - (a + 1) \in Nat /\ b = (a + 1) + (b - (a + 1))
    OBVIOUS
  <2>2. QED
    BY <2>1
<1>3. b * n = (a + 1) * n + d * n /\ d * n \in Nat /\ a * n \in Nat
  BY <1>2
<1>4. QED
  BY <1>1, <1>3

LEMMA CellsInRow ==
  ASSUME NEW b \in Bucket
  PROVE  b * Slots \in Nat /\ CellsOf(b) = b * Slots .. b * Slots + Slots - 1 /\ CellsOf(b) \subseteq Cells
<1>1. b \in Nat /\ Buckets \in Nat /\ Slots \in Nat /\ Slack \in Nat /\ b < Buckets
  BY Constants DEF Bucket
<1>2. b * Slots \in Nat /\ Buckets * Slots \in Nat /\ b * Slots + Slots <= Buckets * Slots
  BY <1>1, Multiples
<1> DEFINE n == b * Slots
           m == Buckets * Slots
<1>3. n \in Nat /\ m \in Nat /\ n + Slots <= m
  BY <1>2
<1>4. CellsOf(b) = {n + j : j \in 0 .. Slots - 1} /\ Cells = 0 .. m + Slack - 1
  BY DEF CellsOf, Cells
<1> HIDE DEF n, m
<1>5. {n + j : j \in 0 .. Slots - 1} = n .. n + Slots - 1
  <2>1. \A a \in n .. n + Slots - 1 : a - n \in 0 .. Slots - 1 /\ a = n + (a - n)
    BY <1>1, <1>3
  <2>2. \A j \in 0 .. Slots - 1 : n + j \in n .. n + Slots - 1
    BY <1>1, <1>3
  <2>3. QED
    BY <2>1, <2>2
<1>6. CellsOf(b) = n .. n + Slots - 1 /\ CellsOf(b) \subseteq Cells
  BY <1>1, <1>3, <1>4, <1>5
<1>7. QED
  BY <1>3, <1>6 DEF n

LEMMA CellsApart ==
  ASSUME NEW b \in Bucket, NEW d \in Bucket, NEW a, a \in CellsOf(b), a \in CellsOf(d)
  PROVE  b = d
<1>1. b \in Nat /\ d \in Nat /\ Slots \in Nat
  BY Constants DEF Bucket
<1>2. a \in Int /\ b * Slots <= a /\ a < b * Slots + Slots /\ d * Slots <= a /\ a < d * Slots + Slots
      /\ b * Slots \in Nat /\ d * Slots \in Nat
  BY <1>1, CellsInRow
<1>3. CASE b < d
  BY <1>1, <1>2, <1>3, Multiples
<1>4. CASE d < b
  BY <1>1, <1>2, <1>4, Multiples
<1>5. QED
  BY <1>1, <1>3, <1>4

LEMMA FirstIsLeast ==
  ASSUME NEW S \in SUBSET Nat, S # {}
  PROVE  First(S) \in S /\ \A b \in S : First(S) <= b
<1> DEFINE R == {ss \in Nat \X Nat : ss[1] < ss[2]}
<1>1. IsWellFoundedOn(R, Nat)
  BY NatLessThanWellFounded DEF OpToRel
<1>2. ASSUME NEW x \in Nat, NEW y \in Nat PROVE <<y, x>> \in R <=> y < x
  <2>1. <<y, x>> \in Nat \X Nat /\ <<y, x>>[1] = y /\ <<y, x>>[2] = x
    OBVIOUS
  <2>2. QED
    BY <2>1
<1> HIDE DEF R
<1>3. PICK x \in S : \A y \in S : ~(<<y, x>> \in R)
  BY <1>1, WFMin
<1>a. \A y \in S : ~(y < x)
  BY <1>2, <1>3
<1>4. x \in Nat /\ \A y \in S : x <= y
  BY <1>a
<1>5. QED
  BY <1>4 DEF First

(* As long as every bucket has room for its words, a word that is not in   *)
(* its bucket finds a free cell there: otherwise two cells would hold the  *)
(* same word.                                                              *)
LEMMA FreeCell ==
  ASSUME Room, TableTypes, TableInv, NEW w \in Words, Holds(w) = {}
  PROVE  \E a \in CellsOf(Hash[w]) : table[a] = NoWord
<1> DEFINE b == Hash[w]
           C == CellsOf(b)
           T == WordsOf(b) \ {w}
<1>1. b \in Bucket /\ w \in WordsOf(b) /\ Slots \in Nat
  BY Constants DEF WordsOf
<1>2. C \subseteq Cells /\ IsFiniteSet(C) /\ Cardinality(C) = Slots
  <2>1. b * Slots \in Nat /\ CellsOf(b) = b * Slots .. b * Slots + Slots - 1 /\ CellsOf(b) \subseteq Cells
    BY <1>1, CellsInRow
  <2> DEFINE n == b * Slots
  <2>2. n \in Nat /\ C = n .. n + Slots - 1
    BY <2>1
  <2> HIDE DEF n, C
  <2>3. n \in Int /\ n + Slots - 1 \in Int
    BY <1>1, <2>2
  <2>4. IsFiniteSet(n .. n + Slots - 1)
        /\ Cardinality(n .. n + Slots - 1) = IF n > n + Slots - 1 THEN 0 ELSE (n + Slots - 1) - n + 1
    BY <2>3, FS_Interval
  <2>5. Cardinality(n .. n + Slots - 1) = Slots
    BY <1>1, <2>2, <2>4
  <2>6. C \subseteq Cells
    BY <2>1 DEF C
  <2>7. QED
    BY <2>2, <2>4, <2>5, <2>6
<1>3. IsFiniteSet(T) /\ Cardinality(T) < Slots
  <2>1. IsFiniteSet(WordsOf(b)) /\ Cardinality(WordsOf(b)) <= Slots
    BY <1>1 DEF Room
  <2>2. IsFiniteSet(T) /\ Cardinality(T) = Cardinality(WordsOf(b)) - 1
    BY <1>1, <2>1, FS_RemoveElement
  <2>3. Cardinality(WordsOf(b)) \in Nat
    BY <2>1, FS_CardinalityType
  <2>4. QED
    BY <1>1, <2>1, <2>2, <2>3
<1>4. SUFFICES ASSUME \A a \in C : table[a] # NoWord PROVE FALSE
  OBVIOUS
<1>5. \A a \in C : table[a] \in T
  <2> TAKE a \in C
  <2>1. a \in Cells /\ table[a] \in Words
    BY <1>2, <1>4 DEF TableTypes
  <2>2. a \in CellsOf(Hash[table[a]]) /\ Hash[table[a]] \in Bucket
    BY <1>4, <2>1, Constants DEF TableInv, AtHome
  <2>3. Hash[table[a]] = b
    BY <1>1, <2>2, CellsApart
  <2>4. table[a] # w
    BY DEF Holds
  <2>5. QED
    BY <2>1, <2>3, <2>4 DEF WordsOf
<1> DEFINE f == [a \in C |-> table[a]]
<1>6. f \in [C -> T] /\ \A a \in C : f[a] = table[a]
  BY <1>5
<1> HIDE DEF f, C, T
<1>7. \E x, y \in C : x # y /\ f[x] = f[y]
  BY <1>2, <1>3, <1>6, FS_PigeonHole
<1>8. QED
  BY <1>2, <1>4, <1>6, <1>7 DEF TableInv, Once

LEMMA FirstFree ==
  ASSUME Room, TableTypes, TableInv, NEW w \in Words, Holds(w) = {}
  PROVE  /\ FreeFrom(Hash[w]) # {}
         /\ First(FreeFrom(Hash[w])) \in CellsOf(Hash[w])
         /\ First(FreeFrom(Hash[w])) \in Cells
         /\ table[First(FreeFrom(Hash[w]))] = NoWord
<1> DEFINE b == Hash[w]
           S == FreeFrom(b)
<1>1. b \in Bucket /\ Slots \in Nat
  BY Constants
<1>2. b * Slots \in Nat /\ CellsOf(b) = b * Slots .. b * Slots + Slots - 1 /\ CellsOf(b) \subseteq Cells
  BY <1>1, CellsInRow
<1>3. PICK a \in CellsOf(b) : table[a] = NoWord
  BY FreeCell
<1>4. a \in S
  <2>1. a \in Cells /\ a >= b * Slots
    BY <1>2, <1>3
  <2>2. QED
    BY <1>3, <2>1 DEF FreeFrom
<1>5. S \in SUBSET Nat
  BY DEF FreeFrom, Cells
<1>6. First(S) \in S /\ First(S) <= a
  BY <1>4, <1>5, FirstIsLeast
<1>7. First(S) \in Cells /\ First(S) >= b * Slots /\ table[First(S)] = NoWord
  BY <1>6 DEF FreeFrom
<1>8. First(S) \in CellsOf(b)
  <2> DEFINE n == b * Slots
             x == First(S)
  <2>1. n \in Nat /\ CellsOf(b) = n .. n + Slots - 1 /\ x \in Nat /\ x >= n /\ x <= a
    BY <1>2, <1>5, <1>6, <1>7
  <2> HIDE DEF n, x
  <2>2. x \in CellsOf(b)
    BY <1>1, <1>3, <2>1
  <2>3. QED
    BY <2>2 DEF x
<1>9. QED
  BY <1>4, <1>7, <1>8

-----------------------------------------------------------------------------
(* Types. *)

LEMMA MessageFacts ==
  ASSUME NEW m \in Messages
  PROVE  /\ m.kind \in {"A", "R", "C", "P", "E"} /\ m.from \in Clients
         /\ m.kind \in {"A", "R"} => m.word \in Words /\ Hash[m.word] \in Bucket
<1>1. PICK c \in Clients : m \in MessageOf(c)
  BY DEF Messages
<1>2. CASE m \in [kind : Kinds \cap {"A", "R"}, word : Words, from : {c}]
  BY <1>2, Constants, TableAssumption
<1>3. CASE m \in [kind : Kinds \ {"A", "R"}, word : {NoWord}, from : {c}]
  BY <1>3, TableAssumption
<1>4. QED
  BY <1>1, <1>2, <1>3 DEF MessageOf

LEMMA SentFrom ==
  ASSUME NEW c \in Clients, NEW m \in MessageOf(c)
  PROVE  m \in Messages /\ m.from = c
<1>1. m \in Messages
  BY DEF Messages
<1>2. CASE m \in [kind : Kinds \cap {"A", "R"}, word : Words, from : {c}]
  BY <1>1, <1>2
<1>3. CASE m \in [kind : Kinds \ {"A", "R"}, word : {NoWord}, from : {c}]
  BY <1>1, <1>3
<1>4. QED
  BY <1>2, <1>3 DEF MessageOf

LEMMA AllBucketsFacts ==
  /\ AllBuckets \in Seq(Bucket) /\ Len(AllBuckets) = Buckets /\ Increasing(AllBuckets) /\ AllBuckets # <<>>
  /\ \A b \in Bucket : Has(AllBuckets, b)
<1>0. Buckets \in Nat \ {0}
  BY Constants
<1>1. AllBuckets \in Seq(Bucket) /\ Len(AllBuckets) = Buckets /\ \A i \in 1 .. Buckets : AllBuckets[i] = i - 1
  BY <1>0 DEF AllBuckets, Bucket
<1>2. Increasing(AllBuckets) /\ AllBuckets # <<>>
  BY <1>0, <1>1, EmptySeq DEF Increasing
<1>3. ASSUME NEW b \in Bucket PROVE Has(AllBuckets, b)
  <2>1. b + 1 \in 1 .. Buckets /\ (b + 1) - 1 = b
    BY <1>0 DEF Bucket
  <2>2. AllBuckets[b + 1] = b
    BY <1>1, <2>1
  <2>3. QED
    BY <1>1, <2>1, <2>2 DEF Has
<1>4. QED
  BY <1>1, <1>2, <1>3

LEMMA OneOrNone ==
  ASSUME NEW b \in Bucket
  PROVE  /\ <<b>> \in Seq(Bucket) /\ Increasing(<<b>>) /\ <<b>> # <<>>
         /\ <<>> \in Seq(Bucket) /\ Increasing(<<>>)
<1>1. <<b>> \in Seq(Bucket) /\ Len(<<b>>) = 1 /\ <<>> \in Seq(Bucket) /\ Len(<<>>) = 0
  OBVIOUS
<1>2. QED
  BY <1>1 DEF Increasing

(* What a command makes the client wait for and the server post.           *)
LEMMA PostsFacts ==
  ASSUME NEW m \in Messages
  PROVE  /\ PostsFor(m) \in Seq(Bucket) /\ Awaits(m) \in Seq(Bucket)
         /\ Increasing(PostsFor(m)) /\ Increasing(Awaits(m))
         /\ m.kind = "P" => Awaits(m) # <<>>
<1>1. CASE m.kind \in {"A", "R"}
  <2>1. Hash[m.word] \in Bucket
    BY <1>1, MessageFacts
  <2>2. PostsFor(m) = <<Hash[m.word]>> /\ (Awaits(m) = <<Hash[m.word]>> \/ Awaits(m) = <<>>)
    BY <1>1 DEF PostsFor, Awaits
  <2>3. QED
    BY <1>1, <2>1, <2>2, OneOrNone
<1>2. CASE m.kind \in {"C", "P"}
  <2>1. PostsFor(m) = AllBuckets /\ Awaits(m) = AllBuckets
    BY <1>2 DEF PostsFor, Awaits
  <2>2. QED
    BY <2>1, AllBucketsFacts
<1>3. CASE m.kind = "E"
  <2>1. PostsFor(m) = <<>> /\ Awaits(m) = <<>>
    BY <1>3 DEF PostsFor, Awaits
  <2>2. QED
    BY <1>3, <2>1 DEF Increasing
<1>4. QED
  BY <1>1, <1>2, <1>3, MessageFacts

LEMMA TypesStep == Types /\ [Next]_vars => Types'
<1> SUFFICES ASSUME Types, [Next]_vars PROVE Types'
  OBVIOUS
<1>0. /\ queue \in Seq(Messages) /\ table \in [Cells -> Words \cup {NoWord}]
      /\ sem \in [Bucket -> Nat] /\ posts \in Seq(Bucket) /\ ClientTypes
  BY DEF Types, QueueTypes, TableTypes, SemTypes
<1>c. /\ waits \in [Clients -> Seq(Bucket)] /\ mode \in [Clients -> Modes]
      /\ left \in [Clients -> Nat] /\ prints \in Nat
      /\ \A c \in Clients : mode[c] # "command" => waits[c] # <<>>
  BY <1>0 DEF ClientTypes
<1>t. \A s \in Seq(Bucket) : s # <<>> => Head(s) \in Bucket /\ Tail(s) \in Seq(Bucket)
  BY HeadTailProperties
<1>1. ASSUME NEW c \in Clients, NEW m \in MessageOf(c), Send(c, m) PROVE Types'
  <2>1. m \in Messages
    BY DEF Messages
  <2>2. Awaits(m) \in Seq(Bucket) /\ (m.kind = "P" => Awaits(m) # <<>>)
    BY <2>1, PostsFacts
  <2>3. queue' \in Seq(Messages)
    BY <1>0, <1>1, <2>1, AppendProperties DEF Send
  <2>4. waits' \in [Clients -> Seq(Bucket)] /\ mode' \in [Clients -> Modes]
    BY <1>1, <1>c, <2>2 DEF Send, Modes
  <2>5. left' \in [Clients -> Nat] /\ prints' \in Nat
    BY <1>1, <1>c DEF Send
  <2>6. \A d \in Clients : mode'[d] # "command" => waits'[d] # <<>>
    <3> TAKE d \in Clients
    <3>1. CASE d = c
      BY <1>1, <1>c, <2>2, <3>1 DEF Send
    <3>2. CASE d # c
      BY <1>1, <1>c, <3>2 DEF Send
    <3>3. QED
      BY <3>1, <3>2
  <2>7. UNCHANGED <<table, sem, posts>>
    BY <1>1 DEF Send
  <2>8. QED
    BY <1>0, <2>3, <2>4, <2>5, <2>6, <2>7 DEF Types, QueueTypes, TableTypes, SemTypes, ClientTypes
<1>2. ASSUME NEW c \in Clients, SemWait(c) PROVE Types'
  <2>1. Head(waits[c]) \in Bucket /\ Tail(waits[c]) \in Seq(Bucket) /\ waits[c] # <<>> /\ mode[c] # "reading"
    BY <1>2, <1>c, <1>t DEF SemWait
  <2>2. sem' \in [Bucket -> Nat]
    BY <1>0, <1>2, <2>1 DEF SemWait
  <2>3. ClientTypes'
    <3>1. CASE mode[c] = "print"
      <4>1. mode' = [mode EXCEPT ![c] = "reading"] /\ UNCHANGED <<waits, left, prints>>
        BY <1>2, <3>1 DEF SemWait
      <4>2. QED
        BY <1>c, <2>1, <4>1 DEF ClientTypes, Modes
    <3>2. CASE mode[c] # "print"
      <4>1. waits' = [waits EXCEPT ![c] = Tail(waits[c])] /\ UNCHANGED <<mode, left, prints>> /\ mode[c] = "command"
        BY <1>2, <1>c, <2>1, <3>2 DEF SemWait, Modes
      <4>2. QED
        BY <1>c, <2>1, <4>1 DEF ClientTypes
    <3>3. QED
      BY <3>1, <3>2
  <2>4. UNCHANGED <<queue, table, posts>>
    BY <1>2 DEF SemWait
  <2>5. QED
    BY <1>0, <2>2, <2>3, <2>4 DEF Types, QueueTypes, TableTypes, SemTypes
<1>3. ASSUME NEW c \in Clients, PrintBucket(c) PROVE Types'
  <2>1. Head(waits[c]) \in Bucket /\ Tail(waits[c]) \in Seq(Bucket)
    BY <1>3, <1>c, <1>t DEF PrintBucket
  <2>2. sem' \in [Bucket -> Nat]
    BY <1>0, <1>3, <2>1 DEF PrintBucket
  <2>3. /\ waits' = [waits EXCEPT ![c] = Tail(waits[c])] /\ UNCHANGED <<queue, table, posts, left, prints>>
        /\ mode' = [mode EXCEPT ![c] = IF Tail(waits[c]) = <<>> THEN "command" ELSE "print"]
    BY <1>3 DEF PrintBucket
  <2>4. ClientTypes'
    <3>1. waits' \in [Clients -> Seq(Bucket)] /\ mode' \in [Clients -> Modes]
      BY <1>c, <2>1, <2>3 DEF Modes
    <3>2. \A d \in Clients : mode'[d] # "command" => waits'[d] # <<>>
      BY <1>c, <2>3
    <3>3. QED
      BY <1>c, <2>3, <3>1, <3>2 DEF ClientTypes
  <2>5. QED
    BY <1>0, <2>2, <2>3, <2>4 DEF Types, QueueTypes, TableTypes, SemTypes
<1>4. CASE Receive
  <2>1. queue # <<>> /\ queue' = Tail(queue) /\ posts' = PostsFor(Head(queue)) /\ UNCHANGED <<sem, waits, mode, left, prints>>
    BY <1>4 DEF Receive, clientVars
  <2>2. Head(queue) \in Messages /\ queue' \in Seq(Messages)
    BY <1>0, <2>1, HeadTailProperties
  <2>3. posts' \in Seq(Bucket)
    BY <2>1, <2>2, PostsFacts
  <2>4. table' \in [Cells -> Words \cup {NoWord}]
    <3> DEFINE m == Head(queue)
    <3>1. CASE m.kind = "A" /\ Add(m.word)
      <4>1. m.word \in Words
        BY <2>2, <3>1, MessageFacts
      <4>2. QED
        BY <1>0, <3>1, <4>1 DEF Add, Store
    <3>2. CASE m.kind = "R" /\ Remove(m.word)
      BY <1>0, <3>2 DEF Remove
    <3>3. CASE m.kind = "C" /\ Clear
      BY <1>0, <3>3 DEF Clear
    <3>4. CASE UNCHANGED table
      BY <1>0, <3>4
    <3>5. QED
      BY <1>4, <3>1, <3>2, <3>3, <3>4 DEF Receive
  <2>5. QED
    BY <1>0, <1>c, <2>1, <2>2, <2>3, <2>4 DEF Types, QueueTypes, TableTypes, SemTypes, ClientTypes
<1>5. CASE SemPost
  <2>1. /\ posts # <<>> /\ sem' = [sem EXCEPT ![Head(posts)] = @ + 1] /\ posts' = Tail(posts)
        /\ UNCHANGED <<queue, table, waits, mode, left, prints>>
    BY <1>5 DEF SemPost, clientVars
  <2>2. Head(posts) \in Bucket /\ posts' \in Seq(Bucket)
    BY <1>0, <1>t, <2>1
  <2>3. sem' \in [Bucket -> Nat]
    BY <1>0, <2>1, <2>2
  <2>4. QED
    BY <1>0, <1>c, <2>1, <2>2, <2>3 DEF Types, QueueTypes, TableTypes, SemTypes, ClientTypes
<1>6. CASE UNCHANGED vars
  BY <1>0, <1>c, <1>6 DEF vars, Types, QueueTypes, TableTypes, SemTypes, ClientTypes
<1>7. QED
  BY <1>1, <1>2, <1>3, <1>4, <1>5, <1>6 DEF Next, Server, Client

-----------------------------------------------------------------------------
(* The table and the set of words. *)

Stored == {table[a] : a \in Cells} \ {NoWord}

(* The handlers of the server, on a table in which every word is at home   *)
(* and once.                                                               *)
LEMMA HomeCells ==
  ASSUME NEW w \in Words
  PROVE  Hash[w] \in Bucket /\ CellsOf(Hash[w]) \subseteq Cells /\ CellsOf(Hash[w]) \subseteq Nat /\ w # NoWord
<1>1. Hash[w] \in Bucket /\ w # NoWord
  BY Constants
<1>2. Cells \subseteq Nat
  BY DEF Cells
<1>3. QED
  BY <1>1, <1>2, CellsInRow

LEMMA AddFacts ==
  ASSUME Room, TableTypes, TableInv, NEW w \in Words, Add(w)
  PROVE  TableInv' /\ Stored' = Stored \cup {w} /\ server' = server
<1>0. CellsOf(Hash[w]) \subseteq Cells /\ w # NoWord
  BY HomeCells
<1>1. CASE Holds(w) # {}
  <2>1. UNCHANGED <<table, server>>
    BY <1>1 DEF Add
  <2>2. w \in Stored
    BY <1>0, <1>1 DEF Holds, Stored
  <2>3. TableInv' /\ Stored' = Stored
    BY <2>1 DEF TableInv, AtHome, Once, Stored
  <2>4. QED
    BY <2>1, <2>2, <2>3
<1>2. CASE Holds(w) = {}
  <2> DEFINE f == First(FreeFrom(Hash[w]))
  <2>1. FreeFrom(Hash[w]) # {} /\ f \in CellsOf(Hash[w]) /\ f \in Cells /\ table[f] = NoWord
    BY <1>2, FirstFree
  <2>2. table' = [table EXCEPT ![f] = w] /\ server' = server
    BY <1>2, <2>1 DEF Add, Store
  <2> HIDE DEF f
  <2>3. table'[f] = w /\ \A a \in Cells : a # f => table'[a] = table[a]
    BY <2>1, <2>2 DEF TableTypes
  <2>4. \A a \in Cells : table[a] # w
    BY <1>0, <1>2 DEF TableInv, AtHome, Holds
  <2>5. AtHome'
    <3> SUFFICES ASSUME NEW a \in Cells, table'[a] # NoWord PROVE a \in CellsOf(Hash[table'[a]])
      BY DEF AtHome
    <3>1. CASE a = f
      BY <2>1, <2>3, <3>1
    <3>2. CASE a # f
      BY <2>3, <3>2 DEF TableInv, AtHome
    <3>3. QED
      BY <3>1, <3>2
  <2>6. Once'
    BY <2>3, <2>4 DEF TableInv, Once
  <2>7. Stored' = Stored \cup {w}
    <3>1. \A v \in Stored' : v \in Stored \cup {w}
      BY <2>3 DEF Stored
    <3>2. w \in Stored'
      BY <1>0, <2>1, <2>3 DEF Stored
    <3>3. \A v \in Stored : v \in Stored'
      BY <2>1, <2>3 DEF Stored
    <3>4. QED
      BY <3>1, <3>2, <3>3
  <2>8. QED
    BY <2>2, <2>5, <2>6, <2>7 DEF TableInv
<1>3. QED
  BY <1>1, <1>2

LEMMA RemoveFacts ==
  ASSUME TableTypes, TableInv, NEW w \in Words, Remove(w)
  PROVE  TableInv' /\ Stored' = Stored \ {w} /\ server' = server
<1>0. CellsOf(Hash[w]) \subseteq Cells /\ CellsOf(Hash[w]) \subseteq Nat /\ w # NoWord
  BY HomeCells
<1>1. CASE Holds(w) = {}
  <2>1. UNCHANGED <<table, server>>
    BY <1>1 DEF Remove
  <2>2. \A a \in Cells : table[a] # w
    BY <1>0, <1>1 DEF TableInv, AtHome, Holds
  <2>3. w \notin Stored
    BY <2>2 DEF Stored
  <2>4. TableInv' /\ Stored' = Stored
    BY <2>1 DEF TableInv, AtHome, Once, Stored
  <2>5. QED
    BY <2>1, <2>3, <2>4
<1>2. CASE Holds(w) # {}
  <2> DEFINE f == First(Holds(w))
  <2>1. Holds(w) \in SUBSET Nat
    BY <1>0 DEF Holds
  <2>2. f \in Holds(w)
    BY <1>2, <2>1, FirstIsLeast
  <2>3. f \in Cells /\ table[f] = w
    BY <1>0, <2>2 DEF Holds
  <2>4. table' = [table EXCEPT ![f] = NoWord] /\ server' = server
    BY <1>2 DEF Remove
  <2> HIDE DEF f
  <2>5. table'[f] = NoWord /\ \A a \in Cells : a # f => table'[a] = table[a]
    BY <2>3, <2>4 DEF TableTypes
  <2>6. \A a \in Cells : a # f => table[a] # w
    BY <1>0, <2>3 DEF TableInv, Once
  <2>7. AtHome'
    BY <2>5 DEF TableInv, AtHome
  <2>8. Once'
    BY <2>5 DEF TableInv, Once
  <2>9. Stored' = Stored \ {w}
    <3>1. \A v \in Stored' : v \in Stored \ {w}
      BY <2>5, <2>6 DEF Stored
    <3>2. \A v \in Stored \ {w} : v \in Stored'
      BY <2>3, <2>5 DEF Stored
    <3>3. QED
      BY <3>1, <3>2
  <2>10. QED
    BY <2>4, <2>7, <2>8, <2>9 DEF TableInv
<1>3. QED
  BY <1>1, <1>2

LEMMA ClearFacts ==
  ASSUME Clear
  PROVE  TableInv' /\ Stored' = {} /\ server' = server
BY DEF Clear, TableInv, AtHome, Once, Stored

(* The server serves the command at the head of the queue.                 *)
LEMMA ReceiveServes ==
  ASSUME Room, Types, TableInv, Receive
  PROVE  /\ TableInv' /\ queue # <<>> /\ queue' = Tail(queue)
         /\ Stored' = Dict!Effect(Head(queue), Stored)
<1> DEFINE m == Head(queue)
<1>0. TableTypes /\ queue # <<>> /\ queue' = Tail(queue) /\ m \in Messages
  BY HeadTailProperties DEF Types, QueueTypes, Receive
<1>1. CASE m.kind = "A" /\ Add(m.word)
  <2>1. m.word \in Words
    BY <1>0, <1>1, MessageFacts
  <2>2. TableInv' /\ Stored' = Stored \cup {m.word}
    BY <1>0, <1>1, <2>1, AddFacts
  <2>3. QED
    BY <1>0, <1>1, <2>2 DEF Dict!Effect
<1>2. CASE m.kind = "R" /\ Remove(m.word)
  <2>1. m.word \in Words
    BY <1>0, <1>2, MessageFacts
  <2>2. TableInv' /\ Stored' = Stored \ {m.word}
    BY <1>0, <1>2, <2>1, RemoveFacts
  <2>3. QED
    BY <1>0, <1>2, <2>2 DEF Dict!Effect
<1>3. CASE m.kind = "C" /\ Clear
  <2>1. TableInv' /\ Stored' = {}
    BY <1>3, ClearFacts
  <2>2. QED
    BY <1>0, <1>3, <2>1 DEF Dict!Effect
<1>4. CASE m.kind \in {"P", "E"} /\ UNCHANGED table
  <2>1. TableInv' /\ Stored' = Stored
    BY <1>4 DEF TableInv, AtHome, Once, Stored
  <2>2. QED
    BY <1>0, <1>4, <2>1 DEF Dict!Effect
<1>5. QED
  BY <1>1, <1>2, <1>3, <1>4 DEF Receive

(* Every other step leaves the table alone.                                *)
LEMMA OtherSteps ==
  ASSUME [Next]_vars, ~Receive
  PROVE  table' = table /\ (queue' = queue \/ \E m \in Messages : queue' = Append(queue, m))
<1>1. ASSUME NEW c \in Clients, NEW m \in MessageOf(c), Send(c, m)
      PROVE  table' = table /\ m \in Messages /\ queue' = Append(queue, m)
  BY <1>1 DEF Send, Messages
<1>2. CASE SemPost \/ (\E c \in Clients : Client(c)) \/ UNCHANGED vars
  BY <1>2 DEF SemPost, Client, SemWait, PrintBucket, vars
<1>3. QED
  BY <1>1, <1>2 DEF Next, Server

LEMMA InitTypes == Init => Types /\ TableInv
<1> SUFFICES ASSUME Init PROVE Types /\ TableInv
  OBVIOUS
<1>1. QueueTypes /\ TableTypes /\ TableInv
  BY DEF Init, QueueTypes, TableTypes, TableInv, AtHome, Once
<1>2. SemTypes
  BY DEF Init, SemTypes, Bucket
<1>3. ClientTypes
  BY TableAssumption DEF Init, ClientTypes, Modes
<1>4. QED
  BY <1>1, <1>2, <1>3 DEF Types

LEMMA TableHolds == ASSUME Room PROVE Spec => [](Types /\ TableInv)
<1>1. Types /\ TableInv /\ [Next]_vars => Types' /\ TableInv'
  <2> SUFFICES ASSUME Types, TableInv, [Next]_vars PROVE TableInv'
    BY TypesStep
  <2>1. CASE Receive
    BY <2>1, ReceiveServes
  <2>2. CASE ~Receive
    BY <2>2, OtherSteps DEF TableInv, AtHome, Once
  <2>3. QED
    BY <2>1, <2>2
<1>2. QED
  BY <1>1, InitTypes, PTL DEF Spec

(* The server's hash table implements a set of words on which every        *)
(* command takes effect once, in the order in which the clients' messages  *)
(* entered the queue, for any clients, words and hash function, as long as *)
(* no bucket is asked to hold more words than it has cells.                *)
THEOREM TableIsASet == Room => (Spec => RefinesDict)
<1> SUFFICES ASSUME Room PROVE Spec => RefinesDict
  OBVIOUS
<1>1. Init => Dict!DictInit
  BY DEF Init, Dict!DictInit
<1>2. Types /\ TableInv /\ [Next]_vars => [Dict!Submit \/ Dict!Serve]_<<queue, {table[a] : a \in Cells} \ {NoWord}>>
  <2> SUFFICES ASSUME Types, TableInv, [Next]_vars
               PROVE  Dict!Submit \/ Dict!Serve \/ UNCHANGED <<queue, Stored>>
    BY DEF Stored
  <2>1. CASE Receive
    BY <2>1, ReceiveServes DEF Dict!Serve, Stored
  <2>2. CASE ~Receive
    BY <2>2, OtherSteps DEF Dict!Submit, Messages, Stored
  <2>3. QED
    BY <2>1, <2>2
<1>3. QED
  BY <1>1, <1>2, TableHolds, PTL DEF Spec, RefinesDict, Dict!DictSpec

-----------------------------------------------------------------------------
(* A client that is alone. *)

LEMMA TailFacts ==
  ASSUME NEW s \in Seq(Bucket), s # <<>>, Increasing(s)
  PROVE  /\ Head(s) \in Bucket /\ Tail(s) \in Seq(Bucket) /\ Increasing(Tail(s))
         /\ Has(s, Head(s)) /\ ~Has(Tail(s), Head(s))
         /\ \A b : Has(s, b) /\ b # Head(s) => Has(Tail(s), b)
         /\ \A b : Has(Tail(s), b) => Has(s, b)
<1>1. /\ Head(s) \in Bucket /\ Tail(s) \in Seq(Bucket) /\ Len(Tail(s)) = Len(s) - 1
      /\ \A i \in 1 .. Len(Tail(s)) : Tail(s)[i] = s[i + 1]
  BY HeadTailProperties
<1>2. Len(s) \in Nat /\ Len(s) # 0 /\ Head(s) = s[1] /\ \A i \in 1 .. Len(s) : s[i] \in Bucket
  BY EmptySeq, ElementOfSeq
<1> DEFINE t == Tail(s)
           n == Len(s)
           h == Head(s)
<1>3. /\ Len(t) = n - 1 /\ n \in Nat /\ n # 0 /\ h = s[1] /\ Len(s) = n
      /\ \A i \in 1 .. n - 1 : t[i] = s[i + 1]
      /\ \A i \in 1 .. n : s[i] \in Nat
  BY <1>1, <1>2 DEF Bucket
<1> HIDE DEF t, n, h
<1>4. Increasing(t)
  <2> SUFFICES ASSUME NEW i \in 1 .. Len(t), NEW j \in 1 .. Len(t), i < j PROVE t[i] < t[j]
    BY DEF Increasing
  <2>1. i \in 1 .. n - 1 /\ j \in 1 .. n - 1 /\ i + 1 \in 1 .. n /\ j + 1 \in 1 .. n /\ i + 1 < j + 1
    BY <1>3
  <2>2. s[i + 1] < s[j + 1]
    BY <1>3, <2>1 DEF Increasing
  <2>3. QED
    BY <1>3, <2>1, <2>2
<1>5. Has(s, h)
  <2>1. 1 \in 1 .. Len(s)
    BY <1>3
  <2>2. QED
    BY <1>3, <2>1 DEF Has
<1>6. ~Has(t, h)
  <2> SUFFICES ASSUME NEW i \in 1 .. Len(t), t[i] = h PROVE FALSE
    BY DEF Has
  <2>1. i \in 1 .. n - 1 /\ i + 1 \in 1 .. n /\ 1 \in 1 .. n /\ 1 < i + 1
    BY <1>3
  <2>2. s[1] < s[i + 1] /\ s[1] \in Nat /\ t[i] = s[i + 1]
    BY <1>3, <2>1 DEF Increasing
  <2>3. QED
    BY <1>3, <2>2
<1>7. ASSUME NEW b, Has(s, b), b # h PROVE Has(t, b)
  <2>1. PICK i \in 1 .. Len(s) : s[i] = b
    BY <1>7 DEF Has
  <2>2. i # 1 /\ i - 1 \in 1 .. n - 1 /\ (i - 1) + 1 = i
    BY <1>3, <1>7, <2>1
  <2>3. t[i - 1] = b
    BY <1>3, <2>1, <2>2
  <2>4. QED
    BY <1>3, <2>2, <2>3 DEF Has
<1>8. ASSUME NEW b, Has(t, b) PROVE Has(s, b)
  <2>1. PICK i \in 1 .. Len(t) : t[i] = b
    BY <1>8 DEF Has
  <2>2. i + 1 \in 1 .. Len(s) /\ s[i + 1] = b
    BY <1>3, <2>1
  <2>3. QED
    BY <2>2 DEF Has
<1>9. QED
  BY <1>1, <1>4, <1>5, <1>6, <1>7, <1>8 DEF t, h

LEMMA NothingInEmpty == \A b : ~Has(<<>>, b)
BY DEF Has

(* With more than one bucket, a client waits for a command exactly if the  *)
(* server posts another bucket than 0 for it.                              *)
LEMMA AwaitsFacts ==
  ASSUME Buckets > 1, NEW m \in Messages
  PROVE  /\ Awaits(m) # <<>> => \E b \in Bucket \ {0} : Has(PostsFor(m), b)
         /\ Awaits(m) = <<>> => \A b \in Bucket \ {0} : ~Has(PostsFor(m), b)
         /\ \A b \in Bucket \ {0} : Has(PostsFor(m), b) => Has(Awaits(m), b)
<1>1. CASE m.kind \in {"A", "R"}
  <2> DEFINE k == Hash[m.word]
  <2>1. k \in Bucket
    BY <1>1, MessageFacts
  <2>2. PostsFor(m) = <<k>> /\ Awaits(m) = IF k # 0 THEN <<k>> ELSE <<>>
    BY <1>1 DEF PostsFor, Awaits
  <2> HIDE DEF k
  <2>3. Len(<<k>>) = 1 /\ <<k>>[1] = k /\ <<k>> # <<>>
    OBVIOUS
  <2>4. \A b : Has(<<k>>, b) <=> b = k
    BY <2>3 DEF Has
  <2>5. CASE k = 0
    BY <2>2, <2>4, <2>5
  <2>6. CASE k # 0
    BY <2>1, <2>2, <2>3, <2>4, <2>6
  <2>7. QED
    BY <2>5, <2>6
<1>2. CASE m.kind \in {"C", "P"}
  <2>1. PostsFor(m) = AllBuckets /\ Awaits(m) = AllBuckets
    BY <1>2 DEF PostsFor, Awaits
  <2>2. 1 \in Bucket \ {0}
    BY Constants DEF Bucket
  <2>3. QED
    BY <2>1, <2>2, AllBucketsFacts
<1>3. CASE m.kind = "E"
  <2>1. PostsFor(m) = <<>> /\ Awaits(m) = <<>>
    BY <1>3 DEF PostsFor, Awaits
  <2>2. QED
    BY <2>1, NothingInEmpty
<1>4. QED
  BY <1>1, <1>2, <1>3, MessageFacts

LEMMA QueueFacts ==
  ASSUME QueueTypes
  PROVE  /\ Len(queue) \in Nat /\ DOMAIN queue = 1 .. Len(queue)
         /\ \A i \in 1 .. Len(queue) : queue[i] \in Messages
BY ElementOfSeq DEF QueueTypes

(* The commands in the queue, when one is appended and when one is taken.  *)
LEMMA QueueGrows ==
  ASSUME QueueTypes, NEW m \in Messages, queue' = Append(queue, m)
  PROVE  /\ Len(queue') = Len(queue) + 1 /\ DOMAIN queue' = 1 .. Len(queue) + 1 /\ queue'[Len(queue) + 1] = m
         /\ \A i \in 1 .. Len(queue) : queue'[i] = queue[i]
<1>1. /\ Append(queue, m) \in Seq(Messages) /\ Len(Append(queue, m)) = Len(queue) + 1
      /\ Append(queue, m)[Len(queue) + 1] = m
      /\ \A i \in 1 .. Len(queue) : Append(queue, m)[i] = queue[i]
  BY AppendProperties DEF QueueTypes
<1>2. DOMAIN Append(queue, m) = 1 .. Len(Append(queue, m))
  BY <1>1, LenProperties
<1>3. QED
  BY <1>1, <1>2

LEMMA QueueShrinks ==
  ASSUME QueueTypes, queue # <<>>, queue' = Tail(queue)
  PROVE  /\ Len(queue) \in Nat \ {0} /\ Head(queue) = queue[1] /\ Head(queue) \in Messages
         /\ Len(queue') = Len(queue) - 1 /\ DOMAIN queue' = 1 .. Len(queue) - 1
         /\ \A i \in 1 .. Len(queue) - 1 : queue'[i] = queue[i + 1]
<1>1. /\ Head(queue) \in Messages /\ Tail(queue) \in Seq(Messages) /\ Len(Tail(queue)) = Len(queue) - 1
      /\ \A i \in 1 .. Len(Tail(queue)) : Tail(queue)[i] = queue[i + 1]
  BY HeadTailProperties DEF QueueTypes
<1>2. DOMAIN Tail(queue) = 1 .. Len(Tail(queue)) /\ Len(queue) \in Nat \ {0} /\ Head(queue) = queue[1]
  BY <1>1, LenProperties, EmptySeq DEF QueueTypes
<1>3. QED
  BY <1>1, <1>2

LEMMA FreshStep == Types /\ FreshInv /\ [Next]_vars => FreshInv'
<1> SUFFICES ASSUME Types, FreshInv, [Next]_vars PROVE FreshInv'
  OBVIOUS
<1>0. /\ QueueTypes /\ waits \in [Clients -> Seq(Bucket)] /\ mode \in [Clients -> Modes]
      /\ left \in [Clients -> Nat] /\ prints \in Nat /\ MaxCommands \in Nat
      /\ \A d \in Clients : left[d] <= MaxCommands
  BY TableAssumption DEF Types, ClientTypes, FreshInv
<1>1. ASSUME NEW c \in Clients, NEW m \in MessageOf(c), Send(c, m) PROVE FreshInv'
  <2>a. m.from = c /\ m \in Messages
    BY SentFrom
  <2>1. /\ m \in Messages /\ m.from = c /\ left[c] > 0 /\ queue' = Append(queue, m)
        /\ left' = [left EXCEPT ![c] = left[c] - 1] /\ waits' = [waits EXCEPT ![c] = Awaits(m)]
        /\ mode' = [mode EXCEPT ![c] = IF m.kind = "P" THEN "print" ELSE "command"]
        /\ prints' = IF m.kind = "P" THEN prints + 1 ELSE prints
    BY <1>1, <2>a DEF Send
  <2>2. /\ left'[c] < MaxCommands /\ left'[c] \in Int
        /\ \A d \in Clients : d # c => left'[d] = left[d]
    BY <1>0, <2>1
  <2>3. \A d \in Clients : left'[d] <= MaxCommands /\ (left[d] # MaxCommands => left'[d] # MaxCommands)
    <3> TAKE d \in Clients
    <3>1. CASE d = c
      BY <1>0, <2>2, <3>1
    <3>2. CASE d # c
      BY <1>0, <2>2, <3>2
    <3>3. QED
      BY <3>1, <3>2
  <2>4. \A d \in Clients : left'[d] = MaxCommands => waits'[d] = <<>> /\ mode'[d] = "command"
    BY <1>0, <2>1, <2>2 DEF FreshInv
  <2>5. \A i \in 1 .. Len(queue') : left'[queue'[i].from] # MaxCommands
    <3> TAKE i \in 1 .. Len(queue')
    <3>1. /\ Len(queue') = Len(queue) + 1 /\ queue'[Len(queue) + 1] = m /\ Len(queue) \in Nat
          /\ \A j \in 1 .. Len(queue) : queue'[j] = queue[j] /\ queue[j] \in Messages
      BY <1>0, <2>1, QueueGrows, QueueFacts
    <3>2. CASE i = Len(queue) + 1
      BY <1>0, <2>1, <2>2, <3>1, <3>2
    <3>3. CASE i # Len(queue) + 1
      <4>1. i \in 1 .. Len(queue)
        BY <3>1, <3>3
      <4>2. queue'[i] = queue[i] /\ queue[i].from \in Clients
        BY <3>1, <4>1, MessageFacts
      <4>3. QED
        BY <2>3, <4>1, <4>2 DEF FreshInv
    <3>4. QED
      BY <3>2, <3>3
  <2>6. prints' = 0 => \A d \in Clients : mode'[d] = "command"
    BY <1>0, <2>1 DEF FreshInv
  <2>7. QED
    BY <2>3, <2>4, <2>5, <2>6 DEF FreshInv
<1>2. ASSUME NEW c \in Clients, SemWait(c) \/ PrintBucket(c) PROVE FreshInv'
  <2>1. UNCHANGED <<queue, left, prints>> /\ (waits[c] # <<>> \/ mode[c] # "command")
    BY <1>2 DEF SemWait, PrintBucket
  <2>2. /\ \A d \in Clients : d # c => waits'[d] = waits[d] /\ mode'[d] = mode[d]
        /\ mode[c] = "command" => mode'[c] = "command"
    BY <1>0, <1>2 DEF SemWait, PrintBucket
  <2>3. QED
    BY <1>0, <2>1, <2>2 DEF FreshInv
<1>3. CASE Receive
  <2>1. queue # <<>> /\ queue' = Tail(queue) /\ UNCHANGED <<waits, mode, left, prints>>
    BY <1>3 DEF Receive, clientVars
  <2>2. /\ Len(queue) \in Nat \ {0} /\ Len(queue') = Len(queue) - 1
        /\ \A i \in 1 .. Len(queue) - 1 : queue'[i] = queue[i + 1]
    BY <1>0, <2>1, QueueShrinks
  <2>3. \A i \in 1 .. Len(queue') : left'[queue'[i].from] # MaxCommands
    <3> TAKE i \in 1 .. Len(queue')
    <3>1. i \in 1 .. Len(queue) - 1 /\ i + 1 \in 1 .. Len(queue)
      BY <2>2
    <3>2. QED
      BY <2>1, <2>2, <3>1 DEF FreshInv
  <2>4. QED
    BY <2>1, <2>3 DEF FreshInv
<1>4. CASE SemPost \/ UNCHANGED vars
  <2>1. UNCHANGED <<queue, waits, mode, left, prints>>
    BY <1>4 DEF SemPost, vars, clientVars
  <2>2. QED
    BY <2>1 DEF FreshInv
<1>5. QED
  BY <1>1, <1>2, <1>3, <1>4 DEF Next, Server, Client

LEMMA OrderStep == Types /\ OrderInv /\ [Next]_vars => OrderInv'
<1> SUFFICES ASSUME Types, OrderInv, [Next]_vars PROVE OrderInv'
  OBVIOUS
<1>0. /\ QueueTypes /\ waits \in [Clients -> Seq(Bucket)] /\ posts \in Seq(Bucket)
      /\ \A c \in Clients : mode[c] # "command" => waits[c] # <<>>
  BY DEF Types, ClientTypes, SemTypes
<1>1. ASSUME NEW c \in Clients, NEW m \in MessageOf(c), Send(c, m) PROVE OrderInv'
  <2>1. m \in Messages /\ waits' = [waits EXCEPT ![c] = Awaits(m)] /\ posts' = posts
    BY <1>1 DEF Send, Messages
  <2>2. Increasing(Awaits(m))
    BY <2>1, PostsFacts
  <2>3. QED
    BY <1>0, <2>1, <2>2 DEF OrderInv
<1>2. ASSUME NEW c \in Clients, SemWait(c) \/ PrintBucket(c) PROVE OrderInv'
  <2>1. posts' = posts /\ waits[c] # <<>> /\ (waits' = waits \/ waits' = [waits EXCEPT ![c] = Tail(waits[c])])
    BY <1>0, <1>2 DEF SemWait, PrintBucket
  <2>2. Increasing(Tail(waits[c]))
    BY <1>0, <2>1, TailFacts DEF OrderInv
  <2>3. QED
    BY <1>0, <2>1, <2>2 DEF OrderInv
<1>3. CASE Receive
  <2>1. queue # <<>> /\ posts' = PostsFor(Head(queue)) /\ waits' = waits
    BY <1>3 DEF Receive, clientVars
  <2>2. Head(queue) \in Messages
    BY <1>0, <2>1, HeadTailProperties DEF QueueTypes
  <2>3. QED
    BY <2>1, <2>2, PostsFacts DEF OrderInv
<1>4. CASE SemPost
  <2>1. posts # <<>> /\ posts' = Tail(posts) /\ waits' = waits
    BY <1>4 DEF SemPost, clientVars
  <2>2. QED
    BY <1>0, <2>1, TailFacts DEF OrderInv
<1>5. CASE UNCHANGED vars
  BY <1>5 DEF vars, OrderInv
<1>6. QED
  BY <1>1, <1>2, <1>3, <1>4, <1>5 DEF Next, Server, Client

(* A client that is alone was so before, and nobody but it and the server  *)
(* has moved.                                                              *)
LEMMA LoneMoves ==
  ASSUME Types, FreshInv, [Next]_vars, NEW c \in Clients, Alone(c)', Early(c)'
  PROVE  /\ Alone(c) /\ Early(c)
         /\ \/ Receive \/ SemPost \/ SemWait(c) \/ PrintBucket(c) \/ UNCHANGED vars
            \/ \E m \in MessageOf(c) : Send(c, m)
<1>0. /\ waits \in [Clients -> Seq(Bucket)] /\ mode \in [Clients -> Modes]
      /\ left \in [Clients -> Nat] /\ prints \in Nat /\ MaxCommands \in Nat
      /\ \A d \in Clients : left[d] <= MaxCommands
  BY TableAssumption DEF Types, ClientTypes, FreshInv
<1>1. ASSUME NEW d \in Clients, NEW m \in MessageOf(d), Send(d, m)
      PROVE  d = c /\ Alone(c) /\ Early(c)
  <2>1. /\ left' = [left EXCEPT ![d] = left[d] - 1] /\ left[d] > 0 /\ mode[d] = "command"
        /\ mode' = [mode EXCEPT ![d] = IF m.kind = "P" THEN "print" ELSE "command"]
        /\ prints' = IF m.kind = "P" THEN prints + 1 ELSE prints
    BY <1>1 DEF Send
  <2>2. left'[d] < MaxCommands
    BY <1>0, <2>1
  <2>3. d = c
    BY <1>0, <2>2 DEF Alone
  <2>4. Alone(c)
    BY <1>0, <2>1, <2>3 DEF Alone
  <2>5. Early(c)
    BY <1>0, <2>1, <2>3 DEF Early
  <2>6. QED
    BY <2>3, <2>4, <2>5
<1>2. ASSUME NEW d \in Clients, SemWait(d) \/ PrintBucket(d)
      PROVE  d = c /\ Alone(c) /\ Early(c)
  <2>1. UNCHANGED <<left, prints>> /\ (waits[d] # <<>> \/ mode[d] # "command")
    BY <1>2 DEF SemWait, PrintBucket
  <2>2. Alone(c)
    BY <2>1 DEF Alone
  <2>3. d = c
    BY <2>1, <2>2 DEF Alone, FreshInv
  <2>4. mode[c] = "command" => mode'[c] = "command"
    BY <1>0, <1>2, <2>3 DEF SemWait, PrintBucket
  <2>5. QED
    BY <2>1, <2>2, <2>3, <2>4 DEF Early
<1>3. CASE Receive \/ SemPost \/ UNCHANGED vars
  <2>1. UNCHANGED <<left, prints, mode>>
    BY <1>3 DEF Receive, SemPost, vars, clientVars
  <2>2. QED
    BY <1>3, <2>1 DEF Alone, Early
<1>4. QED
  BY <1>1, <1>2, <1>3 DEF Next, Server, Client

LoneState(c) == Types /\ FreshInv /\ OrderInv /\ Alone(c) /\ InStep(c)

LEMMA LoneSend ==
  ASSUME Buckets > 1, NEW c \in Clients, LoneState(c), NEW m \in MessageOf(c), Send(c, m)
  PROVE  InStep(c)'
<1>0. /\ QueueTypes /\ waits \in [Clients -> Seq(Bucket)] /\ mode \in [Clients -> Modes] /\ InStep(c)
      /\ sem \in [Bucket -> Nat]
  BY DEF LoneState, Types, ClientTypes, SemTypes
<1>a. m \in Messages /\ m.from = c
  BY SentFrom
<1>1. /\ mode[c] = "command" /\ waits[c] = <<>> /\ queue' = Append(queue, m)
      /\ waits'[c] = Awaits(m) /\ mode'[c] # "reading" /\ UNCHANGED <<sem, posts>>
  BY <1>0 DEF Send
<1>2. /\ Len(queue) \in Nat /\ DOMAIN queue' = 1 .. Len(queue) + 1 /\ queue'[Len(queue) + 1] = m
      /\ DOMAIN queue = 1 .. Len(queue) /\ \A i \in 1 .. Len(queue) : queue'[i] = queue[i] /\ queue[i] \in Messages
  BY <1>0, <1>1, <1>a, QueueFacts, QueueGrows
<1>3. Unserved(c) = {}
  <2> SUFFICES ASSUME NEW i \in Unserved(c) PROVE FALSE
    OBVIOUS
  <2>1. queue[i] \in Messages /\ Awaits(queue[i]) # <<>>
    BY <1>2 DEF Unserved
  <2>2. PICK b \in Bucket \ {0} : Has(PostsFor(queue[i]), b)
    BY <2>1, AwaitsFacts
  <2>3. QED
    BY <1>0, <1>1, <2>2, NothingInEmpty DEF InStep, InWaits
<1>4. NoTokens
  BY <1>0, <1>1, NothingInEmpty DEF InStep, Tokens, NoTokens
<1>5. \A i \in Unserved(c)' : i = Len(queue) + 1 /\ queue'[i] = m /\ Awaits(m) # <<>>
  <2> TAKE i \in Unserved(c)'
  <2>1. i \in 1 .. Len(queue) + 1 /\ queue'[i].from = c /\ Awaits(queue'[i]) # <<>>
    BY <1>2 DEF Unserved, Awaits
  <2>2. i = Len(queue) + 1
    <3> SUFFICES ASSUME i # Len(queue) + 1 PROVE FALSE
      OBVIOUS
    <3>1. i \in 1 .. Len(queue)
      BY <1>2, <2>1
    <3>2. i \in Unserved(c)
      BY <1>2, <2>1, <3>1 DEF Unserved
    <3>3. QED
      BY <1>3, <3>2
  <2>3. QED
    BY <1>2, <2>1, <2>2
<1>6. OneUnserved(c)'
  BY <1>5 DEF OneUnserved
<1>7. InWaits(c)'
  <2> SUFFICES ASSUME NEW i \in Unserved(c)', NEW b \in Bucket \ {0}, Has(PostsFor(queue'[i]), b)
               PROVE  Has(waits'[c], b)
    BY DEF InWaits, PostsFor
  <2>1. queue'[i] = m
    BY <1>5
  <2>2. QED
    BY <1>1, <1>a, <2>1, AwaitsFacts
<1>8. NoTokens'
  BY <1>1, <1>4 DEF NoTokens
<1>9. UnservedInv(c)' /\ Tokens(c)'
  BY <1>1, <1>8 DEF UnservedInv, Tokens, NoTokens
<1>10. QED
  BY <1>6, <1>7, <1>9 DEF InStep

(* Waiting and printing leave the queue alone.                             *)
LEMMA SameQueue ==
  ASSUME NEW c \in Clients, queue' = queue
  PROVE  Unserved(c)' = Unserved(c) /\ (OneUnserved(c) => OneUnserved(c)')
BY DEF Unserved, OneUnserved, Awaits

LEMMA LoneWait ==
  ASSUME NEW c \in Clients, LoneState(c), SemWait(c)
  PROVE  InStep(c)'
<1> DEFINE h == Head(waits[c])
<1>0. /\ waits \in [Clients -> Seq(Bucket)] /\ mode \in [Clients -> Modes] /\ InStep(c)
      /\ sem \in [Bucket -> Nat] /\ Increasing(waits[c])
  BY DEF LoneState, Types, ClientTypes, SemTypes, OrderInv
<1>1. /\ waits[c] # <<>> /\ mode[c] # "reading" /\ sem[h] > 0 /\ sem' = [sem EXCEPT ![h] = sem[h] - 1]
      /\ UNCHANGED <<queue, posts>>
      /\ \/ mode[c] = "print" /\ mode'[c] = "reading" /\ waits' = waits
         \/ mode[c] = "command" /\ mode'[c] = "command" /\ waits'[c] = Tail(waits[c])
  BY <1>0 DEF SemWait, Modes
<1>2. /\ h \in Bucket /\ ~Has(Tail(waits[c]), h)
      /\ \A b : Has(waits[c], b) /\ b # h => Has(Tail(waits[c]), b)
  BY <1>0, <1>1, TailFacts
<1>3. Unserved(c)' = Unserved(c) /\ OneUnserved(c)'
  BY <1>0, <1>1, SameQueue DEF InStep
<1> HIDE DEF h
<1>4. sem'[h] = sem[h] - 1 /\ \A b \in Bucket : b # h => sem'[b] = sem[b]
  BY <1>0, <1>1, <1>2
<1>5. Unserved(c) # {} => h = 0 /\ NoTokens
  BY <1>0, <1>1, <1>2 DEF InStep, UnservedInv, NoTokens
<1>6. InWaits(c)'
  <2> SUFFICES ASSUME NEW i \in Unserved(c), NEW b \in Bucket \ {0}, Has(PostsFor(queue[i]), b)
               PROVE  Has(waits'[c], b)
    BY <1>1, <1>3 DEF InWaits, PostsFor
  <2>1. Has(waits[c], b) /\ b # h
    BY <1>0, <1>5 DEF InStep, InWaits
  <2>2. QED
    BY <1>1, <1>2, <2>1
<1>7. UnservedInv(c)'
  <2> SUFFICES ASSUME Unserved(c) # {} PROVE NoTokens' /\ (mode'[c] = "reading" => Head(waits'[c]) = 0)
    BY <1>3 DEF UnservedInv
  <2>1. NoTokens'
    BY <1>1, <1>4, <1>5 DEF NoTokens
  <2>2. QED
    BY <1>1, <1>5, <2>1 DEF h
<1>8. Tokens(c)'
  <2> SUFFICES ASSUME mode'[c] = "command", NEW b \in Bucket \ {0}
               PROVE  /\ sem'[b] \in {0, 1}
                      /\ sem'[b] = 1 => ~Has(posts', b) /\ Has(waits'[c], b)
                      /\ Has(posts', b) => Has(waits'[c], b)
    BY DEF Tokens
  <2>1. mode[c] = "command" /\ waits'[c] = Tail(waits[c]) /\ posts' = posts
    BY <1>1
  <2>2. /\ sem[b] \in {0, 1}
        /\ sem[b] = 1 => ~Has(posts, b) /\ Has(waits[c], b)
        /\ Has(posts, b) => Has(waits[c], b)
    BY <1>0, <2>1 DEF InStep, Tokens
  <2>3. CASE b = h
    BY <1>1, <1>4, <2>1, <2>2, <2>3
  <2>4. CASE b # h
    BY <1>2, <1>4, <2>1, <2>2, <2>4
  <2>5. QED
    BY <2>3, <2>4
<1>9. QED
  BY <1>3, <1>6, <1>7, <1>8 DEF InStep

LEMMA LonePrint ==
  ASSUME NEW c \in Clients, LoneState(c), PrintBucket(c), Early(c)'
  PROVE  InStep(c)'
<1> DEFINE h == Head(waits[c])
<1>0. /\ waits \in [Clients -> Seq(Bucket)] /\ mode \in [Clients -> Modes] /\ InStep(c)
      /\ sem \in [Bucket -> Nat] /\ Increasing(waits[c]) /\ FreshInv
      /\ (mode[c] # "command" => waits[c] # <<>>)
  BY DEF LoneState, Types, ClientTypes, SemTypes, OrderInv
<1>1. /\ mode[c] = "reading" /\ waits[c] # <<>> /\ sem' = [sem EXCEPT ![h] = sem[h] + 1]
      /\ UNCHANGED <<queue, posts, prints>> /\ waits'[c] = Tail(waits[c])
      /\ mode'[c] # "reading"
  BY <1>0 DEF PrintBucket
<1>2. h \in Bucket /\ \A b : Has(waits[c], b) /\ b # h => Has(Tail(waits[c]), b)
  BY <1>0, <1>1, TailFacts
<1>3. Unserved(c)' = Unserved(c) /\ OneUnserved(c)'
  BY <1>0, <1>1, SameQueue DEF InStep
<1>4. Unserved(c) # {} => h = 0 /\ NoTokens
  BY <1>0, <1>1 DEF InStep, UnservedInv
<1> HIDE DEF h
<1>5. InWaits(c)'
  <2> SUFFICES ASSUME NEW i \in Unserved(c), NEW b \in Bucket \ {0}, Has(PostsFor(queue[i]), b)
               PROVE  Has(waits'[c], b)
    BY <1>1, <1>3 DEF InWaits, PostsFor
  <2>1. Has(waits[c], b) /\ b # h
    BY <1>0, <1>4 DEF InStep, InWaits
  <2>2. QED
    BY <1>1, <1>2, <2>1
<1>6. UnservedInv(c)'
  BY <1>0, <1>1, <1>2, <1>3, <1>4 DEF UnservedInv, NoTokens
<1>7. Tokens(c)'
  BY <1>0, <1>1 DEF Tokens, Early, FreshInv
<1>8. QED
  BY <1>3, <1>5, <1>6, <1>7 DEF InStep

LEMMA LonePost ==
  ASSUME NEW c \in Clients, LoneState(c), SemPost
  PROVE  InStep(c)'
<1> DEFINE h == Head(posts)
<1>0. posts \in Seq(Bucket) /\ Increasing(posts) /\ InStep(c) /\ sem \in [Bucket -> Nat]
  BY DEF LoneState, Types, SemTypes, OrderInv
<1>1. /\ posts # <<>> /\ sem' = [sem EXCEPT ![h] = sem[h] + 1] /\ posts' = Tail(posts)
      /\ UNCHANGED <<queue, waits, mode>>
  BY DEF SemPost, clientVars
<1>2. /\ h \in Bucket /\ Has(posts, h) /\ ~Has(posts', h)
      /\ \A b : Has(posts', b) => Has(posts, b)
  BY <1>0, <1>1, TailFacts
<1>3. Unserved(c)' = Unserved(c) /\ OneUnserved(c)'
  BY <1>0, <1>1, SameQueue DEF InStep
<1> HIDE DEF h
<1>4. sem'[h] = sem[h] + 1 /\ \A b \in Bucket : b # h => sem'[b] = sem[b]
  BY <1>0, <1>1, <1>2
<1>5. InWaits(c)'
  BY <1>0, <1>1, <1>3 DEF InStep, InWaits, PostsFor
<1>6. UnservedInv(c)'
  BY <1>0, <1>1, <1>2, <1>3, <1>4 DEF InStep, UnservedInv, NoTokens
<1>7. Tokens(c)'
  <2> SUFFICES ASSUME mode[c] = "command", NEW b \in Bucket \ {0}
               PROVE  /\ sem'[b] \in {0, 1}
                      /\ sem'[b] = 1 => ~Has(posts', b) /\ Has(waits[c], b)
                      /\ Has(posts', b) => Has(waits[c], b)
    BY <1>1 DEF Tokens
  <2>1. /\ sem[b] \in {0, 1}
        /\ sem[b] = 1 => ~Has(posts, b) /\ Has(waits[c], b)
        /\ Has(posts, b) => Has(waits[c], b)
    BY <1>0 DEF InStep, Tokens
  <2>2. CASE b = h
    BY <1>2, <1>4, <2>1, <2>2
  <2>3. CASE b # h
    BY <1>2, <1>4, <2>1, <2>3
  <2>4. QED
    BY <2>2, <2>3
<1>8. QED
  BY <1>3, <1>5, <1>6, <1>7 DEF InStep

LEMMA LoneReceive ==
  ASSUME Buckets > 1, NEW c \in Clients, LoneState(c), Receive
  PROVE  InStep(c)'
<1> DEFINE m == Head(queue)
<1>0. QueueTypes /\ InStep(c) /\ FreshInv /\ Alone(c)
  BY DEF LoneState, Types
<1>1. /\ queue # <<>> /\ queue' = Tail(queue) /\ posts = <<>> /\ posts' = PostsFor(m)
      /\ UNCHANGED <<sem, waits, mode>>
  BY DEF Receive, clientVars
<1>2. /\ Len(queue) \in Nat \ {0} /\ m = queue[1] /\ m \in Messages /\ DOMAIN queue' = 1 .. Len(queue) - 1
      /\ \A i \in 1 .. Len(queue) - 1 : queue'[i] = queue[i + 1]
  BY <1>0, <1>1, QueueShrinks
<1>3. DOMAIN queue = 1 .. Len(queue)
  BY <1>0, QueueFacts
<1>4. m.from = c
  <2>1. 1 \in 1 .. Len(queue) /\ m.from \in Clients
    BY <1>2, MessageFacts
  <2>2. QED
    BY <1>0, <1>2, <2>1 DEF FreshInv, Alone
<1>5. \A i \in Unserved(c)' : i \in Nat \ {0} /\ i + 1 \in Unserved(c) /\ queue'[i] = queue[i + 1]
  <2> TAKE i \in Unserved(c)'
  <2>1. i \in 1 .. Len(queue) - 1 /\ queue'[i].from = c /\ Awaits(queue'[i]) # <<>>
    BY <1>2 DEF Unserved, Awaits
  <2>2. i + 1 \in 1 .. Len(queue) /\ queue'[i] = queue[i + 1]
    BY <1>2, <2>1
  <2>3. QED
    BY <1>3, <2>1, <2>2 DEF Unserved
<1> HIDE DEF m
<1>6. CASE Awaits(m) = <<>>
  <2>1. \A b \in Bucket \ {0} : ~Has(posts', b)
    BY <1>1, <1>2, <1>6, AwaitsFacts
  <2>2. OneUnserved(c)'
    <3> SUFFICES ASSUME NEW i \in Unserved(c)', NEW j \in Unserved(c)' PROVE i = j
      BY DEF OneUnserved
    <3>1. i \in Nat /\ j \in Nat /\ i + 1 = j + 1
      BY <1>0, <1>5 DEF InStep, OneUnserved
    <3>2. QED
      BY <3>1
  <2>3. InWaits(c)'
    <3> SUFFICES ASSUME NEW i \in Unserved(c)', NEW b \in Bucket \ {0}, Has(PostsFor(queue'[i]), b)
                 PROVE  Has(waits[c], b)
      BY <1>1 DEF InWaits, PostsFor
    <3>1. i + 1 \in Unserved(c) /\ queue'[i] = queue[i + 1]
      BY <1>5
    <3>2. QED
      BY <1>0, <3>1 DEF InStep, InWaits
  <2>4. UnservedInv(c)' /\ Tokens(c)'
    <3>1. Unserved(c)' # {} => Unserved(c) # {}
      BY <1>5
    <3>2. QED
      BY <1>0, <1>1, <2>1, <3>1 DEF InStep, UnservedInv, NoTokens, Tokens
  <2>5. QED
    BY <2>2, <2>3, <2>4 DEF InStep
<1>7. CASE Awaits(m) # <<>>
  <2>1. 1 \in Unserved(c)
    BY <1>2, <1>3, <1>4, <1>7 DEF Unserved
  <2>2. Unserved(c)' = {}
    <3> SUFFICES ASSUME NEW i \in Unserved(c)' PROVE FALSE
      OBVIOUS
    <3>1. i \in Nat \ {0} /\ i + 1 = 1
      BY <1>0, <1>5, <2>1 DEF InStep, OneUnserved
    <3>2. QED
      BY <3>1
  <2>3. \A b \in Bucket \ {0} : sem'[b] = 0 /\ (Has(posts', b) => Has(waits[c], b))
    BY <1>0, <1>1, <1>2, <2>1 DEF InStep, UnservedInv, NoTokens, InWaits
  <2>4. Tokens(c)'
    BY <1>1, <2>3 DEF Tokens
  <2>5. QED
    BY <2>2, <2>4 DEF InStep, OneUnserved, InWaits, UnservedInv
<1>8. QED
  BY <1>6, <1>7

LEMMA LoneStep ==
  ASSUME Buckets > 1
  PROVE  Types /\ FreshInv /\ OrderInv /\ LoneInv /\ [Next]_vars => LoneInv'
<1> SUFFICES ASSUME Types, FreshInv, OrderInv, LoneInv, [Next]_vars,
                    NEW c \in Clients, Alone(c)', Early(c)'
             PROVE  InStep(c)'
  BY DEF LoneInv
<1>1. /\ Alone(c) /\ Early(c)
      /\ \/ Receive \/ SemPost \/ SemWait(c) \/ PrintBucket(c) \/ UNCHANGED vars
         \/ \E m \in MessageOf(c) : Send(c, m)
  BY LoneMoves
<1>2. LoneState(c)
  BY <1>1 DEF LoneInv, LoneState
<1>3. CASE Receive
  BY <1>2, <1>3, LoneReceive
<1>4. CASE SemPost
  BY <1>2, <1>4, LonePost
<1>5. CASE SemWait(c)
  BY <1>2, <1>5, LoneWait
<1>6. CASE PrintBucket(c)
  BY <1>2, <1>6, LonePrint
<1>7. ASSUME NEW m \in MessageOf(c), Send(c, m) PROVE InStep(c)'
  BY <1>2, <1>7, LoneSend
<1>8. CASE UNCHANGED vars
  <2>1. UNCHANGED <<queue, sem, posts, waits, mode>> /\ InStep(c)
    BY <1>2, <1>8 DEF vars, LoneState
  <2>2. Unserved(c)' = Unserved(c) /\ OneUnserved(c)'
    BY <2>1, SameQueue DEF InStep
  <2>3. InWaits(c)' /\ UnservedInv(c)' /\ Tokens(c)'
    BY <2>1, <2>2 DEF InStep, InWaits, UnservedInv, Tokens, NoTokens, PostsFor
  <2>4. QED
    BY <2>2, <2>3 DEF InStep
<1>9. QED
  BY <1>1, <1>3, <1>4, <1>5, <1>6, <1>7, <1>8

LEMMA LoneInit == Init => FreshInv /\ OrderInv /\ LoneInv
<1> SUFFICES ASSUME Init PROVE FreshInv /\ OrderInv /\ LoneInv
  OBVIOUS
<1>1. /\ queue = <<>> /\ posts = <<>> /\ prints = 0 /\ sem = [b \in Bucket |-> 0]
      /\ waits = [c \in Clients |-> <<>>] /\ mode = [c \in Clients |-> "command"]
      /\ left = [c \in Clients |-> MaxCommands] /\ MaxCommands \in Nat
  BY TableAssumption DEF Init, Bucket
<1>2. FreshInv
  BY <1>1 DEF FreshInv
<1>3. OrderInv
  BY <1>1 DEF OrderInv, Increasing
<1>4. ASSUME NEW c \in Clients PROVE InStep(c)
  <2>1. Unserved(c) = {}
    BY <1>1 DEF Unserved
  <2>2. Tokens(c)
    BY <1>1, NothingInEmpty DEF Tokens
  <2>3. QED
    BY <2>1, <2>2 DEF InStep, OneUnserved, InWaits, UnservedInv
<1>5. QED
  BY <1>2, <1>3, <1>4 DEF LoneInv

LEMMA LoneMeans ==
  ASSUME Buckets > 1, Types, LoneInv
  PROVE  LoneClientInStep
<1>0. QueueTypes
  BY DEF Types
<1>1. ASSUME NEW c \in Clients, Alone(c), prints = 0, waits[c] = <<>>, NEW i \in Unserved(c)
      PROVE  FALSE
  <2>1. InWaits(c)
    BY <1>1 DEF LoneInv, Early, InStep
  <2>2. queue[i] \in Messages /\ Awaits(queue[i]) # <<>>
    BY <1>0, QueueFacts DEF Unserved
  <2>3. PICK b \in Bucket \ {0} : Has(PostsFor(queue[i]), b)
    BY <2>2, AwaitsFacts
  <2>4. Has(<<>>, b)
    BY <1>1, <2>1, <2>3 DEF InWaits
  <2>5. QED
    BY <2>4, NothingInEmpty
<1>2. ASSUME NEW c \in Clients, mode[c] = "reading", Alone(c), prints = 1, Head(waits[c]) # 0
      PROVE  Unserved(c) = {}
  BY <1>2 DEF LoneInv, Early, InStep, UnservedInv
<1>3. WaitsForServer
  BY <1>1 DEF WaitsForServer
<1>4. ReadsSettled
  BY <1>2 DEF ReadsSettled
<1>5. QED
  BY <1>3, <1>4 DEF LoneClientInStep

(* With more than one bucket (there are 256), a client that is alone and   *)
(* has not printed before is in step with the server, for any words, hash  *)
(* function and length of the queue: a command whose semaphores it has     *)
(* waited for has left the queue, and when it reads a bucket other than 0  *)
(* none of its commands is on the way to change it.                        *)
THEOREM LoneClientIsInStep == Buckets > 1 => (Spec => []LoneClientInStep)
<1> SUFFICES ASSUME Buckets > 1 PROVE Spec => []LoneClientInStep
  OBVIOUS
<1>1. Init => Types /\ FreshInv /\ OrderInv /\ LoneInv
  BY InitTypes, LoneInit
<1>2. Types /\ FreshInv /\ OrderInv /\ LoneInv /\ [Next]_vars
      => (Types /\ FreshInv /\ OrderInv /\ LoneInv)'
  BY TypesStep, FreshStep, OrderStep, LoneStep
<1>3. Types /\ LoneInv => LoneClientInStep
  BY LoneMeans
<1>4. QED
  BY <1>1, <1>2, <1>3, PTL DEF Spec
=============================================================================
