----------------------- MODULE DepartmentServerProofs -----------------------
(***************************************************************************)
(* The department server and the authorization server, for any clients,    *)
(* connections, files, numbers of commands, bans and stops:                *)
(*   - the list of uploads names stored files only, and the list in memory *)
(*     extends the one in __upload_list.bin;                               *)
(*   - a confirmed upload is in __upload_list.bin, unless the list was     *)
(*     written by two handlers at once or cut;                             *)
(*   - a handler is started only for a client of sufficient priority whose *)
(*     bans before the server's question are not among the first of the    *)
(*     list, unless two threads were at the files of the bans.             *)
(*                                                                         *)
(* The invariant comes in layers, each proved with the ones above it:      *)
(* Types, Sessions, then Files, Requests and Grants for the verdicts, and  *)
(* Stores and Saves for the list.                                          *)
(***************************************************************************)
EXTENDS DepartmentServer, SequenceTheorems, TLAPS

UploadMessage == [cmd : {"upload"}, file : Names, data : Uploads, size : Nat]
OtherMessage == [cmd : {"none", "quit", "list", "download"}, file : Names, data : {"none"}, size : Nat]
Message == UploadMessage \cup OtherMessage
Busy == {"file", "record", "open", "write"}

MainState ==
    [pc : {"idle", "check1", "check2", "check3", "ban1", "ban2", "ban3", "ban4", "ban5", "ban6", "reply"},
     request : Request, answer : {"ALLOWED", "DENIED", "ERROR", "OK", NoAnswer}]
TimerState == [pc : {"set", "t2", "t3", "t4", "t5", "t6", "t7", "over"}, client : Clients]
QueuedRequest == [from : Callers, kind : {"BAN", "CHECK"}, client : Clients]

AuthTypes ==
    /\ serverLevel \in 0..3 /\ auth \in {"off", "up", "dead"}
    /\ enc \in File /\ dec \in File
    /\ main \in MainState
    /\ timers \in Seq(TimerState)
    /\ requests \in Seq(QueuedRequest)
    /\ answers \in [Callers -> {"ALLOWED", "DENIED", "ERROR", "OK", "null", NoAnswer}]
    /\ banned \in Seq(Clients) /\ lossy \in BOOLEAN

AccState == [pc : {"accept", "ask"}, conn : Connections, known : Nat]
Word == {"DENIED", "quit", "part of a list"}
LinkTypes ==
    /\ backlog \in Seq(Connections)
    /\ acc \in AccState
    /\ conn \in [Connections -> {"new", "off", "queued", "open", "closed"}]
    /\ toServer \in [Connections -> Seq(Message)]
    /\ toClient \in [Connections -> Seq(Word)]

(* Between reading an upload and writing the list a handler works on that  *)
(* upload, and only a server that runs has handlers.                       *)
HandlerTypes ==
    /\ work \subseteq Uploads \cup {"crash"} \cup Connections
    /\ server \in {"down", "failed", "up", "deaf"}
    /\ hpc \in [Connections -> {"off", "read", "list", "ban", "reply"} \cup Busy]
    /\ arg \in [Connections -> Message]
    /\ \A c \in Connections : /\ hpc[c] \in Busy => arg[c] \in UploadMessage
                              /\ hpc[c] # "off" => server \in {"up", "deaf"}

ListTypes ==
    /\ uploadedFiles \in Seq(ListOpRecord) /\ upload_list \in Seq(ListOpRecord)
    /\ disk \in [Names -> {"absent", "empty", "short", "long", "mixed"}]
    /\ torn \in BOOLEAN

Types == AuthTypes /\ LinkTypes /\ HandlerTypes /\ ListTypes

(* A connection waits for its verdict once, and has no handler meanwhile.  *)
Asking(c) == acc.pc = "ask" /\ acc.conn = c
InQueue == \A i \in 1..Len(backlog) : conn[backlog[i]] = "queued" /\ ~Asking(backlog[i])
QueuedOnce == \A i, j \in 1..Len(backlog) : backlog[i] = backlog[j] => i = j
InQuestion == acc.pc = "ask" => conn[acc.conn] = "queued"
Unserved == \A c \in Connections : conn[c] \in {"new", "queued"} => hpc[c] = "off" /\ toClient[c] = <<>>
Sessions == InQueue /\ QueuedOnce /\ InQuestion /\ Unserved

---------------------------------------------------------------------------
(* A request that is queued or served has not been answered, there is one  *)
(* per caller, and the caller is still waiting for it.                     *)
Awaits(r) ==
    /\ answers[r.from] = NoAnswer
    /\ r.kind = "CHECK" => r.from = "accept" /\ acc.pc = "ask" /\ r.client = User[acc.conn]
    /\ r.kind = "BAN" => r.from \in Connections /\ hpc[r.from] = "ban"
Banning == main.pc \in {"ban1", "ban2", "ban3", "ban4", "ban5", "ban6"}
Checking == main.pc \in {"check1", "check2", "check3"}
Serving == main.pc # "idle" /\ main.request.from # "nobody"

QueueAwaits == \A i \in 1..Len(requests) : Awaits(requests[i])
QueueDistinct == \A i, j \in 1..Len(requests) : requests[i].from = requests[j].from => i = j
MainAwaits == Serving => Awaits(main.request)
MainDistinct == Serving => \A i \in 1..Len(requests) : requests[i].from # main.request.from
KindsFit == (Banning => main.request.kind = "BAN") /\ (Checking => main.request.kind = "CHECK")
AnswerTaken == acc.pc # "ask" => answers["accept"] = NoAnswer
AnswersTaken == \A c \in Connections : hpc[c] # "ban" => answers[c] = NoAnswer
Requests ==
    QueueAwaits /\ QueueDistinct /\ MainAwaits /\ MainDistinct /\ KindsFit /\ AnswerTaken /\ AnswersTaken

(* As long as the threads of the authorization server take turns, one at   *)
(* most is between two file operations, and the list of bans is in the     *)
(* encrypted file, or in the decrypted one while the encrypted file is     *)
(* being replaced.                                                         *)
TimerAt(S) == \E i \in 1..Len(timers) : timers[i].pc \in S
Holds(f) == f = Holding(banned)
Adds(f) == f = Holding(Append(banned, Named))
Orderly == auth # "dead" /\ ~lossy

Turns == \A i \in 1..Len(timers) : TimerBusy(i) => ~MainBusy /\ \A j \in 1..Len(timers) : TimerBusy(j) => j = i
EncHolds == main.pc \in {"ban4", "ban5", "ban6"} \/ TimerAt({"t4", "t5", "t6"}) \/ Holds(enc)
DecHolds == main.pc \in {"check2", "ban2"} \/ TimerAt({"t2", "t3", "t4", "t5", "t6"}) => Holds(dec)
EncDeleted == main.pc = "ban4" \/ TimerAt({"t4"}) => ~enc.there
NameAdded == (main.pc \in {"ban3", "ban4", "ban5"} => Adds(dec)) /\ (main.pc = "ban6" => Adds(enc))
Files == Orderly => Turns /\ EncHolds /\ DecHolds /\ EncDeleted /\ NameAdded

(* A connection that is found allowed is one of a client with the priority *)
(* and without an early ban from before the question.                      *)
KnownBanned(u) == \E i \in 1..acc.known : i <= Fits /\ banned[i] = u
Fit == Level[User[acc.conn]] >= serverLevel /\ (lossy \/ ~KnownBanned(User[acc.conn]))
KnownFit == acc.known <= Len(banned)
CheckedFit == Checking => Level[Named] >= serverLevel
AllowedFit ==
    Serving /\ main.pc \in {"check3", "reply"} /\ main.answer = "ALLOWED" => Fit /\ main.request.kind = "CHECK"
VerdictFit == answers["accept"] = "ALLOWED" => Fit
Grants == KnownFit /\ CheckedFit /\ AllowedFit /\ VerdictFit

---------------------------------------------------------------------------
(* The lists.                                                              *)
Kept(f) == disk[f] \in {"short", "long", "mixed"}
MemoryStored == \A i \in 1..Len(uploadedFiles) : Kept(uploadedFiles[i].numeFisier)
FileStored == \A i \in 1..Len(upload_list) : Kept(upload_list[i].numeFisier)
RecordStored == \A c \in Connections : hpc[c] = "record" => Kept(arg[c].file)
SizeFits == \A c \in Connections : hpc[c] = "write" => arg[c].size <= Len(uploadedFiles)
MemoryExtendsFile ==
    server \in {"up", "deaf"} => /\ Len(upload_list) <= Len(uploadedFiles)
                                 /\ \A i \in 1..Len(upload_list) : upload_list[i] = uploadedFiles[i]
Stores == MemoryStored /\ FileStored /\ RecordStored /\ SizeFits /\ MemoryExtendsFile

(* What is confirmed, or about to be, is in __upload_list.bin, or in the   *)
(* part of the list that is being written to it.                           *)
RecordOf(c) == [numeFisier |-> arg[c].file, idProprietar |-> User[c]]
Claimed(r) == r \in acked \/ \E c \in Connections : hpc[c] = "reply" /\ arg[c].cmd = "upload" /\ r = RecordOf(c)
Among(r, list, n) == \E i \in 1..n : list[i] = r
NoWriter == \A c \in Connections : hpc[c] # "write"

OpenListed == \A c \in Connections : hpc[c] = "open" => Among(RecordOf(c), uploadedFiles, Len(uploadedFiles))
WriteListed == \A c \in Connections : hpc[c] = "write" => Among(RecordOf(c), uploadedFiles, arg[c].size)
OneWriter == ~torn => \A c, d \in Connections : hpc[c] = "write" /\ hpc[d] = "write" => c = d
ClaimsSaved == ~torn /\ NoWriter => \A r : Claimed(r) => Among(r, upload_list, Len(upload_list))
ClaimsWritten ==
    ~torn => \A c \in Connections : hpc[c] = "write" => \A r : Claimed(r) => Among(r, uploadedFiles, arg[c].size)
Saves == OpenListed /\ WriteListed /\ OneWriter /\ ClaimsSaved /\ ClaimsWritten

---------------------------------------------------------------------------
(* Types. *)

(* The placeholders are a message and a request.                           *)
LEMMA Placeholders ==
  /\ NoArg \in OtherMessage
  /\ NoRequest \in Request /\ NoOne \in AccState
<1>1. /\ (CHOOSE f \in Names : TRUE) \in Names /\ (CHOOSE c \in Clients : TRUE) \in Clients
      /\ (CHOOSE c \in Connections : TRUE) \in Connections
  BY ServerAssumption, ClientsAssumption
<1>2. QED
  BY <1>1 DEF NoArg, OtherMessage, NoRequest, Request, Callers, NoOne, AccState

(* The contents that the two files are given.                              *)
LEMMA FileValues == Absent \in File /\ Raw \in File
BY DEF File, Absent, Raw, Holding

(* A function on 1..n is a sequence.                                       *)
LEMMA FunctionIsSeq ==
  ASSUME NEW S, NEW n \in Nat, NEW f \in [1..n -> S]
  PROVE  f \in Seq(S)
BY SeqDef

(* The elements of a sequence that has grown.                              *)
Extends(t, s, e) == /\ Len(s) \in Nat /\ Len(t) = Len(s) + 1
                    /\ \A i \in 1..Len(s) : t[i] = s[i]
                    /\ t[Len(s) + 1] = e
LEMMA Grown ==
  ASSUME NEW S, NEW s \in Seq(S), NEW e \in S, NEW t, t = Append(s, e)
  PROVE  Extends(t, s, e)
BY AppendProperties DEF Extends

(* The elements of a sequence without its first one.                       *)
LEMMA Shortened ==
  ASSUME NEW S, NEW s \in Seq(S), s # <<>>
  PROVE  /\ Len(s) \in Nat /\ Len(Tail(s)) = Len(s) - 1 /\ Head(s) = s[1] /\ 1 \in 1..Len(s)
         /\ \A i \in 1..Len(Tail(s)) : i + 1 \in 1..Len(s) /\ i + 1 # 1 /\ Tail(s)[i] = s[i + 1]
<1>1. /\ Len(s) \in Nat /\ Len(Tail(s)) = Len(s) - 1 /\ Head(s) = s[1]
      /\ \A i \in 1..Len(Tail(s)) : Tail(s)[i] = s[i + 1]
  BY HeadTailProperties
<1>2. Len(s) # 0
  BY EmptySeq
<1>3. QED
  BY <1>1, <1>2

(* A step of a timer changes the place of that timer only.                 *)
LEMMA TimerMoves ==
  ASSUME timers \in Seq(TimerState), NEW i \in DOMAIN timers,
         NEW pc \in {"t2", "t3", "t4", "t5", "t6", "t7", "over"}, TimerGoes(i, pc)
  PROVE  /\ timers' \in Seq(TimerState) /\ Len(timers') = Len(timers)
         /\ i \in 1..Len(timers) /\ timers'[i].pc = pc
         /\ \A j \in 1..Len(timers) : j # i => timers'[j] = timers[j]
<1> DEFINE t == [timers[i] EXCEPT !.pc = pc]
<1>1. i \in 1..Len(timers)
  BY LenProperties
<1>2. timers[i] \in TimerState
  BY <1>1, ElementOfSeq
<1>3. t \in TimerState /\ t.pc = pc
  BY <1>2 DEF TimerState
<1>4. timers' = [timers EXCEPT ![i] = t]
  BY DEF TimerGoes
<1>5. /\ timers' \in Seq(TimerState) /\ Len(timers') = Len(timers)
      /\ \A j \in 1..Len(timers) : timers'[j] = IF j = i THEN t ELSE timers[j]
  <2> HIDE DEF t
  <2>1. QED
    BY <1>1, <1>3, <1>4, ExceptSeq
<1>6. QED
  BY <1>1, <1>3, <1>5

(* The initial state has its types.                                        *)
LEMMA InitTypes == Init => Types
<1> SUFFICES ASSUME Init PROVE Types
  OBVIOUS
<1>1. main \in MainState
  BY Placeholders DEF Init, AuthInit, MainState
<1>2. enc \in File /\ dec \in File
  BY FileValues DEF Init, AuthInit
<1>3. AuthTypes
  BY <1>1, <1>2, LevelAssumption DEF Init, AuthInit, AuthTypes
<1>4. LinkTypes
  <2>1. acc \in AccState
    BY Placeholders DEF Init
  <2>2. toServer \in [Connections -> Seq(Message)]
    BY EmptySeq DEF Init
  <2>3. toClient \in [Connections -> Seq(Word)]
    BY EmptySeq DEF Init
  <2>4. QED
    BY <2>1, <2>2, <2>3, EmptySeq DEF Init, LinkTypes
<1>5. HandlerTypes
  <2>1. work \subseteq Uploads \cup {"crash"} \cup Connections /\ server = "down" /\ hpc = [c \in Connections |-> "off"]
    BY ServerAssumption DEF Init, Uploads
  <2>2. arg \in [Connections -> Message]
    BY Placeholders DEF Init, Message
  <2>3. QED
    BY <2>1, <2>2 DEF HandlerTypes, Busy
<1>6. ListTypes
  BY EmptySeq DEF Init, ListTypes
<1>7. QED
  BY <1>3, <1>4, <1>5, <1>6 DEF Types

(* What the authorization server does leaves its state well formed.        *)
LEMMA AuthNextTypes == AuthTypes /\ AuthNext => AuthTypes'
<1> SUFFICES ASSUME AuthTypes, AuthNext PROVE AuthTypes'
  OBVIOUS
<1> USE DEF AuthTypes, files
<1>0. /\ Absent \in File /\ Raw \in File /\ Named \in Clients
      /\ \A f \in File : Holding(Append(f.names, Named)) \in File
  BY DEF File, Absent, Raw, Holding, Named, MainState, Request
<1>1. CASE auth_start
  BY <1>1 DEF auth_start
<1>2. CASE auth_dies
  <2>1. main' \in MainState
    BY <1>2, Placeholders DEF auth_dies, MainState
  <2>2. timers' \in [1..Len(timers) -> TimerState]
    <3>1. DOMAIN timers = 1..Len(timers) /\ \A i \in 1..Len(timers) : timers[i] \in TimerState
      BY LenProperties, ElementOfSeq
    <3>2. \A i \in 1..Len(timers) : [timers[i] EXCEPT !.pc = "over"] \in TimerState
      BY <3>1 DEF TimerState
    <3>3. QED
      BY <1>2, <3>1, <3>2 DEF auth_dies
  <2>3. QED
    BY <1>2, <2>1, <2>2, FunctionIsSeq DEF auth_dies
<1>3. CASE processRequest
  <2>1. Head(requests) \in QueuedRequest /\ Tail(requests) \in Seq(QueuedRequest)
    BY <1>3 DEF processRequest
  <2>2. Head(requests) \in Request /\ FirstStep(Head(requests)) \in {"ban1", "check1", "reply"}
    BY <2>1 DEF FirstStep, Request, QueuedRequest
  <2>3. main' \in MainState
    BY <1>3, <2>2 DEF processRequest, MainState
  <2>4. QED
    BY <1>3, <2>1, <2>3 DEF processRequest
<1>4. CASE reply
  <2>1. main' \in MainState
    BY <1>4, Placeholders DEF reply, MainState
  <2>2. answers' \in [Callers -> {"ALLOWED", "DENIED", "ERROR", "OK", "null", NoAnswer}]
    BY <1>4 DEF reply, MainState
  <2>3. QED
    BY <1>4, <2>1, <2>2 DEF reply
<1>5. CASE isBanned_decrypt \/ isBanned_look \/ isBanned_delete
  <2>1. main' \in MainState
    BY <1>5 DEF isBanned_decrypt, isBanned_look, isBanned_delete, MainGoes, MainAnswers, MainState
  <2>2. QED
    BY <1>0, <1>5, <2>1 DEF isBanned_decrypt, isBanned_look, isBanned_delete, MainGoes, MainAnswers
<1>6. CASE ban_decrypt \/ ban_append \/ ban_delete \/ ban_create \/ ban_encrypt \/ ban_clean
  <2> USE <1>6 DEF ban_decrypt, ban_append, ban_delete, ban_create, ban_encrypt, ban_clean, BanEnds, BanGoes, MainGoes, MainAnswers
  <2>1. main' \in MainState
    BY DEF MainState
  <2>2. [pc |-> "set", client |-> Named] \in TimerState
    BY <1>0 DEF TimerState
  <2>3. timers' \in Seq(TimerState) /\ banned' \in Seq(Clients)
    <3>1. timers \in Seq(TimerState) /\ banned \in Seq(Clients)
      OBVIOUS
    <3>2. Append(timers, [pc |-> "set", client |-> Named]) \in Seq(TimerState) /\ Append(banned, Named) \in Seq(Clients)
      BY <1>0, <2>2, <3>1, AppendProperties
    <3>3. QED
      BY <3>2
  <2>4. QED
    BY <1>0, <2>1, <2>3
<1>7. ASSUME NEW i \in DOMAIN timers, BannedTimerTask(i) PROVE AuthTypes'
  <2> USE <1>7 DEF BannedTimerTask, timer_decrypt, timer_read, timer_delete, timer_create, timer_write, timer_encrypt, timer_clean
  <2>1. \E pc \in {"t2", "t3", "t4", "t5", "t6", "t7", "over"} : TimerGoes(i, pc)
    OBVIOUS
  <2>2. timers' \in Seq(TimerState)
    BY <2>1, TimerMoves
  <2>3. QED
    BY <1>0, <2>1, <2>2 DEF TimerGoes
<1>8. QED
  BY <1>1, <1>2, <1>3, <1>4, <1>5, <1>6, <1>7 DEF AuthNext, AuthServes

(* The steps that change the list, the files or their history.             *)
LEMMA WhoStores ==
  ASSUME [Next]_vars
  PROVE  \/ UNCHANGED Storage
         \/ server_start \/ server_crash
         \/ \E c \in Connections : \/ send_answer(c) \/ store_file(c) \/ putFileRecord(c)
                                   \/ serialize_open(c) \/ serialize_write(c) \/ confirm(c)
BY ZenonT(40) DEF Next, ConnectionHandler, vars, serverVars, Storage, accept, verdict, client_run, client_command,
   client_receive, read_command, end_of_stream, send_list, refuse_file, banned_goodbye

(* The steps that change the state of a handler or of the server.          *)
LEMMA WhoHandles ==
  ASSUME [Next]_vars
  PROVE  \/ UNCHANGED <<work, server, hpc, arg>>
         \/ server_start \/ server_crash \/ verdict
         \/ \E c \in Connections : ConnectionHandler(c)
BY DEF Next, vars, serverVars, accept, client_run, client_command, client_receive

(* The steps that change a connection or what is sent over it.             *)
Links == <<backlog, acc, conn, toServer, toClient>>
LEMMA WhoLinks ==
  ASSUME [Next]_vars
  PROVE  \/ UNCHANGED Links
         \/ server_crash \/ accept \/ verdict
         \/ \E c \in Connections : \/ client_run(c) \/ client_command(c) \/ client_receive(c) \/ read_command(c)
                                   \/ send_list(c) \/ send_answer(c) \/ banned_goodbye(c) \/ confirm(c)
BY ZenonT(40) DEF Next, ConnectionHandler, vars, serverVars, Links, Session, server_start, end_of_stream, store_file,
   refuse_file, putFileRecord, serialize_open, serialize_write

(* A command of a client is a message.                                     *)
LEMMA CommandIsMessage ==
  ASSUME HandlerTypes, NEW m \in Command
  PROVE  m \in Message
<1>1. CASE \E k \in {"quit", "list"} : m = [NoArg EXCEPT !.cmd = k]
  BY <1>1, Placeholders DEF OtherMessage, Message
<1>2. CASE m \in [cmd : {"download"}, file : Names, data : {"none"}, size : {0}]
  BY <1>2 DEF OtherMessage, Message
<1>3. CASE m \in [cmd : {"upload"}, file : Names, data : work \cap Uploads, size : {0}]
  BY <1>3 DEF UploadMessage, Message, HandlerTypes
<1>4. QED
  BY <1>1, <1>2, <1>3 DEF Command

(* A handler that answers takes its next place and forgets its command.    *)
LEMMA AnswerTypes ==
  ASSUME HandlerTypes, NEW c \in Connections, NEW from, NEW m, from # "off", Answer(c, from, m)
  PROVE  /\ arg' = [arg EXCEPT ![c] = NoArg]
         /\ hpc' \in [Connections -> {"off", "read", "list", "ban", "reply"} \cup Busy]
         /\ hpc'[c] \in {"off", "read"} /\ hpc[c] = from
         /\ \A d \in Connections : d # c => hpc'[d] = hpc[d]
BY DEF Answer, Handler, HandlerTypes

(* Handlers keep their types, and work on uploads where they should.       *)
LEMMA NextHandlerTypes == Types /\ [Next]_vars => HandlerTypes'
<1> SUFFICES ASSUME Types, [Next]_vars PROVE HandlerTypes'
  OBVIOUS
<1>0. HandlerTypes /\ NoArg \in Message
  BY Placeholders DEF Types, Message
<1> USE <1>0 DEF HandlerTypes
<1>1. CASE UNCHANGED <<work, server, hpc, arg>>
  BY <1>1
<1>2. CASE server_start
  BY <1>2 DEF server_start
<1>3. CASE server_crash
  BY <1>3 DEF server_crash, Busy
<1>4. CASE verdict
  <2>1. acc.conn \in Connections
    BY DEF Types, LinkTypes, AccState
  <2>2. QED
    BY <1>4, <2>1 DEF verdict, Busy
<1>5. ASSUME NEW c \in Connections, read_command(c) PROVE HandlerTypes'
  <2>1. Head(toServer[c]) \in Message
    <3>1. toServer[c] \in Seq(Message) /\ toServer[c] # <<>>
      BY <1>5 DEF read_command, Types, LinkTypes
    <3>2. QED
      BY <3>1, HeadTailProperties
  <2>2. /\ Place(Head(toServer[c])) \in {"list", "file", "reply"}
        /\ Place(Head(toServer[c])) = "file" => Head(toServer[c]) \in UploadMessage
    BY <2>1 DEF Place, Message, OtherMessage, UploadMessage
  <2>3. arg'[c] \in Message /\ (hpc'[c] = "file" => arg'[c] \in UploadMessage)
    <3>1. Len(uploadedFiles) \in Nat
      BY DEF Types, ListTypes
    <3>2. QED
      BY <1>5, <2>1, <2>2, <3>1 DEF read_command, Handler, Message, OtherMessage, UploadMessage
  <2>4. QED
    BY <1>5, <2>2, <2>3 DEF read_command, Handler, Busy
<1>6. ASSUME NEW c \in Connections, end_of_stream(c) \/ store_file(c) \/ refuse_file(c) \/ putFileRecord(c) \/ serialize_write(c)
      PROVE  HandlerTypes'
  BY <1>6 DEF end_of_stream, store_file, refuse_file, putFileRecord, serialize_write, Handler, Busy
<1>7. ASSUME NEW c \in Connections, banned_goodbye(c) PROVE HandlerTypes'
  BY <1>7 DEF banned_goodbye, Handler, Busy
<1>8. ASSUME NEW c \in Connections, serialize_open(c) PROVE HandlerTypes'
  <2>1. [arg[c] EXCEPT !.size = Len(uploadedFiles)] \in UploadMessage
    <3>1. arg[c] \in UploadMessage /\ Len(uploadedFiles) \in Nat
      BY <1>8 DEF serialize_open, Handler, Busy, Types, ListTypes
    <3>2. QED
      BY <3>1 DEF UploadMessage
  <2>2. arg' = [arg EXCEPT ![c] = [arg[c] EXCEPT !.size = Len(uploadedFiles)]]
    BY <1>8 DEF serialize_open
  <2>3. QED
    BY <1>8, <2>1, <2>2 DEF serialize_open, Handler, Busy, Message
<1>9. ASSUME NEW c \in Connections, send_list(c) \/ send_answer(c) \/ confirm(c) PROVE HandlerTypes'
  <2>1. UNCHANGED <<work, server>> /\ \E from \in {"list", "reply"} : \E m : Answer(c, from, m)
    BY <1>9 DEF send_list, send_answer, confirm
  <2>2. QED
    BY <2>1, AnswerTypes DEF Busy
<1>10. QED
  BY <1>1, <1>2, <1>3, <1>4, <1>5, <1>6, <1>7, <1>8, <1>9, WhoHandles DEF ConnectionHandler

(* The lists hold records, and the directory files.                        *)
LEMMA NextListTypes == Types /\ Stores /\ [Next]_vars => ListTypes'
<1> SUFFICES ASSUME Types, Stores, [Next]_vars PROVE ListTypes'
  OBVIOUS
<1>0. ListTypes /\ HandlerTypes
  BY DEF Types
<1> USE <1>0 DEF ListTypes
<1>1. CASE UNCHANGED Storage
  BY <1>1 DEF Storage
<1>2. CASE server_start
  BY <1>2 DEF server_start, deserialize
<1>3. CASE server_crash
  BY <1>3 DEF server_crash
<1>4. ASSUME NEW c \in Connections, send_answer(c) PROVE ListTypes'
  BY <1>4 DEF send_answer
<1>5. ASSUME NEW c \in Connections, store_file(c) PROVE ListTypes'
  <2>1. arg[c].data \in {"short", "long"}
    BY <1>5 DEF store_file, Handler, HandlerTypes, Busy, UploadMessage, Uploads
  <2>2. QED
    BY <1>5, <2>1 DEF store_file, Stored
<1>6. ASSUME NEW c \in Connections, putFileRecord(c) PROVE ListTypes'
  <2>1. [numeFisier |-> arg[c].file, idProprietar |-> User[c]] \in ListOpRecord
    BY <1>6, ServerAssumption DEF putFileRecord, Handler, HandlerTypes, Busy, UploadMessage, ListOpRecord
  <2>2. QED
    BY <1>6, <2>1 DEF putFileRecord
<1>7. ASSUME NEW c \in Connections, serialize_open(c) PROVE ListTypes'
  BY <1>7 DEF serialize_open
<1>8. ASSUME NEW c \in Connections, serialize_write(c) PROVE ListTypes'
  <2>1. arg[c].size \in Nat /\ arg[c].size <= Len(uploadedFiles)
    BY <1>8 DEF serialize_write, Handler, HandlerTypes, Busy, UploadMessage, Stores, SizeFits
  <2>2. SubSeq(uploadedFiles, 1, arg[c].size) \in Seq(ListOpRecord)
    BY <2>1, SubSeqProperties
  <2>3. QED
    BY <1>8, <2>2 DEF serialize_write, Written
<1>9. ASSUME NEW c \in Connections, confirm(c) PROVE ListTypes'
  BY <1>9 DEF confirm
<1>10. QED
  BY <1>1, <1>2, <1>3, <1>4, <1>5, <1>6, <1>7, <1>8, <1>9, WhoStores

(* Connections and what is sent over them keep their types.                *)
LEMMA NextLinkTypes == Types /\ [Next]_vars => LinkTypes'
<1> SUFFICES ASSUME Types, [Next]_vars PROVE LinkTypes'
  OBVIOUS
<1>0. LinkTypes /\ HandlerTypes
  BY DEF Types
<1> USE <1>0 DEF LinkTypes
<1>1. CASE UNCHANGED Links
  BY <1>1 DEF Links
<1>2. CASE server_crash
  <2>1. toServer' \in [Connections -> Seq(Message)] /\ backlog' \in Seq(Connections)
    BY <1>2, EmptySeq DEF server_crash
  <2>2. acc' \in AccState
    BY <1>2, Placeholders DEF server_crash
  <2>3. conn' \in [Connections -> {"new", "off", "queued", "open", "closed"}]
    BY <1>2 DEF server_crash
  <2>4. toClient' = toClient
    BY <1>2 DEF server_crash
  <2>5. QED
    BY <2>1, <2>2, <2>3, <2>4
<1>3. CASE accept
  <2>1. Head(backlog) \in Connections /\ Tail(backlog) \in Seq(Connections)
    <3>1. backlog \in Seq(Connections) /\ backlog # <<>>
      BY <1>3 DEF accept
    <3>2. QED
      BY <3>1, HeadTailProperties
  <2>2. acc' \in AccState
    <3>1. Len(banned) \in Nat
      BY DEF Types, AuthTypes
    <3>2. QED
      BY <1>3, <2>1, <3>1 DEF accept, AccState
  <2>3. conn' \in [Connections -> {"new", "off", "queued", "open", "closed"}]
    BY <1>3, <2>1 DEF accept
  <2>4. backlog' = Tail(backlog) /\ UNCHANGED <<toServer, toClient>>
    BY <1>3 DEF accept
  <2>5. QED
    BY <2>1, <2>2, <2>3, <2>4
<1>4. ASSUME NEW c \in Connections, goodbyeClient(c)
      PROVE  /\ toClient' \in [Connections -> Seq(Word)]
             /\ conn' \in [Connections -> {"new", "off", "queued", "open", "closed"}]
  <2>1. Append(toClient[c], "DENIED") \in Seq(Word)
    <3>1. toClient[c] \in Seq(Word) /\ "DENIED" \in Word
      BY DEF Word
    <3>2. QED
      BY <3>1, AppendProperties
  <2>2. QED
    BY <1>4, <2>1 DEF goodbyeClient
<1>5. CASE verdict
  <2>1. acc.conn \in Connections
    BY DEF AccState
  <2>2. QED
    BY <1>4, <1>5, <2>1, Placeholders DEF verdict
<1>6. ASSUME NEW c \in Connections, client_run(c) PROVE LinkTypes'
  <2>1. toServer' \in [Connections -> Seq(Message)]
    BY <1>6, EmptySeq DEF client_run
  <2>2. QED
    BY <1>6, <2>1 DEF client_run
<1>7. ASSUME NEW c \in Connections, client_command(c) PROVE LinkTypes'
  <2>1. PICK m \in Message : toServer' = [toServer EXCEPT ![c] = Append(@, m)]
    BY <1>7, CommandIsMessage DEF client_command
  <2>2. Append(toServer[c], m) \in Seq(Message)
    <3>1. toServer[c] \in Seq(Message)
      OBVIOUS
    <3>2. QED
      BY <3>1, AppendProperties
  <2>3. QED
    BY <1>7, <2>1, <2>2 DEF client_command
<1>8. ASSUME NEW c \in Connections, client_receive(c) PROVE LinkTypes'
  <2>1. toClient[c] \in Seq(Word)
    OBVIOUS
  <2>2. \A n \in 1..Len(toClient[c]) :
          SubSeq(toClient[c], n + 1, Len(toClient[c])) \in Seq(Word)
    BY <2>1, SubSeqProperties
  <2>3. <<>> \in Seq(Word)
    BY EmptySeq
  <2>4. \/ toClient' = [toClient EXCEPT ![c] = <<>>]
        \/ \E n \in 1..Len(toClient[c]) :
              toClient' = [toClient EXCEPT ![c] = SubSeq(toClient[c], n + 1, Len(toClient[c]))]
    BY <1>8 DEF client_receive
  <2>5. toClient' \in [Connections -> Seq(Word)]
    BY <2>2, <2>3, <2>4
  <2>6. QED
    BY <1>8, <2>5 DEF client_receive
<1>9. ASSUME NEW c \in Connections, read_command(c) PROVE LinkTypes'
  <2>1. toServer[c] \in Seq(Message) /\ toServer[c] # <<>>
    BY <1>9 DEF read_command
  <2>2. Tail(toServer[c]) \in Seq(Message)
    BY <2>1, HeadTailProperties
  <2>3. QED
    BY <1>9, <2>2 DEF read_command
<1>10. ASSUME NEW c \in Connections, NEW from, NEW m, Answer(c, from, m)
       PROVE  toClient' \in [Connections -> Seq(Word)]
  <2>1. m \in {"quit", "part of a list"} => Append(toClient[c], m) \in Seq(Word)
    <3>1. toClient[c] \in Seq(Word) /\ (m \in {"quit", "part of a list"} => m \in Word)
      BY DEF Word
    <3>2. QED
      BY <3>1, AppendProperties
  <2>2. QED
    BY <1>10, <2>1 DEF Answer
<1>11. ASSUME NEW c \in Connections, send_list(c) \/ send_answer(c) \/ confirm(c) PROVE LinkTypes'
  <2>1. \E from, m : Answer(c, from, m)
    BY <1>11 DEF send_list, send_answer, confirm
  <2>2. UNCHANGED <<backlog, acc, conn, toServer>>
    BY <1>11 DEF send_list, send_answer, confirm
  <2>3. QED
    BY <2>1, <2>2, <1>10
<1>12. ASSUME NEW c \in Connections, banned_goodbye(c) PROVE LinkTypes'
  BY <1>4, <1>12 DEF banned_goodbye
<1>13. QED
  BY <1>1, <1>2, <1>3, <1>5, <1>6, <1>7, <1>8, <1>9, <1>11, <1>12, WhoLinks

(* The steps of the department server and of the clients that change       *)
(* anything of the authorization server.                                   *)
LEMMA WhoAsks ==
  ASSUME [Next]_vars
  PROVE  \/ UNCHANGED authVars
         \/ (AuthNext /\ UNCHANGED serverVars)
         \/ server_crash \/ accept \/ verdict
         \/ \E c \in Connections : refuse_file(c) \/ banned_goodbye(c)
BY ZenonT(40) DEF Next, ConnectionHandler, vars, Fixed, server_start, client_run, client_command, client_receive,
   read_command, end_of_stream, send_list, send_answer, store_file, putFileRecord, serialize_open,
   serialize_write, confirm

(* A question is a request, or is answered with null at once.              *)
LEMMA AskTypes ==
  ASSUME AuthTypes, NEW from \in Callers, NEW kind \in {"BAN", "CHECK"}, NEW c \in Connections,
         Ask(from, kind, c)
  PROVE  /\ requests' \in Seq(QueuedRequest)
         /\ answers' \in [Callers -> {"ALLOWED", "DENIED", "ERROR", "OK", "null", NoAnswer}]
<1>1. [from |-> from, kind |-> kind, client |-> User[c]] \in QueuedRequest
  BY ServerAssumption DEF QueuedRequest
<1>2. Append(requests, [from |-> from, kind |-> kind, client |-> User[c]]) \in Seq(QueuedRequest)
  BY <1>1, AppendProperties DEF AuthTypes
<1>3. QED
  BY <1>2 DEF AuthTypes, Ask

(* Questions and stops leave the state of the authorization server well    *)
(* formed.                                                                 *)
LEMMA NextAuthTypes == Types /\ [Next]_vars => AuthTypes'
<1> SUFFICES ASSUME Types, [Next]_vars PROVE AuthTypes'
  OBVIOUS
<1>0. AuthTypes /\ LinkTypes
  BY DEF Types
<1>1. CASE UNCHANGED authVars
  BY <1>0, <1>1 DEF AuthTypes, authVars
<1>2. CASE AuthNext
  BY <1>0, <1>2, AuthNextTypes
<1>3. CASE server_crash
  <2>1. main' \in MainState
    BY <1>0, <1>3 DEF server_crash, AuthTypes, MainState, Request
  <2>2. QED
    BY <1>0, <1>3, <2>1, EmptySeq DEF server_crash, AuthTypes
<1>4. CASE accept
  <2>1. Head(backlog) \in Connections
    BY <1>0, <1>4, HeadTailProperties DEF LinkTypes, accept
  <2>2. Ask("accept", "CHECK", Head(backlog)) \/ UNCHANGED <<requests, answers>>
    BY <1>4 DEF accept
  <2>3. /\ requests' \in Seq(QueuedRequest)
        /\ answers' \in [Callers -> {"ALLOWED", "DENIED", "ERROR", "OK", "null", NoAnswer}]
    BY <1>0, <2>1, <2>2, AskTypes DEF Callers, AuthTypes
  <2>4. QED
    BY <1>0, <1>4, <2>3 DEF accept, AuthTypes
<1>5. CASE verdict
  BY <1>0, <1>5 DEF verdict, Taken, AuthTypes
<1>6. ASSUME NEW c \in Connections, refuse_file(c) PROVE AuthTypes'
  <2>1. /\ requests' \in Seq(QueuedRequest)
        /\ answers' \in [Callers -> {"ALLOWED", "DENIED", "ERROR", "OK", "null", NoAnswer}]
    BY <1>0, <1>6, AskTypes DEF refuse_file, Callers
  <2>2. QED
    BY <1>0, <1>6, <2>1 DEF refuse_file, AuthTypes
<1>7. ASSUME NEW c \in Connections, banned_goodbye(c) PROVE AuthTypes'
  BY <1>0, <1>7 DEF banned_goodbye, Taken, AuthTypes
<1>8. QED
  BY <1>1, <1>2, <1>3, <1>4, <1>5, <1>6, <1>7, WhoAsks

---------------------------------------------------------------------------
(* Sessions. *)

(* A step of a handler concerns its client only, and one that is there; it *)
(* does not touch the connections that wait for a verdict.                 *)
LEMMA HandlerMoves ==
  ASSUME HandlerTypes, LinkTypes, NEW c \in Connections, ConnectionHandler(c)
  PROVE  /\ hpc[c] # "off" /\ UNCHANGED <<backlog, acc>>
         /\ \A d \in Connections : d # c => hpc'[d] = hpc[d] /\ arg'[d] = arg[d]
         /\ \A d \in Connections : d # c => conn'[d] = conn[d] /\ toClient'[d] = toClient[d]
         /\ conn'[c] = IF hpc[c] = "ban" /\ conn[c] # "off" THEN "closed" ELSE conn[c]
         /\ conn[c] = "off" => toClient'[c] = toClient[c]
<1> USE DEF HandlerTypes, LinkTypes
<1>1. CASE read_command(c) \/ end_of_stream(c)
  BY <1>1 DEF read_command, end_of_stream, Handler, Session
<1>2. CASE send_list(c) \/ send_answer(c) \/ confirm(c)
  <2>1. UNCHANGED <<conn, backlog, acc>> /\ \E from \in {"list", "reply"} : \E m : Answer(c, from, m)
    BY <1>2 DEF send_list, send_answer, confirm
  <2>2. QED
    BY <2>1 DEF Answer, Handler
<1>3. CASE store_file(c) \/ refuse_file(c)
  BY <1>3 DEF store_file, refuse_file, Handler, Session
<1>4. CASE banned_goodbye(c)
  BY <1>4 DEF banned_goodbye, Handler, goodbyeClient
<1>5. CASE putFileRecord(c) \/ serialize_open(c) \/ serialize_write(c)
  BY <1>5 DEF putFileRecord, serialize_open, serialize_write, Handler, Session
<1>6. QED
  BY <1>1, <1>2, <1>3, <1>4, <1>5 DEF ConnectionHandler

(* Whoever waits for a verdict waits once and is not served meanwhile.     *)
LEMMA NextSessions == Types /\ Sessions /\ [Next]_vars => Sessions'
<1> SUFFICES ASSUME Types, Sessions, [Next]_vars PROVE Sessions'
  OBVIOUS
<1>0. LinkTypes /\ HandlerTypes /\ InQueue /\ QueuedOnce /\ InQuestion /\ Unserved
  BY DEF Types, Sessions
<1>a. \A i \in 1..Len(backlog) : backlog[i] \in Connections
  BY <1>0 DEF LinkTypes
<1>b. acc.conn \in Connections
  BY <1>0 DEF LinkTypes, AccState
<1>1. CASE UNCHANGED <<backlog, acc, conn, toClient, hpc>>
  BY <1>0, <1>1 DEF Sessions, InQueue, QueuedOnce, InQuestion, Unserved, Asking
<1>2. CASE server_start
  <2>1. UNCHANGED <<backlog, acc, conn, toClient, hpc>>
    BY <1>2 DEF server_start, Session
  <2>2. QED
    BY <1>1, <2>1
<1>3. CASE server_crash
  <2>1. Unserved'
    BY <1>0, <1>3 DEF server_crash, Unserved, LinkTypes
  <2>2. InQueue' /\ QueuedOnce' /\ InQuestion'
    BY <1>3 DEF server_crash, InQueue, QueuedOnce, InQuestion, NoOne
  <2>3. QED
    BY <2>1, <2>2 DEF Sessions
<1>4. CASE accept
  <2> DEFINE c == Head(backlog)
  <2>1. /\ c = backlog[1] /\ 1 \in 1..Len(backlog)
        /\ \A i \in 1..Len(Tail(backlog)) : i + 1 \in 1..Len(backlog) /\ Tail(backlog)[i] = backlog[i + 1]
    <3>1. backlog \in Seq(Connections) /\ backlog # <<>>
      BY <1>0, <1>4 DEF LinkTypes, accept
    <3>2. QED
      BY <3>1, Shortened
  <2>2. c \in Connections /\ conn[c] = "queued" /\ acc.pc = "accept"
    BY <1>0, <1>4, <1>a, <2>1 DEF InQueue, accept
  <2>3. \A i \in 1..Len(Tail(backlog)) : Tail(backlog)[i] # c /\ Tail(backlog)[i] \in Connections
    BY <1>0, <1>a, <2>1 DEF QueuedOnce
  <2>4. backlog' = Tail(backlog) /\ UNCHANGED <<hpc, toClient>>
    BY <1>4 DEF accept
  <2>5. \/ acc' = [pc |-> "ask", conn |-> c, known |-> Len(banned)] /\ conn' = conn
        \/ acc' = acc /\ conn' = [conn EXCEPT ![c] = "closed"]
    BY <1>4 DEF accept
  <2>6. /\ acc'.pc = "ask" => acc'.conn = c /\ conn'[c] = "queued"
        /\ \A d \in Connections : d # c => conn'[d] = conn[d]
        /\ \A d \in Connections : conn'[d] \in {"new", "queued"} => conn[d] = conn'[d]
    BY <1>0, <2>2, <2>5 DEF LinkTypes
  <2> HIDE DEF c
  <2>7. InQueue'
    <3>1. \A i \in 1..Len(Tail(backlog)) : conn[Tail(backlog)[i]] = "queued"
      BY <1>0, <2>1 DEF InQueue
    <3>2. \A i \in 1..Len(Tail(backlog)) :
            conn'[Tail(backlog)[i]] = "queued" /\ (acc'.pc = "ask" => acc'.conn # Tail(backlog)[i])
      BY <2>3, <2>6, <3>1
    <3>3. \A i \in 1..Len(backlog') : conn'[backlog'[i]] = "queued" /\ (acc'.pc = "ask" => acc'.conn # backlog'[i])
      BY <2>4, <3>2
    <3>4. QED
      BY <3>3 DEF InQueue, Asking
  <2>8. QueuedOnce'
    BY <1>0, <2>1, <2>4 DEF QueuedOnce
  <2>9. InQuestion'
    BY <2>6 DEF InQuestion
  <2>10. Unserved'
    BY <1>0, <2>4, <2>6 DEF Unserved
  <2>11. QED
    BY <2>7, <2>8, <2>9, <2>10 DEF Sessions
<1>5. CASE verdict
  <2> DEFINE c == acc.conn
  <2>1. /\ acc.pc = "ask" /\ conn[c] = "queued" /\ acc'.pc = "accept" /\ backlog' = backlog
    BY <1>0, <1>5 DEF verdict, InQuestion, NoOne
  <2>2. /\ conn'[c] \in {"open", "closed"}
        /\ \A d \in Connections : d # c => conn'[d] = conn[d] /\ hpc'[d] = hpc[d] /\ toClient'[d] = toClient[d]
    BY <1>0, <1>5, <1>b, <2>1 DEF verdict, goodbyeClient, LinkTypes, HandlerTypes
  <2>3. \A i \in 1..Len(backlog) : backlog[i] # c
    BY <1>0, <2>1 DEF InQueue, Asking
  <2> HIDE DEF c
  <2>4. InQueue' /\ InQuestion'
    BY <1>0, <1>a, <2>1, <2>2, <2>3 DEF InQueue, InQuestion, Asking
  <2>5. QueuedOnce'
    BY <1>0, <2>1 DEF QueuedOnce
  <2>6. Unserved'
    BY <1>0, <2>2 DEF Unserved
  <2>7. QED
    BY <2>4, <2>5, <2>6 DEF Sessions
<1>6. ASSUME NEW c \in Connections, client_run(c) PROVE Sessions'
  <2>1. /\ conn[c] = "new" /\ hpc[c] = "off" /\ toClient[c] = <<>>
        /\ UNCHANGED <<acc, toClient, hpc>>
    BY <1>0, <1>6 DEF client_run, Unserved
  <2>2. Extends(backlog', backlog, c)
    <3>1. backlog \in Seq(Connections) /\ backlog' = Append(backlog, c)
      BY <1>0, <1>6 DEF LinkTypes, client_run
    <3>2. QED
      BY <3>1, Grown
  <2>3. \A i \in 1..Len(backlog) : backlog[i] # c
    BY <1>0, <2>1 DEF InQueue
  <2>4. ~Asking(c) /\ (acc.pc = "ask" => acc.conn # c)
    BY <1>0, <2>1 DEF InQuestion, Asking
  <2>5. conn'[c] = "queued" /\ \A d \in Connections : d # c => conn'[d] = conn[d]
    BY <1>0, <1>6 DEF LinkTypes, client_run
  <2>6. InQueue'
    <3>1. \A i \in 1..Len(backlog) : conn'[backlog[i]] = "queued" /\ ~Asking(backlog[i])
      BY <1>0, <1>a, <2>3, <2>5 DEF InQueue
    <3>2. QED
      BY <2>1, <2>2, <2>4, <2>5, <3>1 DEF InQueue, Asking, Extends
  <2>7. QueuedOnce'
    BY <1>0, <2>2, <2>3 DEF QueuedOnce, Extends
  <2>8. InQuestion'
    BY <1>0, <1>b, <2>1, <2>4, <2>5 DEF InQuestion
  <2>9. Unserved'
    BY <1>0, <2>1, <2>5 DEF Unserved
  <2>10. QED
    BY <2>6, <2>7, <2>8, <2>9 DEF Sessions
<1>7. ASSUME NEW c \in Connections, client_command(c) PROVE Sessions'
  <2>1. UNCHANGED <<backlog, acc, conn, toClient, hpc>>
    BY <1>7 DEF client_command
  <2>2. QED
    BY <1>1, <2>1
<1>8. ASSUME NEW c \in Connections, UNCHANGED <<backlog, acc>>, conn[c] # "queued", conn'[c] \notin {"new", "queued"},
             \A d \in Connections : d # c => hpc'[d] = hpc[d] /\ conn'[d] = conn[d] /\ toClient'[d] = toClient[d]
      PROVE  Sessions'
  <2>1. InQueue'
    BY <1>0, <1>8, <1>a DEF InQueue, Asking
  <2>2. QueuedOnce'
    BY <1>0, <1>8 DEF QueuedOnce
  <2>3. InQuestion'
    BY <1>0, <1>8, <1>b DEF InQuestion
  <2>4. Unserved'
    BY <1>0, <1>8 DEF Unserved
  <2>5. QED
    BY <2>1, <2>2, <2>3, <2>4 DEF Sessions
<1>9. ASSUME NEW c \in Connections, client_receive(c) PROVE Sessions'
  <2>1. conn[c] \in {"open", "closed"} /\ UNCHANGED <<backlog, acc, hpc>>
    <3>1. /\ conn[c] \notin {"new", "off"} /\ (toClient[c] # <<>> \/ conn[c] = "closed")
          /\ UNCHANGED <<backlog, acc, hpc>>
      BY <1>9 DEF client_receive
    <3>2. conn[c] \in {"new", "off", "queued", "open", "closed"}
      BY <1>0 DEF LinkTypes
    <3>3. conn[c] = "queued" => toClient[c] = <<>>
      BY <1>0 DEF Unserved
    <3>4. QED
      BY <3>1, <3>2, <3>3
  <2>2. /\ conn'[c] \in {"off", conn[c]}
        /\ \A d \in Connections : d # c => conn'[d] = conn[d] /\ toClient'[d] = toClient[d]
    BY <1>0, <1>9, <2>1 DEF client_receive, LinkTypes
  <2>3. QED
    BY <1>8, <2>1, <2>2
<1>10. ASSUME NEW c \in Connections, ConnectionHandler(c) PROVE Sessions'
  <2>1. conn[c] \notin {"new", "queued"}
    BY <1>0, <1>10, HandlerMoves DEF Unserved
  <2>a. /\ conn'[c] = IF hpc[c] = "ban" /\ conn[c] # "off" THEN "closed" ELSE conn[c]
        /\ conn[c] = "off" => toClient'[c] = toClient[c]
    BY <1>0, <1>10, HandlerMoves
  <2>2. conn'[c] \notin {"new", "queued"}
    BY <1>0, <2>1, <2>a DEF Unserved
  <2>3. /\ UNCHANGED <<backlog, acc>>
        /\ \A d \in Connections : d # c => hpc'[d] = hpc[d] /\ conn'[d] = conn[d] /\ toClient'[d] = toClient[d]
    BY <1>0, <1>10, HandlerMoves
  <2>4. QED
    BY <1>8, <2>1, <2>2, <2>3
<1>11. QED
  BY <1>1, <1>2, <1>3, <1>4, <1>5, <1>6, <1>7, <1>9, <1>10 DEF Next, vars, serverVars

---------------------------------------------------------------------------
(* The list of uploads. *)

(* A file that has been stored is never emptied or removed.                *)
LEMMA KeptForever ==
  ASSUME Types, [Next]_vars, NEW f \in Names, Kept(f)
  PROVE  Kept(f)'
<1>0. ListTypes /\ HandlerTypes
  BY DEF Types
<1> USE DEF Kept
<1>1. CASE disk' = disk
  BY <1>1
<1>2. ASSUME NEW c \in Connections, send_answer(c) PROVE Kept(f)'
  BY <1>0, <1>2 DEF send_answer, ListTypes
<1>3. ASSUME NEW c \in Connections, store_file(c) PROVE Kept(f)'
  <2>1. arg[c].data \in {"short", "long"}
    BY <1>0, <1>3 DEF store_file, Handler, HandlerTypes, Busy, UploadMessage, Uploads
  <2>2. QED
    BY <1>0, <1>3, <2>1 DEF store_file, Stored, ListTypes
<1>4. \/ disk' = disk
      \/ \E c \in Connections : send_answer(c) \/ store_file(c)
  BY WhoStores DEF Storage, server_start, server_crash, putFileRecord, serialize_open, serialize_write, confirm
<1>5. QED
  BY <1>1, <1>2, <1>3, <1>4

(* A new place of a handler is reached by its own step.                    *)
LEMMA PlaceReached ==
  ASSUME Types, Sessions, [Next]_vars, NEW c \in Connections
  PROVE  /\ hpc'[c] = "record" => store_file(c) \/ (hpc[c] = "record" /\ arg'[c] = arg[c])
         /\ hpc'[c] = "open" => putFileRecord(c) \/ (hpc[c] = "open" /\ arg'[c] = arg[c])
         /\ hpc'[c] = "write" => serialize_open(c) \/ (hpc[c] = "write" /\ arg'[c] = arg[c])
         /\ hpc'[c] = "reply" /\ arg'[c].cmd = "upload" =>
              serialize_write(c) \/ (hpc[c] = "reply" /\ arg'[c] = arg[c])
         /\ hpc[c] = "write" => serialize_write(c) \/ hpc'[c] = "write" \/ server_crash
<1>0. HandlerTypes /\ LinkTypes /\ Unserved /\ InQuestion
  BY DEF Types, Sessions
<1>1. CASE UNCHANGED <<hpc, arg>>
  BY <1>1
<1>2. CASE server_crash
  BY <1>0, <1>2 DEF server_crash, HandlerTypes
<1>3. CASE verdict
  <2>1. hpc[acc.conn] = "off" /\ acc.conn \in Connections
    BY <1>0, <1>3 DEF verdict, Unserved, InQuestion, LinkTypes, AccState
  <2>2. arg' = arg /\ hpc' = [hpc EXCEPT ![acc.conn] = IF answers["accept"] = "ALLOWED" THEN "read" ELSE @]
    BY <1>3 DEF verdict
  <2>3. QED
    BY <1>0, <2>1, <2>2 DEF HandlerTypes
<1>4. ASSUME NEW d \in Connections, d # c, ConnectionHandler(d) PROVE hpc'[c] = hpc[c] /\ arg'[c] = arg[c]
  BY <1>0, <1>4, HandlerMoves
<1>5. CASE read_command(c)
  <2>1. Head(toServer[c]) \in Message
    <3>1. toServer[c] \in Seq(Message) /\ toServer[c] # <<>>
      BY <1>0, <1>5 DEF read_command, LinkTypes
    <3>2. QED
      BY <3>1, HeadTailProperties
  <2>2. /\ hpc[c] = "read" /\ hpc'[c] \in {"list", "file", "reply"}
        /\ hpc'[c] = "reply" => Head(toServer[c]).cmd # "upload" /\ arg'[c] = Head(toServer[c])
    BY <1>0, <1>5, <2>1 DEF read_command, Handler, HandlerTypes, Place
  <2>3. QED
    BY <2>2
<1>6. CASE send_list(c) \/ send_answer(c) \/ confirm(c)
  <2>1. \E from \in {"list", "reply"} : \E m : Answer(c, from, m)
    BY <1>6 DEF send_list, send_answer, confirm
  <2>2. QED
    BY <1>0, <2>1, AnswerTypes
<1>7. CASE end_of_stream(c) \/ refuse_file(c) \/ banned_goodbye(c)
  BY <1>0, <1>7 DEF end_of_stream, refuse_file, banned_goodbye, Handler, HandlerTypes
<1>8. CASE store_file(c) \/ putFileRecord(c) \/ serialize_open(c) \/ serialize_write(c)
  <2>1. CASE store_file(c)
    BY <1>0, <2>1 DEF store_file, Handler, HandlerTypes
  <2>2. CASE putFileRecord(c)
    BY <1>0, <2>2 DEF putFileRecord, Handler, HandlerTypes
  <2>3. CASE serialize_open(c)
    <3>1. hpc'[c] = "write" /\ hpc[c] = "open"
      BY <1>0, <2>3 DEF serialize_open, Handler, HandlerTypes
    <3>2. QED
      BY <2>3, <3>1
  <2>4. CASE serialize_write(c)
    BY <1>0, <2>4 DEF serialize_write, Handler, HandlerTypes
  <2>5. QED
    BY <1>8, <2>1, <2>2, <2>3, <2>4
<1>9. CASE server_start
  BY <1>1, <1>9 DEF server_start
<1>10. QED
  BY <1>1, <1>2, <1>3, <1>4, <1>5, <1>6, <1>7, <1>8, <1>9, WhoHandles DEF ConnectionHandler

(* The list in memory extends the one in the file, and both name stored    *)
(* files only.                                                             *)
LEMMA NextStores == Types /\ Sessions /\ Stores /\ [Next]_vars => Stores'
<1> SUFFICES ASSUME Types, Sessions, Stores, [Next]_vars PROVE Stores'
  OBVIOUS
<1>0. /\ ListTypes /\ HandlerTypes
      /\ MemoryStored /\ FileStored /\ RecordStored /\ SizeFits /\ MemoryExtendsFile
  BY DEF Types, Stores
<1>a. \A f \in Names : Kept(f) => Kept(f)'
  BY KeptForever
<1>b. /\ Len(uploadedFiles) \in Nat /\ Len(upload_list) \in Nat
      /\ \A i \in 1..Len(uploadedFiles) : uploadedFiles[i].numeFisier \in Names
      /\ \A i \in 1..Len(upload_list) : upload_list[i].numeFisier \in Names
  <2>1. \A r \in ListOpRecord : r.numeFisier \in Names
    BY DEF ListOpRecord
  <2>2. uploadedFiles \in Seq(ListOpRecord) /\ upload_list \in Seq(ListOpRecord)
    BY <1>0 DEF ListTypes
  <2>3. QED
    BY <2>1, <2>2, ElementOfSeq, LenProperties
<1>c. RecordStored'
  <2> SUFFICES ASSUME NEW c \in Connections, hpc'[c] = "record" PROVE Kept(arg[c].file)'
    BY DEF RecordStored
  <2>1. CASE store_file(c)
    <3>1. /\ arg[c].data \in {"short", "long"} /\ arg[c].file \in Names /\ arg' = arg
          /\ disk' = [disk EXCEPT ![arg[c].file] = Stored(@, arg[c].data)]
      BY <1>0, <2>1 DEF store_file, Handler, HandlerTypes, Busy, UploadMessage, Uploads
    <3>2. QED
      BY <1>0, <3>1 DEF Kept, Stored, ListTypes
  <2>2. CASE hpc[c] = "record" /\ arg'[c] = arg[c]
    <3>1. arg[c].file \in Names /\ Kept(arg[c].file)
      BY <1>0, <2>2 DEF RecordStored, HandlerTypes, Busy, UploadMessage
    <3>2. QED
      BY <1>a, <2>2, <3>1 DEF Kept
  <2>3. QED
    BY <2>1, <2>2, PlaceReached
<1>1. CASE server_start
  <2>1. /\ uploadedFiles' = upload_list /\ upload_list' = upload_list
        /\ hpc' = hpc /\ server = "down" /\ \A f \in Names : Kept(f)' = Kept(f)
    BY <1>1 DEF server_start, deserialize, Kept
  <2>2. MemoryStored' /\ FileStored'
    BY <1>0, <1>b, <2>1 DEF MemoryStored, FileStored
  <2>3. SizeFits'
    BY <1>0, <2>1 DEF SizeFits, HandlerTypes
  <2>4. MemoryExtendsFile'
    BY <1>b, <2>1 DEF MemoryExtendsFile
  <2>5. QED
    BY <1>c, <2>2, <2>3, <2>4 DEF Stores
<1>2. CASE server_crash
  <2>1. /\ uploadedFiles' = <<>> /\ upload_list' = upload_list /\ server' = "down"
        /\ \A c \in Connections : hpc'[c] = "off"
    BY <1>2 DEF server_crash
  <2>2. MemoryStored'
    BY <2>1 DEF MemoryStored
  <2>3. FileStored'
    BY <1>0, <1>a, <1>b, <2>1 DEF FileStored, Kept
  <2>4. SizeFits' /\ MemoryExtendsFile'
    BY <2>1 DEF SizeFits, MemoryExtendsFile
  <2>5. QED
    BY <1>c, <2>2, <2>3, <2>4 DEF Stores
<1>3. ASSUME NEW c \in Connections, putFileRecord(c) PROVE Stores'
  <2>1. /\ hpc[c] = "record" /\ upload_list' = upload_list /\ server' = server
        /\ arg[c].file \in Names /\ Kept(arg[c].file) /\ server \in {"up", "deaf"}
    BY <1>0, <1>3 DEF putFileRecord, Handler, HandlerTypes, Busy, UploadMessage, RecordStored
  <2>2. Extends(uploadedFiles', uploadedFiles, RecordOf(c))
    <3>1. RecordOf(c) \in ListOpRecord
      BY <2>1, ServerAssumption DEF RecordOf, ListOpRecord
    <3>2. uploadedFiles \in Seq(ListOpRecord) /\ uploadedFiles' = Append(uploadedFiles, RecordOf(c))
      BY <1>0, <1>3 DEF ListTypes, putFileRecord, RecordOf
    <3>3. QED
      BY <3>1, <3>2, Grown
  <2>3. MemoryStored'
    <3>1. \A i \in 1..Len(uploadedFiles) : Kept(uploadedFiles[i].numeFisier)'
      BY <1>0, <1>a, <1>b, <2>2 DEF MemoryStored, Extends, Kept
    <3>2. Kept(uploadedFiles[Len(uploadedFiles)].numeFisier)'
      BY <1>a, <1>b, <2>1, <2>2 DEF Extends, RecordOf, Kept
    <3>3. QED
      BY <2>2, <3>1, <3>2 DEF MemoryStored, Extends
  <2>4. FileStored'
    BY <1>0, <1>a, <1>b, <2>1 DEF FileStored, Kept
  <2>5. SizeFits'
    <3> SUFFICES ASSUME NEW d \in Connections, hpc'[d] = "write" PROVE arg'[d].size <= Len(uploadedFiles')
      BY DEF SizeFits
    <3>1. hpc[d] = "write" /\ arg'[d] = arg[d] /\ arg[d].size \in Nat
      BY <1>0, <1>3 DEF putFileRecord, Handler, HandlerTypes, Busy, UploadMessage
    <3>2. QED
      BY <1>0, <1>b, <2>2, <3>1 DEF SizeFits, Extends
  <2>6. MemoryExtendsFile'
    BY <1>0, <1>b, <2>1, <2>2 DEF MemoryExtendsFile, Extends
  <2>7. QED
    BY <1>c, <2>3, <2>4, <2>5, <2>6 DEF Stores
<1>4. ASSUME uploadedFiles' = uploadedFiles, ~server_start
      PROVE  MemoryStored' /\ SizeFits'
  <2>1. MemoryStored'
    BY <1>0, <1>4, <1>a, <1>b DEF MemoryStored, Kept
  <2>2. SizeFits'
    <3> SUFFICES ASSUME NEW c \in Connections, hpc'[c] = "write" PROVE arg'[c].size <= Len(uploadedFiles)
      BY <1>4 DEF SizeFits
    <3>1. CASE serialize_open(c)
      BY <1>0, <1>b, <3>1 DEF serialize_open, HandlerTypes, Message, UploadMessage, OtherMessage
    <3>2. CASE hpc[c] = "write" /\ arg'[c] = arg[c]
      BY <1>0, <3>2 DEF SizeFits
    <3>3. QED
      BY <3>1, <3>2, PlaceReached
  <2>3. QED
    BY <2>1, <2>2
<1>5. ASSUME NEW c \in Connections, serialize_open(c) PROVE Stores'
  <2>1. upload_list' = <<>> /\ uploadedFiles' = uploadedFiles
    BY <1>5 DEF serialize_open
  <2>2. ~server_start
    BY <1>5, <1>0 DEF serialize_open, Handler, HandlerTypes, server_start
  <2>3. FileStored' /\ MemoryExtendsFile'
    BY <1>b, <2>1 DEF FileStored, MemoryExtendsFile
  <2>4. QED
    BY <1>4, <1>c, <2>1, <2>2, <2>3 DEF Stores
<1>6. ASSUME NEW c \in Connections, serialize_write(c) PROVE Stores'
  <2> DEFINE n == arg[c].size
  <2>1. /\ n \in Nat /\ n <= Len(uploadedFiles) /\ upload_list' = SubSeq(uploadedFiles, 1, n)
        /\ uploadedFiles' = uploadedFiles /\ disk' = disk
    BY <1>0, <1>6 DEF serialize_write, Handler, HandlerTypes, Busy, UploadMessage, SizeFits, Written
  <2> HIDE DEF n
  <2>2. Len(upload_list') = n /\ \A i \in 1..n : upload_list'[i] = uploadedFiles[i]
    <3>1. uploadedFiles \in Seq(ListOpRecord)
      BY <1>0 DEF ListTypes
    <3>2. QED
      BY <1>b, <2>1, <3>1, SubSeqProperties
  <2>3. ~server_start
    BY <1>0, <1>6 DEF serialize_write, Handler, HandlerTypes, server_start
  <2>4. FileStored'
    BY <1>0, <1>b, <2>1, <2>2 DEF FileStored, MemoryStored, Kept
  <2>5. MemoryExtendsFile'
    BY <1>b, <2>1, <2>2 DEF MemoryExtendsFile
  <2>6. QED
    BY <1>4, <1>c, <2>1, <2>3, <2>4, <2>5 DEF Stores
<1>7. CASE UNCHANGED <<uploadedFiles, upload_list>> /\ ~server_start
  <2>1. FileStored'
    BY <1>0, <1>7, <1>a, <1>b DEF FileStored, Kept
  <2>2. server' \in {"up", "deaf"} => server \in {"up", "deaf"}
    <3>1. ASSUME NEW c \in Connections, ConnectionHandler(c) PROVE server' = server
      BY <3>1 DEF ConnectionHandler, read_command, end_of_stream, send_list, send_answer, store_file,
         refuse_file, banned_goodbye, putFileRecord, serialize_open, serialize_write, confirm
    <3>2. QED
      BY <1>7, <3>1, WhoHandles DEF server_crash, verdict
  <2>3. MemoryExtendsFile'
    BY <1>0, <1>7, <2>2 DEF MemoryExtendsFile
  <2>4. QED
    BY <1>4, <1>7, <1>c, <2>1, <2>3 DEF Stores
<1>8. \/ UNCHANGED <<uploadedFiles, upload_list>> \/ server_start \/ server_crash
      \/ \E c \in Connections : putFileRecord(c) \/ serialize_open(c) \/ serialize_write(c)
  BY WhoStores DEF Storage, send_answer, store_file, confirm
<1>9. QED
  BY <1>1, <1>2, <1>3, <1>5, <1>6, <1>7, <1>8

(* What was confirmed or about to be is so still; what is new has just     *)
(* been written.                                                           *)
LEMMA ClaimedBefore ==
  ASSUME Types, Sessions, [Next]_vars, NEW r, Claimed(r)'
  PROVE  Claimed(r) \/ \E c \in Connections : serialize_write(c) /\ r = RecordOf(c)
<1>0. HandlerTypes
  BY DEF Types
<1>1. CASE r \in acked'
  <2>1. CASE acked' = acked
    BY <1>1, <2>1 DEF Claimed
  <2>2. ASSUME NEW c \in Connections, confirm(c) PROVE Claimed(r)
    <3>1. acked' = acked \cup {RecordOf(c)} /\ arg[c].cmd = "upload" /\ hpc[c] = "reply"
      BY <2>2 DEF confirm, Answer, Handler, RecordOf
    <3>2. QED
      BY <1>1, <3>1 DEF Claimed
  <2>3. acked' = acked \/ \E c \in Connections : confirm(c)
    BY WhoStores DEF Storage, server_start, server_crash, send_answer, store_file, putFileRecord,
       serialize_open, serialize_write
  <2>4. QED
    BY <2>1, <2>2, <2>3
<1>2. ASSUME NEW c \in Connections, hpc'[c] = "reply", arg'[c].cmd = "upload", r = RecordOf(c)'
      PROVE  Claimed(r) \/ (serialize_write(c) /\ r = RecordOf(c))
  <2>1. CASE serialize_write(c)
    BY <1>2, <2>1 DEF serialize_write, RecordOf
  <2>2. CASE hpc[c] = "reply" /\ arg'[c] = arg[c]
    BY <1>2, <2>2 DEF Claimed, RecordOf
  <2>3. QED
    BY <1>2, <2>1, <2>2, PlaceReached
<1>3. QED
  BY <1>1, <1>2 DEF Claimed

(* While a server runs, its list only grows.                               *)
LEMMA ListGrows ==
  ASSUME Types, [Next]_vars, ~server_start, ~server_crash, NEW r, NEW n \in Nat,
         n <= Len(uploadedFiles), Among(r, uploadedFiles, n)
  PROVE  /\ n <= Len(uploadedFiles') /\ Len(uploadedFiles') \in Nat
         /\ Among(r, uploadedFiles', n) /\ Among(r, uploadedFiles', Len(uploadedFiles'))
<1>0. ListTypes /\ HandlerTypes /\ Len(uploadedFiles) \in Nat
  BY DEF Types, ListTypes
<1>1. CASE uploadedFiles' = uploadedFiles
  BY <1>0, <1>1 DEF Among
<1>2. ASSUME NEW c \in Connections, putFileRecord(c)
      PROVE  Extends(uploadedFiles', uploadedFiles, RecordOf(c))
  <2>1. RecordOf(c) \in ListOpRecord
    BY <1>0, <1>2, ServerAssumption DEF putFileRecord, Handler, HandlerTypes, Busy, UploadMessage, RecordOf, ListOpRecord
  <2>2. uploadedFiles \in Seq(ListOpRecord) /\ uploadedFiles' = Append(uploadedFiles, RecordOf(c))
    BY <1>0, <1>2 DEF ListTypes, putFileRecord, RecordOf
  <2>3. QED
    BY <2>1, <2>2, Grown
<1>3. CASE \E c \in Connections : putFileRecord(c)
  BY <1>0, <1>2, <1>3 DEF Among, Extends
<1>4. uploadedFiles' = uploadedFiles \/ \E c \in Connections : putFileRecord(c)
  BY WhoStores DEF Storage, send_answer, store_file, serialize_open, serialize_write, confirm
<1>5. QED
  BY <1>1, <1>3, <1>4

(* Confirmed uploads stay in the list that a restart reads, unless it was  *)
(* torn.                                                                   *)
LEMMA NextSaves == Types /\ Sessions /\ Stores /\ Saves /\ [Next]_vars => Saves'
<1> SUFFICES ASSUME Types, Sessions, Stores, Saves, [Next]_vars PROVE Saves'
  OBVIOUS
<1>0. /\ HandlerTypes /\ ListTypes /\ SizeFits /\ MemoryExtendsFile
      /\ OpenListed /\ WriteListed /\ OneWriter /\ ClaimsSaved /\ ClaimsWritten
  BY DEF Types, Stores, Saves
<1>a. Len(uploadedFiles) \in Nat /\ Len(upload_list) \in Nat
  BY <1>0 DEF ListTypes
<1>b. \A c \in Connections : hpc[c] = "write" => arg[c].size \in Nat /\ arg[c].size <= Len(uploadedFiles)
  BY <1>0 DEF SizeFits, HandlerTypes, Busy, UploadMessage
<1>c. ASSUME NEW c \in Connections, hpc[c] # "off", hpc'[c] # "off" PROVE ~server_start /\ ~server_crash
  BY <1>0, <1>c DEF HandlerTypes, server_start, server_crash
<1>d. torn => torn'
  BY WhoStores DEF Storage, server_start, server_crash, send_answer, store_file, putFileRecord,
     serialize_open, serialize_write, confirm
<1>e. \A c \in Connections : serialize_write(c) => hpc[c] = "write" /\ hpc'[c] = "reply" /\ torn' = torn
  BY <1>0 DEF serialize_write, Handler, HandlerTypes
<1>f. ASSUME NEW c \in Connections, serialize_open(c)
      PROVE  /\ hpc[c] = "open" /\ hpc'[c] = "write" /\ uploadedFiles' = uploadedFiles
             /\ arg'[c].size = Len(uploadedFiles) /\ RecordOf(c)' = RecordOf(c)
             /\ (~torn' => NoWriter /\ ~torn)
             /\ \A d \in Connections : d # c => hpc'[d] = hpc[d]
  <2>1. /\ hpc[c] = "open" /\ hpc' = [hpc EXCEPT ![c] = "write"] /\ uploadedFiles' = uploadedFiles
        /\ arg' = [arg EXCEPT ![c] = [arg[c] EXCEPT !.size = Len(uploadedFiles)]]
        /\ torn' = (torn \/ \E d \in Connections : hpc[d] = "write")
    BY <1>f DEF serialize_open, Handler
  <2>2. arg[c] \in UploadMessage
    BY <1>0, <2>1 DEF HandlerTypes, Busy
  <2>3. arg'[c].size = Len(uploadedFiles) /\ arg'[c].file = arg[c].file
    BY <1>0, <2>1, <2>2 DEF HandlerTypes, UploadMessage
  <2>4. QED
    BY <1>0, <2>1, <2>3 DEF HandlerTypes, RecordOf, NoWriter
<1>g. OpenListed'
  <2> SUFFICES ASSUME NEW c \in Connections, hpc'[c] = "open" PROVE Among(RecordOf(c), uploadedFiles, Len(uploadedFiles))'
    BY DEF OpenListed
  <2>1. CASE putFileRecord(c)
    <3>1. RecordOf(c) \in ListOpRecord
      BY <1>0, <2>1, ServerAssumption DEF putFileRecord, Handler, HandlerTypes, Busy, UploadMessage, RecordOf, ListOpRecord
    <3>2. /\ uploadedFiles \in Seq(ListOpRecord) /\ uploadedFiles' = Append(uploadedFiles, RecordOf(c))
          /\ RecordOf(c)' = RecordOf(c)
      BY <1>0, <2>1 DEF ListTypes, putFileRecord, RecordOf
    <3>3. Extends(uploadedFiles', uploadedFiles, RecordOf(c))
      BY <3>1, <3>2, Grown
    <3>4. QED
      BY <3>2, <3>3 DEF Extends, Among
  <2>2. CASE hpc[c] = "open" /\ arg'[c] = arg[c]
    <3>1. ~server_start /\ ~server_crash /\ RecordOf(c)' = RecordOf(c)
      BY <1>c, <2>2 DEF RecordOf
    <3>2. Among(RecordOf(c), uploadedFiles, Len(uploadedFiles))
      BY <1>0, <2>2 DEF OpenListed
    <3>3. QED
      BY <1>a, <3>1, <3>2, ListGrows
  <2>3. QED
    BY <2>1, <2>2, PlaceReached
<1>h. WriteListed'
  <2> SUFFICES ASSUME NEW c \in Connections, hpc'[c] = "write" PROVE Among(RecordOf(c), uploadedFiles, arg[c].size)'
    BY DEF WriteListed
  <2>1. CASE serialize_open(c)
    <3>1. Among(RecordOf(c), uploadedFiles, Len(uploadedFiles))
      BY <1>0, <1>f, <2>1 DEF OpenListed
    <3>2. QED
      BY <1>f, <2>1, <3>1
  <2>2. CASE hpc[c] = "write" /\ arg'[c] = arg[c]
    <3>1. ~server_start /\ ~server_crash /\ RecordOf(c)' = RecordOf(c)
      BY <1>c, <2>2 DEF RecordOf
    <3>2. Among(RecordOf(c), uploadedFiles, arg[c].size)
      BY <1>0, <2>2 DEF WriteListed
    <3>3. QED
      BY <1>b, <2>2, <3>1, <3>2, ListGrows
  <2>3. QED
    BY <2>1, <2>2, PlaceReached
<1>i. OneWriter'
  <2> SUFFICES ASSUME ~torn', NEW c \in Connections, NEW d \in Connections, hpc'[c] = "write", hpc'[d] = "write"
               PROVE  c = d
    BY DEF OneWriter
  <2>1. (serialize_open(c) \/ hpc[c] = "write") /\ (serialize_open(d) \/ hpc[d] = "write")
    BY PlaceReached
  <2>2. CASE serialize_open(c)
    BY <1>f, <2>1, <2>2 DEF NoWriter
  <2>3. CASE serialize_open(d)
    BY <1>f, <2>1, <2>3 DEF NoWriter
  <2>4. CASE hpc[c] = "write" /\ hpc[d] = "write"
    BY <1>0, <1>d, <2>4 DEF OneWriter
  <2>5. QED
    BY <2>1, <2>2, <2>3, <2>4
<1>j. ClaimsSaved'
  <2> SUFFICES ASSUME ~torn', NoWriter', NEW r, Claimed(r)' PROVE Among(r, upload_list, Len(upload_list))'
    BY DEF ClaimsSaved
  <2>1. Claimed(r) \/ \E c \in Connections : serialize_write(c) /\ r = RecordOf(c)
    BY ClaimedBefore
  <2>2. ASSUME NEW c \in Connections, serialize_write(c) PROVE Among(r, upload_list, Len(upload_list))'
    <3> DEFINE n == arg[c].size
    <3>1. hpc[c] = "write" /\ ~torn /\ n \in Nat /\ n <= Len(uploadedFiles)
      BY <1>b, <1>e, <2>2
    <3>2. upload_list' = SubSeq(uploadedFiles, 1, n) /\ uploadedFiles \in Seq(ListOpRecord)
      BY <1>0, <2>2 DEF serialize_write, Written, ListTypes
    <3>3. Among(r, uploadedFiles, n)
      <4>1. CASE Claimed(r)
        BY <1>0, <3>1, <4>1 DEF ClaimsWritten
      <4>2. ASSUME NEW d \in Connections, serialize_write(d), r = RecordOf(d) PROVE Among(r, uploadedFiles, n)
        <5>1. c = d
          BY <1>0, <1>e, <3>1, <4>2 DEF OneWriter
        <5>2. QED
          BY <1>0, <3>1, <4>2, <5>1 DEF WriteListed
      <4>3. QED
        BY <2>1, <4>1, <4>2
    <3> HIDE DEF n
    <3>4. Len(upload_list') = n /\ \A i \in 1..n : upload_list'[i] = uploadedFiles[i]
      BY <1>a, <3>1, <3>2, SubSeqProperties
    <3>5. QED
      BY <3>3, <3>4 DEF Among
  <2>3. CASE \A c \in Connections : ~serialize_write(c)
    <3>1. ~torn /\ NoWriter
      <4>1. server_crash => NoWriter
        BY DEF server_crash, NoWriter
      <4>2. QED
        BY <1>d, <2>3, <4>1, PlaceReached DEF NoWriter
    <3>2. Among(r, upload_list, Len(upload_list))
      BY <1>0, <2>1, <2>3, <3>1 DEF ClaimsSaved
    <3>3. \A c \in Connections : ~serialize_open(c)
      BY <1>f DEF NoWriter
    <3>4. upload_list' = upload_list
      BY <2>3, <3>3, WhoStores DEF Storage, server_start, server_crash, send_answer, store_file, putFileRecord, confirm
    <3>5. QED
      BY <3>2, <3>4
  <2>4. QED
    BY <2>2, <2>3
<1>k. ClaimsWritten'
  <2> SUFFICES ASSUME ~torn', NEW c \in Connections, hpc'[c] = "write", NEW r, Claimed(r)'
               PROVE  Among(r, uploadedFiles, arg[c].size)'
    BY DEF ClaimsWritten
  <2>1. Claimed(r) \/ \E d \in Connections : serialize_write(d)
    BY ClaimedBefore
  <2>2. CASE serialize_open(c)
    <3>1. NoWriter /\ ~torn /\ server \in {"up", "deaf"}
      BY <1>0, <1>f, <2>2 DEF HandlerTypes
    <3>2. Claimed(r)
      BY <1>e, <2>1, <3>1 DEF NoWriter
    <3>3. Among(r, upload_list, Len(upload_list))
      BY <1>0, <3>1, <3>2 DEF ClaimsSaved
    <3>4. Among(r, uploadedFiles, Len(uploadedFiles))
      BY <1>0, <1>a, <3>1, <3>3 DEF MemoryExtendsFile, Among
    <3>5. QED
      BY <1>f, <2>2, <3>4
  <2>3. CASE hpc[c] = "write" /\ arg'[c] = arg[c]
    <3>1. ~server_start /\ ~server_crash /\ ~torn
      BY <1>c, <1>d, <2>3
    <3>2. Claimed(r)
      BY <1>0, <1>e, <2>1, <2>3, <3>1 DEF OneWriter
    <3>3. Among(r, uploadedFiles, arg[c].size)
      BY <1>0, <2>3, <3>1, <3>2 DEF ClaimsWritten
    <3>4. QED
      BY <1>b, <2>3, <3>1, <3>3, ListGrows
  <2>4. QED
    BY <2>2, <2>3, PlaceReached
<1>l. QED
  BY <1>g, <1>h, <1>i, <1>j, <1>k DEF Saves

ListInv == Types /\ Sessions /\ Stores /\ Saves

(* Nothing is listed, confirmed, queued or served at the start.            *)
LEMMA InitLists == Init => ListInv
<1> SUFFICES ASSUME Init PROVE ListInv
  OBVIOUS
<1>1. Types
  BY InitTypes
<1>2. /\ backlog = <<>> /\ acc.pc = "accept" /\ uploadedFiles = <<>> /\ upload_list = <<>>
      /\ acked = {} /\ server = "down"
      /\ \A c \in Connections : hpc[c] = "off" /\ toClient[c] = <<>>
  BY DEF Init, NoOne
<1>3. Sessions
  BY <1>2 DEF Sessions, InQueue, QueuedOnce, InQuestion, Unserved
<1>4. Stores
  BY <1>2 DEF Stores, MemoryStored, FileStored, RecordStored, SizeFits, MemoryExtendsFile
<1>5. OpenListed /\ WriteListed /\ OneWriter
  BY <1>2 DEF OpenListed, WriteListed, OneWriter
<1>6. ClaimsSaved /\ ClaimsWritten
  BY <1>2 DEF ClaimsSaved, ClaimsWritten, Claimed
<1>7. QED
  BY <1>1, <1>3, <1>4, <1>5, <1>6 DEF ListInv, Saves

LEMMA NextLists == ListInv /\ [Next]_vars => ListInv'
BY NextAuthTypes, NextLinkTypes, NextHandlerTypes, NextListTypes, NextSessions, NextStores, NextSaves
   DEF ListInv, Types

(* The invariant of the lists holds in every reachable state.              *)
LEMMA ListInvariance == Spec => []ListInv
<1>1. Init => ListInv
  BY InitLists
<1>2. ListInv /\ [Next]_vars => ListInv'
  BY NextLists
<1>3. QED
  BY <1>1, <1>2, PTL DEF Spec

(* Server.deserialize finds in __upload_list.bin only files that           *)
(* downloadFile has stored, after any stop at any moment of serialize, and *)
(* the list in memory of a running server starts with what is in the file. *)
THEOREM ListsSound == Spec => []ListedIsStored
<1>1. ListInv => ListedIsStored
  <2> SUFFICES ASSUME ListInv PROVE ListedIsStored
    OBVIOUS
  <2>0. ListTypes /\ MemoryStored /\ FileStored /\ MemoryExtendsFile
    BY DEF ListInv, Types, Stores
  <2>1. /\ uploadedFiles \in Seq(ListOpRecord) /\ upload_list \in Seq(ListOpRecord)
        /\ Len(uploadedFiles) \in Nat /\ Len(upload_list) \in Nat
        /\ DOMAIN uploadedFiles = 1..Len(uploadedFiles) /\ DOMAIN upload_list = 1..Len(upload_list)
    BY <2>0, LenProperties DEF ListTypes
  <2>2. \A r \in ToSet(uploadedFiles) \cup ToSet(upload_list) : Kept(r.numeFisier)
    BY <2>0, <2>1 DEF ToSet, MemoryStored, FileStored
  <2>3. ASSUME server = "up" PROVE IsPrefix(upload_list, uploadedFiles)
    <3> DEFINE n == Len(upload_list)
    <3>1. n \in Nat /\ n <= Len(uploadedFiles) /\ \A i \in 1..n : upload_list[i] = uploadedFiles[i]
      BY <2>0, <2>1, <2>3 DEF MemoryExtendsFile
    <3> DEFINE s == SubSeq(upload_list, 1, n)
               t == SubSeq(uploadedFiles, 1, n)
    <3>2. s \in Seq(ListOpRecord) /\ Len(s) = n /\ \A i \in 1..n : s[i] = upload_list[i]
      <4> HIDE DEF n
      <4>1. n = Len(upload_list)
        BY DEF n
      <4>2. QED
        BY <2>1, <3>1, <4>1, SubSeqProperties
    <3>3. t \in Seq(ListOpRecord) /\ Len(t) = n /\ \A i \in 1..n : t[i] = uploadedFiles[i]
      <4> HIDE DEF n
      <4>1. QED
        BY <2>1, <3>1, SubSeqProperties
    <3>4. s = t
      <4> HIDE DEF s, t, n
      <4>1. QED
        BY <3>1, <3>2, <3>3, SeqEqual
    <3>5. QED
      BY <3>1, <3>4 DEF IsPrefix
  <2>4. QED
    BY <2>2, <2>3 DEF ListedIsStored, Kept
<1>2. QED
  BY <1>1, ListInvariance, PTL

(* An upload that the server has confirmed is in __upload_list.bin and so  *)
(* survives a restart, whatever handlers and stops do, as long as no two   *)
(* handlers were in serialize at once and no stop fell into it.            *)
THEOREM UploadsAreDurable == Spec => []ConfirmedIsSaved
<1>1. ListInv => ConfirmedIsSaved
  <2> SUFFICES ASSUME ListInv, ~torn, \A c \in Connections : hpc[c] # "write", NEW r \in acked
               PROVE  r \in ToSet(upload_list)
    BY DEF ConfirmedIsSaved
  <2>1. Among(r, upload_list, Len(upload_list))
    BY DEF ListInv, Saves, ClaimsSaved, NoWriter, Claimed
  <2>2. DOMAIN upload_list = 1..Len(upload_list)
    BY LenProperties DEF ListInv, Types, ListTypes
  <2>3. QED
    BY <2>1, <2>2 DEF ToSet, Among
<1>2. QED
  BY <1>1, ListInvariance, PTL

---------------------------------------------------------------------------
(* The files of the bans. *)

(* What holds of the files while the serving thread, or timer i, has its   *)
(* turn and every other thread is between two tasks.                       *)
Quiet(i) == timers[i].pc \in {"set", "over"}
MainFiles ==
    /\ main.pc \in {"ban4", "ban5", "ban6"} \/ Holds(enc)
    /\ main.pc \in {"check2", "ban2"} => Holds(dec)
    /\ main.pc = "ban4" => ~enc.there
TimerFiles(i) ==
    /\ timers[i].pc \in {"t4", "t5", "t6"} \/ Holds(enc)
    /\ timers[i].pc \in {"t2", "t3", "t4", "t5", "t6"} => Holds(dec)
    /\ timers[i].pc = "t4" => ~enc.there

AllQuiet == \A i \in 1..Len(timers) : Quiet(i)
LEMMA MainTurn ==
  AllQuiet =>
     ((MainFiles /\ NameAdded) <=> (Turns /\ EncHolds /\ DecHolds /\ EncDeleted /\ NameAdded))
<1> SUFFICES ASSUME AllQuiet
             PROVE  (MainFiles /\ NameAdded) <=> (Turns /\ EncHolds /\ DecHolds /\ EncDeleted /\ NameAdded)
  OBVIOUS
<1>1. Turns
  BY DEF Turns, TimerBusy, Quiet, AllQuiet
<1>2. ~TimerAt({"t4", "t5", "t6"}) /\ ~TimerAt({"t2", "t3", "t4", "t5", "t6"}) /\ ~TimerAt({"t4"})
  BY DEF TimerAt, Quiet, AllQuiet
<1>3. QED
  BY <1>1, <1>2 DEF MainFiles, EncHolds, DecHolds, EncDeleted

OnlyTimer(i) == i \in 1..Len(timers) /\ ~MainBusy /\ \A j \in 1..Len(timers) : j # i => Quiet(j)
TimerRule ==
  \A i \in Nat : OnlyTimer(i) => (TimerFiles(i) <=> (Turns /\ EncHolds /\ DecHolds /\ EncDeleted /\ NameAdded))
LEMMA TimerTurn == TimerRule
<1> SUFFICES ASSUME NEW i \in Nat, OnlyTimer(i)
             PROVE  TimerFiles(i) <=> (Turns /\ EncHolds /\ DecHolds /\ EncDeleted /\ NameAdded)
  BY DEF TimerRule
<1> USE DEF OnlyTimer
<1>1. Turns
  BY DEF Turns, TimerBusy, Quiet
<1>2. /\ TimerAt({"t4", "t5", "t6"}) <=> timers[i].pc \in {"t4", "t5", "t6"}
      /\ TimerAt({"t2", "t3", "t4", "t5", "t6"}) <=> timers[i].pc \in {"t2", "t3", "t4", "t5", "t6"}
      /\ TimerAt({"t4"}) <=> timers[i].pc = "t4"
  BY DEF TimerAt, Quiet
<1>3. NameAdded
  BY DEF NameAdded, MainBusy
<1>4. QED
  BY <1>1, <1>2, <1>3 DEF TimerFiles, EncHolds, DecHolds, EncDeleted, MainBusy

(* Step by step the threads keep all banned names in one of the files.     *)
LEMMA NextFiles == Types /\ Files /\ [Next]_vars => Files'
<1> SUFFICES ASSUME Types, Files, [Next]_vars, Orderly'
             PROVE  (Turns /\ EncHolds /\ DecHolds /\ EncDeleted /\ NameAdded)'
  BY DEF Files
<1>0. AuthTypes
  BY DEF Types
<1>1. CASE UNCHANGED <<auth, lossy, enc, dec, timers, banned, main.pc, Named>>
  <2>1. Orderly
    BY <1>1 DEF Orderly
  <2>2. Turns /\ EncHolds /\ DecHolds /\ EncDeleted /\ NameAdded
    BY <2>1 DEF Files
  <2>3. Turns' /\ EncHolds' /\ DecHolds'
    BY <1>1, <2>2 DEF Turns, EncHolds, DecHolds, TimerBusy, MainBusy, TimerAt, Holds
  <2>4. EncDeleted' /\ NameAdded'
    BY <1>1, <2>2 DEF EncDeleted, NameAdded, Adds, TimerAt
  <2>5. QED
    BY <2>3, <2>4
<1>2. CASE server_crash \/ accept \/ verdict \/ \E c \in Connections : refuse_file(c) \/ banned_goodbye(c)
  <2>1. UNCHANGED <<auth, lossy, enc, dec, timers, banned>>
    BY <1>2 DEF server_crash, accept, verdict, refuse_file, banned_goodbye, Taken
  <2>2. UNCHANGED <<main.pc, Named>>
    <3>1. CASE server_crash
      BY <1>0, <3>1 DEF server_crash, Named, AuthTypes, MainState, Request
    <3>2. CASE main' = main
      BY <3>2 DEF Named
    <3>3. QED
      BY <1>2, <3>1, <3>2 DEF accept, verdict, refuse_file, banned_goodbye, Taken
  <2>3. QED
    BY <1>1, <2>1, <2>2
<1>3. CASE auth_start \/ auth_dies
  <2>1. auth # "dead" /\ auth_start /\ lossy' = lossy
    BY <1>3 DEF Orderly, auth_start, auth_dies
  <2>2. Turns /\ EncHolds /\ DecHolds /\ EncDeleted /\ NameAdded
    BY <2>1 DEF Orderly, Files
  <2>3. UNCHANGED <<enc, dec, timers, banned, main>>
    BY <2>1 DEF auth_start, files
  <2>4. Turns' /\ EncHolds' /\ DecHolds'
    BY <2>2, <2>3 DEF Turns, EncHolds, DecHolds, TimerBusy, MainBusy, TimerAt, Holds
  <2>5. EncDeleted' /\ NameAdded'
    BY <2>2, <2>3 DEF EncDeleted, NameAdded, Adds, TimerAt, Named
  <2>6. QED
    BY <2>4, <2>5
<1>4. CASE processRequest \/ reply
  <2>1. /\ main.pc \in {"idle", "reply"} /\ main'.pc \in {"idle", "ban1", "check1", "reply"}
        /\ UNCHANGED <<auth, lossy, enc, dec, timers, banned>>
    <3>1. CASE processRequest
      BY <3>1 DEF processRequest, FirstStep, files
    <3>2. CASE reply
      BY <1>0, <3>2 DEF reply, files, AuthTypes, MainState
    <3>3. QED
      BY <1>4, <3>1, <3>2
  <2>2. Turns /\ EncHolds /\ DecHolds /\ EncDeleted
    BY <2>1 DEF Orderly, Files
  <2>3. ~MainBusy'
    BY <2>1 DEF MainBusy
  <2>4. Turns'
    BY <2>1, <2>2, <2>3 DEF Turns, TimerBusy
  <2>5. EncHolds' /\ DecHolds'
    BY <2>1, <2>2 DEF EncHolds, DecHolds, TimerAt, Holds
  <2>6. EncDeleted' /\ NameAdded'
    BY <2>1, <2>2 DEF EncDeleted, NameAdded, TimerAt
  <2>7. QED
    BY <2>4, <2>5, <2>6
<1>5. ASSUME lossy' = (lossy \/ \E i \in DOMAIN timers : TimerBusy(i)), auth' = auth
      PROVE  AllQuiet /\ MainFiles /\ NameAdded
  <2>1. Orderly /\ \A i \in 1..Len(timers) : ~TimerBusy(i)
    <3>1. DOMAIN timers = 1..Len(timers)
      BY <1>0, LenProperties DEF AuthTypes
    <3>2. QED
      BY <1>5, <3>1 DEF Orderly
  <2>2. AllQuiet
    BY <2>1 DEF TimerBusy, Quiet, AllQuiet
  <2>3. QED
    BY <2>1, <2>2, MainTurn DEF Files
<1>6. ASSUME AllQuiet', MainFiles', NameAdded'
      PROVE  (Turns /\ EncHolds /\ DecHolds /\ EncDeleted /\ NameAdded)'
  BY <1>6, MainTurn, PTL
<1>7. CASE isBanned_decrypt \/ isBanned_look \/ isBanned_delete
  <2>1. /\ lossy' = (lossy \/ \E i \in DOMAIN timers : TimerBusy(i)) /\ auth' = auth
        /\ UNCHANGED <<enc, timers, banned>>
        /\ main'.pc \in {"check2", "check3", "reply"}
    <3>0. main \in MainState
      BY <1>0 DEF AuthTypes
    <3>1. CASE isBanned_decrypt
      BY <3>0, <3>1 DEF isBanned_decrypt, MainGoes, MainAnswers, MainState
    <3>2. CASE isBanned_look
      BY <3>0, <3>2 DEF isBanned_look, files, MainState
    <3>3. CASE isBanned_delete
      BY <3>0, <3>3 DEF isBanned_delete, MainAnswers, MainState
    <3>4. QED
      BY <1>7, <3>1, <3>2, <3>3
  <2>2. AllQuiet /\ MainFiles
    BY <1>5, <2>1
  <2>3. AllQuiet' /\ NameAdded'
    BY <2>1, <2>2 DEF AllQuiet, Quiet, NameAdded
  <2>4. main'.pc = "check2" => dec' = enc
    <3>0. main \in MainState
      BY <1>0 DEF AuthTypes
    <3>1. CASE isBanned_decrypt
      BY <3>0, <3>1 DEF isBanned_decrypt, MainGoes, MainAnswers, MainState
    <3>2. CASE isBanned_look
      BY <3>0, <3>2 DEF isBanned_look, MainState
    <3>3. CASE isBanned_delete
      BY <3>0, <3>3 DEF isBanned_delete, MainAnswers, MainState
    <3>4. QED
      BY <1>7, <3>1, <3>2, <3>3
  <2>5. main.pc \in {"check1", "check2", "check3"}
    BY <1>7 DEF isBanned_decrypt, isBanned_look, isBanned_delete
  <2>6. MainFiles'
    BY <2>1, <2>2, <2>4, <2>5 DEF MainFiles, Holds
  <2>7. QED
    BY <1>6, <2>3, <2>6
<1>8. CASE ban_decrypt \/ ban_append \/ ban_delete \/ ban_create \/ ban_encrypt \/ ban_clean
  <2> USE DEF BanEnds, BanGoes, MainGoes, MainAnswers
  <2>1. /\ lossy' = (lossy \/ \E i \in DOMAIN timers : TimerBusy(i)) /\ auth' = auth
        /\ \/ timers' = timers
           \/ timers' = Append(timers, [pc |-> "set", client |-> Named])
    BY <1>8 DEF ban_decrypt, ban_append, ban_delete, ban_create, ban_encrypt, ban_clean
  <2>2. AllQuiet /\ MainFiles /\ NameAdded
    BY <1>5, <2>1
  <2>3. AllQuiet'
    <3>1. CASE timers' = timers
      BY <2>2, <3>1 DEF AllQuiet, Quiet
    <3>2. CASE timers' = Append(timers, [pc |-> "set", client |-> Named])
      <4>1. timers \in Seq(TimerState) /\ [pc |-> "set", client |-> Named] \in TimerState
        BY <1>0 DEF AuthTypes, TimerState, Named, MainState, Request
      <4>2. Extends(timers', timers, [pc |-> "set", client |-> Named])
        BY <3>2, <4>1, Grown
      <4>3. QED
        BY <2>2, <4>2 DEF AllQuiet, Quiet, Extends
    <3>3. QED
      BY <2>1, <3>1, <3>2
  <2>4. Named' = Named
    BY <1>0, <1>8 DEF ban_decrypt, ban_append, ban_delete, ban_create, ban_encrypt, ban_clean, Named, AuthTypes, MainState
  <2>5. main \in MainState
    BY <1>0 DEF AuthTypes
  <2>6. CASE ban_decrypt
    <3>1. /\ main.pc = "ban1" /\ UNCHANGED enc
          /\ \/ main'.pc = "ban2" /\ dec' = enc /\ banned' = banned
             \/ ~enc.there
      BY <2>5, <2>6 DEF ban_decrypt, MainState
    <3>2. MainFiles' /\ NameAdded'
      BY <2>2, <3>1 DEF MainFiles, NameAdded, Holds, Adds, Holding
    <3>3. QED
      BY <1>6, <2>3, <3>2
  <2>7. CASE ban_append
    <3>1. /\ main.pc = "ban2" /\ main'.pc = "ban3" /\ UNCHANGED <<enc, banned>>
          /\ dec' = Holding(Append(dec.names, Named))
      BY <2>5, <2>7 DEF ban_append, MainState
    <3>2. dec.names = banned
      BY <2>2, <3>1 DEF MainFiles, Holds, Holding
    <3>3. MainFiles' /\ NameAdded'
      BY <2>2, <2>4, <3>1, <3>2 DEF MainFiles, NameAdded, Holds, Adds
    <3>4. QED
      BY <1>6, <2>3, <3>3
  <2>8. CASE ban_delete
    <3>1. main.pc = "ban3" /\ main'.pc = "ban4" /\ UNCHANGED <<dec, banned>> /\ enc' = Absent
      BY <2>5, <2>8 DEF ban_delete, MainState
    <3>2. MainFiles' /\ NameAdded'
      BY <2>2, <2>4, <3>1 DEF MainFiles, NameAdded, Holds, Adds, Absent
    <3>3. QED
      BY <1>6, <2>3, <3>2
  <2>9. CASE ban_create
    <3>1. /\ main.pc = "ban4" /\ ~enc.there
      BY <2>2, <2>9 DEF ban_create, MainFiles
    <3>2. main'.pc = "ban5" /\ UNCHANGED <<dec, banned>>
      BY <2>5, <2>9, <3>1 DEF ban_create, MainState
    <3>3. MainFiles' /\ NameAdded'
      BY <2>2, <2>4, <3>1, <3>2 DEF MainFiles, NameAdded, Holds, Adds, Holding
    <3>4. QED
      BY <1>6, <2>3, <3>3
  <2>10. CASE ban_encrypt
    <3>1. main.pc = "ban5" /\ dec.there
      BY <2>2, <2>10 DEF ban_encrypt, NameAdded, Adds, Holding
    <3>2. main'.pc = "ban6" /\ enc' = dec /\ UNCHANGED <<dec, banned>>
      BY <2>5, <2>10, <3>1 DEF ban_encrypt, MainState
    <3>3. MainFiles' /\ NameAdded'
      BY <2>2, <2>4, <3>1, <3>2 DEF MainFiles, NameAdded, Holds, Adds, Holding
    <3>4. QED
      BY <1>6, <2>3, <3>3
  <2>11. CASE ban_clean
    <3>1. main.pc = "ban6" /\ main'.pc = "reply" /\ enc' = enc /\ banned' = Append(banned, Named)
      BY <2>5, <2>11 DEF ban_clean, MainState
    <3>2. MainFiles' /\ NameAdded'
      BY <2>2, <3>1 DEF MainFiles, NameAdded, Holds, Adds, Holding
    <3>3. QED
      BY <1>6, <2>3, <3>2
  <2>12. QED
    BY <1>8, <2>6, <2>7, <2>8, <2>9, <2>10, <2>11
<1>9. ASSUME NEW i \in DOMAIN timers, BannedTimerTask(i)
      PROVE  (Turns /\ EncHolds /\ DecHolds /\ EncDeleted /\ NameAdded)'
  <2>0. DOMAIN timers = 1..Len(timers) /\ Len(timers) \in Nat
    BY <1>0, LenProperties DEF AuthTypes
  <2> USE <1>9 DEF BannedTimerTask, timer_decrypt, timer_read, timer_delete, timer_create, timer_write,
                   timer_encrypt, timer_clean
  <2>1. PICK pc \in {"t2", "t3", "t4", "t5", "t6", "t7", "over"} : TimerGoes(i, pc)
    OBVIOUS
  <2>2. /\ Len(timers') = Len(timers) /\ timers'[i].pc = pc
        /\ \A j \in 1..Len(timers) : j # i => timers'[j] = timers[j]
    BY <1>0, <2>1, TimerMoves DEF AuthTypes
  <2>3. UNCHANGED <<banned, main, auth>> /\ ~MainBusy /\ \A j \in 1..Len(timers) : j # i => ~TimerBusy(j)
    BY <2>0, <2>1 DEF TimerGoes, Orderly
  <2>4. OnlyTimer(i) /\ Orderly
    BY <2>0, <2>1, <2>3 DEF OnlyTimer, TimerBusy, Quiet, Orderly, TimerGoes
  <2>5. TimerFiles(i)
    <3>1. TimerRule
      BY TimerTurn
    <3>2. QED
      BY <2>0, <2>4, <3>1 DEF TimerRule, Files
  <2>6. OnlyTimer(i)'
    BY <2>0, <2>2, <2>3, <2>4 DEF OnlyTimer, Quiet, MainBusy
  <2>7. TimerFiles(i)'
    <3> USE DEF TimerFiles, Holds, Holding
    <3>0. \A q \in {"t2", "t3", "t4", "t5", "t6", "t7", "over"} : TimerGoes(i, q) => timers'[i].pc = q
      BY <1>0, TimerMoves DEF AuthTypes
    <3>1. CASE timer_decrypt(i)
      <4>1. enc.there
        BY <2>5, <3>1
      <4>2. timers'[i].pc = "t2" /\ dec' = enc /\ enc' = enc
        BY <3>0, <3>1, <4>1
      <4>3. QED
        BY <2>3, <2>5, <3>1, <4>2
    <3>2. CASE timer_read(i)
      <4>1. timers'[i].pc = "t3" /\ UNCHANGED <<enc, dec>>
        BY <2>5, <3>0, <3>2 DEF files
      <4>2. QED
        BY <2>3, <2>5, <3>2, <4>1
    <3>3. CASE timer_delete(i)
      <4>1. timers'[i].pc = "t4" /\ enc' = Absent /\ dec' = dec
        BY <3>0, <3>3
      <4>2. QED
        BY <2>3, <2>5, <3>3, <4>1 DEF Absent
    <3>4. CASE timer_create(i) \/ timer_write(i)
      <4>1. timers'[i].pc \in {"t5", "t6"} /\ dec' = dec
        BY <2>5, <3>0, <3>4
      <4>2. QED
        BY <2>3, <2>5, <3>4, <4>1
    <3>5. CASE timer_encrypt(i) \/ timer_clean(i)
      <4>1. timers'[i].pc \in {"t7", "over"} /\ enc' = IF timers[i].pc = "t6" THEN dec ELSE enc
        BY <2>5, <3>0, <3>5
      <4>2. QED
        BY <2>3, <2>5, <3>5, <4>1
    <3>6. QED
      BY <3>1, <3>2, <3>3, <3>4, <3>5
  <2>8. TimerRule'
    BY TimerTurn, PTL
  <2>9. QED
    BY <2>0, <2>6, <2>7, <2>8 DEF TimerRule
<1>10. QED
  BY <1>1, <1>2, <1>3, <1>4, <1>7, <1>8, <1>9, WhoAsks DEF AuthNext, AuthServes, authVars, Named

---------------------------------------------------------------------------
(* Requests and verdicts. *)

(* Whoever waits for the answer to a request is in the place to do so.     *)
LEMMA CallerWaits ==
  ASSUME NEW r \in Request, Awaits(r)
  PROVE  /\ answers[r.from] = NoAnswer /\ r.from \in Callers
         /\ r.from = "accept" => r.kind = "CHECK" /\ acc.pc = "ask" /\ r.client = User[acc.conn]
         /\ r.from \in Connections => r.kind = "BAN" /\ hpc[r.from] = "ban"
BY ClientsAssumption DEF Awaits, Request, Callers

(* A caller goes on waiting when nothing of its own changes.               *)
LEMMA StillAwaits ==
  ASSUME NEW r \in Request, Awaits(r), answers'[r.from] = answers[r.from],
         r.from = "accept" => acc' = acc, r.from \in Connections => hpc'[r.from] = hpc[r.from]
  PROVE  Awaits(r)'
BY ClientsAssumption DEF Awaits, Request, Callers

(* Only a refused file takes a handler to the ban, only its answer back.   *)
LEMMA BanPlace ==
  ASSUME Types, Sessions, [Next]_vars, ~server_crash, NEW c \in Connections
  PROVE  (hpc[c] = "ban" <=> hpc'[c] = "ban") \/ refuse_file(c) \/ banned_goodbye(c)
<1>0. HandlerTypes /\ LinkTypes /\ Unserved /\ InQuestion
  BY DEF Types, Sessions
<1>1. CASE verdict
  <2>1. hpc[acc.conn] = "off" /\ acc.conn \in Connections
    BY <1>0, <1>1 DEF verdict, Unserved, InQuestion, LinkTypes, AccState
  <2>2. QED
    BY <1>0, <1>1, <2>1 DEF verdict, HandlerTypes
<1>2. ASSUME NEW d \in Connections, d # c, ConnectionHandler(d) PROVE hpc'[c] = hpc[c]
  BY <1>0, <1>2, HandlerMoves
<1>3. CASE read_command(c)
  <2>1. hpc[c] = "read" /\ hpc'[c] = Place(Head(toServer[c]))
    BY <1>0, <1>3 DEF read_command, Handler, HandlerTypes
  <2>2. QED
    BY <2>1 DEF Place
<1>4. CASE send_list(c) \/ send_answer(c) \/ confirm(c)
  <2>1. \E from \in {"list", "reply"} : \E m : Answer(c, from, m)
    BY <1>4 DEF send_list, send_answer, confirm
  <2>2. QED
    BY <1>0, <2>1, AnswerTypes
<1>5. CASE end_of_stream(c) \/ store_file(c) \/ putFileRecord(c) \/ serialize_open(c) \/ serialize_write(c)
  BY <1>0, <1>5 DEF end_of_stream, store_file, putFileRecord, serialize_open, serialize_write, Handler, HandlerTypes
<1>6. CASE hpc' = hpc
  BY <1>6
<1>7. QED
  BY <1>1, <1>2, <1>3, <1>4, <1>5, <1>6, WhoHandles DEF ConnectionHandler, server_start

(* Requests under way when the authorization server does a step.           *)
LEMMA AuthRequests ==
  ASSUME Types, Requests, AuthNext, UNCHANGED serverVars
  PROVE  Requests'
<1>0. /\ AuthTypes /\ main \in MainState /\ UNCHANGED <<acc, hpc>>
      /\ QueueAwaits /\ QueueDistinct /\ MainAwaits /\ MainDistinct /\ KindsFit /\ AnswerTaken /\ AnswersTaken
  BY DEF Types, AuthTypes, Requests, serverVars
<1>a. /\ Len(requests) \in Nat /\ \A i \in 1..Len(requests) : requests[i] \in Request /\ requests[i].from \in Callers
      /\ main.request \in Request
  <2>1. \A r \in QueuedRequest : r \in Request /\ r.from \in Callers
    BY DEF QueuedRequest, Request
  <2>2. requests \in Seq(QueuedRequest)
    BY <1>0 DEF AuthTypes
  <2>3. QED
    BY <1>0, <2>1, <2>2, ElementOfSeq, LenProperties DEF MainState
<1>b. "nobody" \notin Callers /\ "accept" \in Callers /\ "accept" \notin Connections
  BY ClientsAssumption DEF Callers
<1>1. ASSUME UNCHANGED <<requests, answers>>, main'.request = main.request, main.pc # "idle",
             Banning' => Banning, Checking' => Checking
      PROVE  Requests'
  <2>1. QueueAwaits'
    BY <1>0, <1>1 DEF QueueAwaits, Awaits
  <2>2. QueueDistinct' /\ AnswerTaken' /\ AnswersTaken'
    BY <1>0, <1>1 DEF QueueDistinct, AnswerTaken, AnswersTaken
  <2>3. MainAwaits'
    BY <1>0, <1>1 DEF MainAwaits, Awaits, Serving
  <2>4. MainDistinct' /\ KindsFit'
    BY <1>0, <1>1 DEF MainDistinct, Serving, KindsFit
  <2>5. QED
    BY <2>1, <2>2, <2>3, <2>4 DEF Requests
<1>2. ASSUME UNCHANGED <<requests, answers, main>> PROVE Requests'
  <2>1. QueueAwaits' /\ MainAwaits'
    BY <1>0, <1>2 DEF QueueAwaits, MainAwaits, Awaits, Serving
  <2>2. QueueDistinct' /\ AnswerTaken' /\ AnswersTaken'
    BY <1>0, <1>2 DEF QueueDistinct, AnswerTaken, AnswersTaken
  <2>3. MainDistinct' /\ KindsFit'
    BY <1>0, <1>2 DEF MainDistinct, Serving, KindsFit, Banning, Checking
  <2>4. QED
    BY <2>1, <2>2, <2>3 DEF Requests
<1>3. CASE auth_start \/ \E i \in DOMAIN timers : BannedTimerTask(i)
  BY <1>2, <1>3 DEF auth_start, BannedTimerTask, timer_decrypt, timer_read, timer_delete, timer_create,
     timer_write, timer_encrypt, timer_clean, TimerGoes
<1>4. CASE processRequest
  <2> DEFINE r == Head(requests)
  <2>1. /\ r = requests[1] /\ 1 \in 1..Len(requests) /\ Len(Tail(requests)) \in Nat
        /\ \A i \in 1..Len(Tail(requests)) : i + 1 \in 1..Len(requests) /\ i + 1 # 1 /\ Tail(requests)[i] = requests[i + 1]
    <3>1. requests \in Seq(QueuedRequest) /\ requests # <<>>
      BY <1>0, <1>4 DEF AuthTypes, processRequest
    <3>2. QED
      BY <3>1, Shortened
  <2>2. /\ main'.request = r /\ main'.pc = FirstStep(r) /\ requests' = Tail(requests) /\ answers' = answers
    BY <1>4 DEF processRequest
  <2>3. r \in Request /\ r.from \in Callers /\ Awaits(r)
    BY <1>0, <1>a, <2>1 DEF QueueAwaits
  <2> HIDE DEF r
  <2>4. QueueAwaits'
    BY <1>0, <2>1, <2>2 DEF QueueAwaits, Awaits
  <2>5. QueueDistinct'
    BY <1>0, <2>1, <2>2 DEF QueueDistinct
  <2>6. MainAwaits'
    BY <1>0, <2>2, <2>3 DEF MainAwaits, Awaits
  <2>7. MainDistinct'
    BY <1>0, <2>1, <2>2 DEF MainDistinct, QueueDistinct
  <2>8. KindsFit'
    BY <2>2, <2>3 DEF KindsFit, Banning, Checking, FirstStep, Request
  <2>9. AnswerTaken' /\ AnswersTaken'
    BY <1>0, <2>2 DEF AnswerTaken, AnswersTaken
  <2>10. QED
    BY <2>4, <2>5, <2>6, <2>7, <2>8, <2>9 DEF Requests
<1>5. ASSUME main'.pc = "idle", NEW W \in SUBSET Callers,
             \A i \in 1..Len(requests') : requests'[i] = requests[i] /\ requests[i].from \notin W,
             Len(requests') \in 0..Len(requests),
             \A c \in W : (c = "accept" => acc.pc = "ask") /\ (c \in Connections => hpc[c] = "ban"),
             \A c \in Callers \ W : answers'[c] = answers[c]
      PROVE  Requests'
  <2>1. QueueAwaits'
    <3> SUFFICES ASSUME NEW i \in 1..Len(requests') PROVE Awaits(requests[i])'
      BY DEF QueueAwaits
    <3>1. /\ i \in 1..Len(requests) /\ requests'[i] = requests[i] /\ requests[i] \in Request
          /\ answers'[requests[i].from] = answers[requests[i].from]
      BY <1>5, <1>a
    <3>2. Awaits(requests[i])
      BY <1>0, <3>1 DEF QueueAwaits
    <3>3. QED
      BY <1>0, <3>1, <3>2 DEF Awaits
  <2>2. QueueDistinct'
    BY <1>0, <1>a, <1>5 DEF QueueDistinct
  <2>3. MainAwaits' /\ MainDistinct' /\ KindsFit'
    BY <1>5 DEF MainAwaits, MainDistinct, KindsFit, Serving, Banning, Checking
  <2>4. AnswerTaken' /\ AnswersTaken'
    BY <1>0, <1>b, <1>5 DEF AnswerTaken, AnswersTaken, Callers
  <2>5. QED
    BY <2>1, <2>2, <2>3, <2>4 DEF Requests
<1>6. Serving => /\ main.request.from \in Callers
                 /\ main.request.from = "accept" => acc.pc = "ask"
                 /\ main.request.from \in Connections => hpc[main.request.from] = "ban"
  BY <1>0, <1>a, CallerWaits DEF MainAwaits
<1>7. CASE reply
  <2> DEFINE W == {c \in Callers : c = main.request.from}
  <2>1. /\ main'.pc = "idle" /\ main.pc # "idle" /\ requests' = requests
        /\ answers' = [c \in Callers |-> IF c = main.request.from THEN main.answer ELSE answers[c]]
    BY <1>0, <1>7 DEF reply, MainState
  <2>2. W # {} => Serving
    BY <1>b, <2>1 DEF Serving
  <2>3. \A i \in 1..Len(requests) : requests[i].from \notin W
    BY <1>0, <2>2 DEF MainDistinct
  <2>4. \A c \in W : (c = "accept" => acc.pc = "ask") /\ (c \in Connections => hpc[c] = "ban")
    BY <1>6, <2>2
  <2>5. \A c \in Callers \ W : answers'[c] = answers[c]
    BY <2>1
  <2>6. W \in SUBSET Callers
    OBVIOUS
  <2> HIDE DEF W
  <2>7. Len(requests') \in 0..Len(requests) /\ \A i \in 1..Len(requests') : requests'[i] = requests[i] /\ requests[i].from \notin W
    BY <1>a, <2>1, <2>3
  <2>8. QED
    BY <1>5, <2>1, <2>4, <2>5, <2>6, <2>7
<1>8. CASE auth_dies
  <2> DEFINE W == Waiting \cap Callers
  <2>1. /\ main'.pc = "idle" /\ requests' = <<>>
        /\ answers' = [c \in Callers |-> IF c \in Waiting THEN "null" ELSE answers[c]]
    BY <1>0, <1>8 DEF auth_dies
  <2>2. \A c \in W : (c = "accept" => acc.pc = "ask") /\ (c \in Connections => hpc[c] = "ban")
    <3> SUFFICES ASSUME NEW c \in W PROVE (c = "accept" => acc.pc = "ask") /\ (c \in Connections => hpc[c] = "ban")
      OBVIOUS
    <3>1. ASSUME NEW i \in 1..Len(requests), c = requests[i].from
          PROVE  (c = "accept" => acc.pc = "ask") /\ (c \in Connections => hpc[c] = "ban")
      <4>1. requests[i] \in Request /\ Awaits(requests[i])
        BY <1>0, <1>a, <3>1 DEF QueueAwaits
      <4>2. QED
        BY <3>1, <4>1, CallerWaits
    <3>2. CASE Serving /\ c = main.request.from
      BY <1>6, <3>2
    <3>3. DOMAIN requests = 1..Len(requests)
      BY <1>0, LenProperties DEF AuthTypes
    <3>4. QED
      BY <1>b, <3>1, <3>2, <3>3 DEF Waiting, Serving
  <2>3. \A c \in Callers \ W : answers'[c] = answers[c]
    BY <2>1
  <2>4. W \in SUBSET Callers
    OBVIOUS
  <2> HIDE DEF W
  <2>5. Len(requests') \in 0..Len(requests) /\ \A i \in 1..Len(requests') : requests'[i] = requests[i] /\ requests[i].from \notin W
    BY <1>a, <2>1
  <2>6. QED
    BY <1>5, <2>1, <2>2, <2>3, <2>4, <2>5
<1>9. CASE isBanned_decrypt \/ isBanned_look \/ isBanned_delete
  <2>1. /\ UNCHANGED <<requests, answers>> /\ Checking /\ main'.request = main.request
        /\ main'.pc \in {"check2", "check3", "reply"}
    <3>1. CASE isBanned_decrypt
      BY <1>0, <3>1 DEF isBanned_decrypt, MainGoes, MainAnswers, MainState, Checking
    <3>2. CASE isBanned_look
      BY <1>0, <3>2 DEF isBanned_look, MainState, Checking
    <3>3. CASE isBanned_delete
      BY <1>0, <3>3 DEF isBanned_delete, MainAnswers, MainState, Checking
    <3>4. QED
      BY <1>9, <3>1, <3>2, <3>3
  <2>2. QED
    BY <1>1, <2>1 DEF Checking, Banning
<1>10. CASE ban_decrypt \/ ban_append \/ ban_delete \/ ban_create \/ ban_encrypt \/ ban_clean
  <2>1. UNCHANGED <<requests, answers>> /\ Banning
    BY <1>10 DEF ban_decrypt, ban_append, ban_delete, ban_create, ban_encrypt, ban_clean, BanEnds, BanGoes,
       MainGoes, MainAnswers, Banning
  <2>2. \/ \E q \in {"ban2", "ban3", "ban4", "ban5", "ban6"} : MainGoes(q)
        \/ MainAnswers("OK")
    BY <1>10 DEF ban_decrypt, ban_append, ban_delete, ban_create, ban_encrypt, ban_clean, BanEnds, BanGoes
  <2>3. main'.request = main.request /\ main'.pc \in {"ban2", "ban3", "ban4", "ban5", "ban6", "reply"}
    BY <1>0, <2>2 DEF MainGoes, MainAnswers, MainState
  <2>4. QED
    BY <1>1, <2>1, <2>3 DEF Checking, Banning
<1>11. QED
  BY <1>3, <1>4, <1>7, <1>8, <1>9, <1>10 DEF AuthNext, AuthServes

(* A question of a caller that has none under way.                         *)
LEMMA AskRequests ==
  ASSUME Types, Requests, main' = main,
         NEW from \in Callers, NEW kind \in {"BAN", "CHECK"}, NEW c \in Connections, Ask(from, kind, c),
         answers[from] = NoAnswer,
         from = "accept" => acc.pc # "ask", from \in Connections => hpc[from] # "ban",
         from = "accept" => kind = "CHECK" /\ acc'.pc = "ask" /\ acc'.conn = c,
         from \in Connections => kind = "BAN" /\ hpc'[from] = "ban",
         acc' = acc \/ from = "accept",
         \A d \in Connections : d # from => hpc'[d] = hpc[d]
  PROVE  Requests'
<1>0. /\ AuthTypes /\ main \in MainState /\ requests \in Seq(QueuedRequest)
      /\ QueueAwaits /\ QueueDistinct /\ MainAwaits /\ MainDistinct /\ KindsFit /\ AnswerTaken /\ AnswersTaken
  BY DEF Types, AuthTypes, Requests
<1>a. /\ Len(requests) \in Nat /\ \A i \in 1..Len(requests) : requests[i] \in Request
      /\ main.request \in Request
  <2>1. \A r \in QueuedRequest : r \in Request
    BY DEF QueuedRequest, Request
  <2>2. QED
    BY <1>0, <2>1, ElementOfSeq, LenProperties DEF MainState
<1>b. "nobody" \notin Callers /\ "accept" \in Callers /\ "accept" \notin Connections
  BY ClientsAssumption DEF Callers
<1> DEFINE q == [from |-> from, kind |-> kind, client |-> User[c]]
<1>1. q \in QueuedRequest /\ q \in Request
  BY ServerAssumption DEF QueuedRequest, Request
<1>2. \A d \in Callers : d # from => answers'[d] = answers[d]
  BY <1>0 DEF Ask, AuthTypes
<1>3. ASSUME NEW r \in Request, Awaits(r) PROVE r.from # from /\ Awaits(r)'
  <2>1. r.from # from /\ r.from \in Callers
    BY <1>3, CallerWaits DEF Callers
  <2>2. answers'[r.from] = answers[r.from] /\ (r.from = "accept" => acc' = acc)
    BY <1>2, <2>1
  <2>3. r.from \in Connections => hpc'[r.from] = hpc[r.from]
    BY <2>1
  <2>4. QED
    BY <1>3, <2>1, <2>2, <2>3, StillAwaits
<1>4. MainAwaits'
  BY <1>0, <1>3, <1>a DEF MainAwaits, Serving, Awaits
<1>5. KindsFit'
  BY <1>0 DEF KindsFit, Banning, Checking
<1>6. AnswerTaken'
  BY <1>0, <1>2, <1>b DEF AnswerTaken
<1>7. AnswersTaken'
  BY <1>0, <1>2, <1>b DEF AnswersTaken, Callers
<1>8. \A i \in 1..Len(requests) : requests[i].from # from
  BY <1>0, <1>3, <1>a DEF QueueAwaits
<1>9. CASE requests' = requests
  <2>1. QueueAwaits'
    BY <1>0, <1>3, <1>9, <1>a DEF QueueAwaits, Awaits
  <2>2. QueueDistinct' /\ MainDistinct'
    BY <1>0, <1>9 DEF QueueDistinct, MainDistinct, Serving
  <2>3. QED
    BY <1>4, <1>5, <1>6, <1>7, <2>1, <2>2 DEF Requests
<1>10. CASE auth = "up"
  <2>1. requests' = Append(requests, q) /\ answers' = answers
    BY <1>10 DEF Ask
  <2> HIDE DEF q
  <2>2. Extends(requests', requests, q)
    BY <1>0, <1>1, <2>1, Grown
  <2>3. q.from = from /\ Awaits(q)'
    BY <1>b, <2>1 DEF q, Awaits, Callers
  <2>4. \A i \in 1..Len(requests) : Awaits(requests[i])' /\ requests'[i] = requests[i]
    <3> SUFFICES ASSUME NEW i \in 1..Len(requests) PROVE Awaits(requests[i])' /\ requests'[i] = requests[i]
      OBVIOUS
    <3>1. requests'[i] = requests[i] /\ requests[i] \in Request /\ Awaits(requests[i])
      BY <1>0, <1>a, <2>2 DEF Extends, QueueAwaits
    <3>2. QED
      BY <1>3, <3>1 DEF Awaits
  <2>5. QueueAwaits'
    <3> SUFFICES ASSUME NEW i \in 1..Len(requests') PROVE Awaits(requests[i])'
      BY DEF QueueAwaits
    <3>1. CASE i \in 1..Len(requests)
      BY <2>4, <3>1
    <3>2. CASE i = Len(requests) + 1
      BY <2>2, <2>3, <3>2 DEF Extends, Awaits
    <3>3. QED
      BY <2>2, <3>1, <3>2 DEF Extends
  <2>6. QueueDistinct'
    BY <1>0, <1>8, <2>2, <2>3 DEF QueueDistinct, Extends
  <2>7. MainDistinct'
    <3>1. Serving' => Serving /\ main.request.from # from
      BY <1>0, <1>3, <1>a DEF Serving, MainAwaits
    <3>2. QED
      BY <1>0, <2>2, <2>3, <3>1 DEF MainDistinct, Extends
  <2>8. QED
    BY <1>4, <1>5, <1>6, <1>7, <2>5, <2>6, <2>7 DEF Requests
<1>11. QED
  BY <1>9, <1>10 DEF Ask

(* An answer is taken by its caller, which goes its way.                   *)
LEMMA TakeRequests ==
  ASSUME Types, Requests, NEW from \in Callers, Answered(from), Taken(from),
         from = "accept" \/ acc' = acc, \A d \in Connections : d # from => (hpc'[d] = "ban" <=> hpc[d] = "ban")
  PROVE  Requests'
<1>0. /\ AuthTypes /\ main \in MainState /\ UNCHANGED <<main, requests>>
      /\ QueueAwaits /\ QueueDistinct /\ MainAwaits /\ MainDistinct /\ KindsFit /\ AnswerTaken /\ AnswersTaken
  BY DEF Types, AuthTypes, Requests, Taken
<1>a. /\ \A i \in 1..Len(requests) : requests[i] \in Request
      /\ main.request \in Request
  <2>1. \A r \in QueuedRequest : r \in Request
    BY DEF QueuedRequest, Request
  <2>2. requests \in Seq(QueuedRequest)
    BY <1>0 DEF AuthTypes
  <2>3. QED
    BY <1>0, <2>1, <2>2, ElementOfSeq DEF MainState
<1>b. "accept" \in Callers /\ "accept" \notin Connections
  BY ClientsAssumption DEF Callers
<1>1. answers'[from] = NoAnswer /\ \A d \in Callers : d # from => answers'[d] = answers[d]
  BY <1>0 DEF Taken, AuthTypes
<1>2. ASSUME NEW r \in Request, Awaits(r) PROVE Awaits(r)'
  <2>1. r.from # from /\ r.from \in Callers /\ (r.from \in Connections => hpc[r.from] = "ban")
    BY <1>2, CallerWaits DEF Answered
  <2>2. answers'[r.from] = NoAnswer /\ r.kind \in {"BAN", "CHECK"}
    BY <1>1, <1>2, <2>1, CallerWaits DEF Request
  <2>3. r.kind = "CHECK" => r.from = "accept" /\ acc'.pc = "ask" /\ r.client = User[acc'.conn]
    BY <1>2, <2>1 DEF Awaits
  <2>4. r.kind = "BAN" => r.from \in Connections /\ hpc'[r.from] = "ban"
    BY <1>2, <2>1, <2>2 DEF Awaits
  <2>5. QED
    BY <2>2, <2>3, <2>4 DEF Awaits
<1>3. QueueAwaits'
  BY <1>0, <1>2, <1>a DEF QueueAwaits, Awaits
<1>4. MainAwaits'
  BY <1>0, <1>2, <1>a DEF MainAwaits, Serving, Awaits
<1>5. QueueDistinct' /\ MainDistinct' /\ KindsFit'
  BY <1>0 DEF QueueDistinct, MainDistinct, KindsFit, Serving, Banning, Checking
<1>6. AnswerTaken' /\ AnswersTaken'
  BY <1>0, <1>1, <1>b DEF AnswerTaken, AnswersTaken, Callers
<1>7. QED
  BY <1>3, <1>4, <1>5, <1>6 DEF Requests

(* Callers and requests match in every step.                               *)
LEMMA NextRequests == Types /\ Sessions /\ Requests /\ [Next]_vars => Requests'
<1> SUFFICES ASSUME Types, Sessions, Requests, [Next]_vars PROVE Requests'
  OBVIOUS
<1>0. /\ AuthTypes /\ main \in MainState /\ HandlerTypes /\ LinkTypes
      /\ AnswerTaken /\ AnswersTaken /\ KindsFit
  BY DEF Types, AuthTypes, Requests
<1>b. "accept" \in Callers /\ "accept" \notin Connections /\ Connections \subseteq Callers
  BY ClientsAssumption DEF Callers
<1>1. CASE AuthNext /\ UNCHANGED serverVars
  BY <1>1, AuthRequests
<1>2. CASE server_crash
  <2>1. /\ requests' = <<>> /\ answers' = [c \in Callers |-> NoAnswer]
        /\ main'.request.from = "nobody" /\ main'.pc = main.pc /\ main'.request.kind = main.request.kind
    BY <1>0, <1>2 DEF server_crash, MainState, Request
  <2>2. QueueAwaits' /\ QueueDistinct' /\ MainAwaits' /\ MainDistinct'
    BY <2>1 DEF QueueAwaits, QueueDistinct, MainAwaits, MainDistinct, Serving
  <2>3. KindsFit'
    BY <1>0, <2>1 DEF KindsFit, Banning, Checking
  <2>4. AnswerTaken' /\ AnswersTaken'
    BY <1>b, <2>1 DEF AnswerTaken, AnswersTaken
  <2>5. QED
    BY <2>2, <2>3, <2>4 DEF Requests
<1>3. ASSUME UNCHANGED <<requests, answers, main, acc>>, \A d \in Connections : hpc'[d] = "ban" <=> hpc[d] = "ban"
      PROVE  Requests'
  <2>0. /\ QueueAwaits /\ QueueDistinct /\ MainAwaits /\ MainDistinct
    BY DEF Requests
  <2>1. QueueAwaits'
    BY <1>3, <2>0 DEF QueueAwaits, Awaits
  <2>2. MainAwaits'
    BY <1>3, <2>0 DEF MainAwaits, Serving, Awaits
  <2>3. QueueDistinct' /\ MainDistinct' /\ KindsFit'
    BY <1>0, <1>3, <2>0 DEF QueueDistinct, MainDistinct, KindsFit, Serving, Banning, Checking
  <2>4. AnswerTaken' /\ AnswersTaken'
    BY <1>0, <1>3 DEF AnswerTaken, AnswersTaken
  <2>5. QED
    BY <2>1, <2>2, <2>3, <2>4 DEF Requests
<1>4. CASE accept
  <2>1. hpc' = hpc /\ main' = main /\ acc.pc = "accept"
    BY <1>4 DEF accept
  <2>2. CASE UNCHANGED <<acc, requests, answers>>
    BY <1>3, <2>1, <2>2
  <2>3. CASE acc' = [pc |-> "ask", conn |-> Head(backlog), known |-> Len(banned)] /\ Ask("accept", "CHECK", Head(backlog))
    <3>1. backlog \in Seq(Connections) /\ backlog # <<>>
      BY <1>0, <1>4 DEF LinkTypes, accept
    <3>2. PICK c \in Connections : c = Head(backlog)
      BY <3>1, HeadTailProperties
    <3>3. answers["accept"] = NoAnswer
      BY <1>0, <2>1 DEF AnswerTaken
    <3>4. acc'.pc = "ask" /\ acc'.conn = c /\ Ask("accept", "CHECK", c)
      BY <2>3, <3>2
    <3>5. QED
      BY <1>b, <2>1, <3>3, <3>4, AskRequests
  <2>4. QED
    BY <1>4, <2>2, <2>3 DEF accept
<1>5. CASE verdict
  <2>1. \A d \in Connections : hpc'[d] = "ban" <=> hpc[d] = "ban"
    <3>1. ~server_crash /\ \A d \in Connections : ~refuse_file(d) /\ ~banned_goodbye(d)
      BY <1>0, <1>5 DEF verdict, server_crash, refuse_file, banned_goodbye, LinkTypes, NoOne
    <3>2. QED
      BY <3>1, BanPlace
  <2>2. Answered("accept") /\ Taken("accept")
    BY <1>5 DEF verdict
  <2>3. QED
    BY <1>b, <2>1, <2>2, TakeRequests
<1>6. ASSUME NEW c \in Connections, refuse_file(c) PROVE Requests'
  <2>1. hpc[c] = "file" /\ hpc' = [hpc EXCEPT ![c] = "ban"] /\ UNCHANGED <<acc, main>> /\ Ask(c, "BAN", c)
    BY <1>6 DEF refuse_file, Handler
  <2>2. hpc'[c] = "ban" /\ \A d \in Connections : d # c => hpc'[d] = hpc[d]
    BY <1>0, <2>1 DEF HandlerTypes
  <2>3. answers[c] = NoAnswer
    BY <1>0, <2>1 DEF AnswersTaken
  <2>4. QED
    BY <1>b, <2>1, <2>2, <2>3, AskRequests
<1>7. ASSUME NEW c \in Connections, banned_goodbye(c) PROVE Requests'
  <2>1. /\ hpc' = [hpc EXCEPT ![c] = "off"] /\ acc' = acc /\ Answered(c) /\ Taken(c)
    BY <1>7 DEF banned_goodbye, Handler
  <2>2. \A d \in Connections : d # c => hpc'[d] = hpc[d]
    BY <1>0, <2>1 DEF HandlerTypes
  <2>3. QED
    BY <1>b, <2>1, <2>2, TakeRequests
<1>8. CASE UNCHANGED authVars
  <2>1. CASE verdict \/ accept \/ server_crash \/ \E c \in Connections : refuse_file(c) \/ banned_goodbye(c)
    BY <1>2, <1>4, <1>5, <1>6, <1>7, <2>1
  <2>2. CASE ~verdict /\ ~accept /\ ~server_crash /\ \A c \in Connections : ~refuse_file(c) /\ ~banned_goodbye(c)
    <3>1. \A d \in Connections : hpc'[d] = "ban" <=> hpc[d] = "ban"
      BY <2>2, BanPlace
    <3>2. acc' = acc
      BY <2>2, WhoLinks DEF Links, client_run, client_command, client_receive, read_command, send_list,
         send_answer, confirm
    <3>3. QED
      BY <1>3, <1>8, <3>1, <3>2 DEF authVars
  <2>3. QED
    BY <2>1, <2>2
<1>9. QED
  BY <1>1, <1>2, <1>4, <1>5, <1>6, <1>7, <1>8, WhoAsks

(* The early bans from before the question are those that ServedRightly    *)
(* speaks of.                                                              *)
LEMMA KnownIsFound ==
  ASSUME banned \in Seq(Clients), acc.known \in Nat, KnownFit, NEW u, ~KnownBanned(u)
  PROVE  u \notin Found(SubSeq(banned, 1, acc.known))
<1> DEFINE t == SubSeq(banned, 1, acc.known)
<1>1. Len(banned) \in Nat /\ acc.known <= Len(banned)
  BY DEF KnownFit
<1>2. DOMAIN t = 1..acc.known /\ \A i \in 1..acc.known : t[i] = banned[i]
  BY <1>1, SubSeqProperties
<1> HIDE DEF t
<1>3. u \notin Found(t)
  BY <1>2 DEF Found, KnownBanned
<1>4. QED
  BY <1>3 DEF t

(* A connection stays fit while its question is under way: bans are added  *)
(* behind those that were known.                                           *)
LEMMA FitStays ==
  ASSUME AuthTypes, LinkTypes, KnownFit, UNCHANGED <<serverLevel, acc>>, lossy => lossy',
         banned' = banned \/ \E u \in Clients : banned' = Append(banned, u)
  PROVE  KnownFit' /\ (Fit => Fit')
<1>0. banned \in Seq(Clients) /\ Len(banned) \in Nat /\ acc.known \in Nat /\ acc.known <= Len(banned)
  BY DEF AuthTypes, LinkTypes, AccState, KnownFit
<1>1. /\ Len(banned') \in Nat /\ Len(banned) <= Len(banned')
      /\ \A i \in 1..Len(banned) : banned'[i] = banned[i]
  <2>1. CASE banned' = banned
    BY <1>0, <2>1
  <2>2. ASSUME NEW u \in Clients, banned' = Append(banned, u)
        PROVE  /\ Len(banned') \in Nat /\ Len(banned) <= Len(banned')
               /\ \A i \in 1..Len(banned) : banned'[i] = banned[i]
    BY <1>0, <2>2, AppendProperties
  <2>3. QED
    BY <2>1, <2>2
<1>2. KnownFit'
  BY <1>0, <1>1 DEF KnownFit
<1>3. \A u : KnownBanned(u)' => KnownBanned(u)
  BY <1>0, <1>1 DEF KnownBanned
<1>4. QED
  BY <1>2, <1>3 DEF Fit

(* Whoever is asked about, or has been allowed, is fit.                    *)
LEMMA NextGrants == Types /\ Sessions /\ Requests /\ Files /\ Grants /\ [Next]_vars => Grants'
<1> SUFFICES ASSUME Types, Sessions, Requests, Files, Grants, [Next]_vars PROVE Grants'
  OBVIOUS
<1>0. /\ AuthTypes /\ main \in MainState /\ HandlerTypes /\ LinkTypes
      /\ QueueAwaits /\ MainAwaits /\ KindsFit /\ AnswerTaken
      /\ KnownFit /\ CheckedFit /\ AllowedFit /\ VerdictFit
  BY DEF Types, AuthTypes, Requests, Grants
<1>b. "accept" \in Callers /\ "accept" \notin Connections /\ "nobody" \notin Callers /\ Named \in Clients
  BY <1>0, ClientsAssumption DEF Callers, Named, MainState, Request
<1>c. NoOne.known = 0 /\ NoOne.pc = "accept" /\ Len(banned) \in Nat
  BY <1>0 DEF NoOne, AuthTypes
<1>1. ASSUME UNCHANGED <<serverLevel, banned, main, acc>>, lossy => lossy',
             answers'["accept"] # "ALLOWED" \/ answers'["accept"] = answers["accept"]
      PROVE  Grants'
  <2>1. KnownFit' /\ (Fit => Fit')
    BY <1>0, <1>1, FitStays
  <2>2. CheckedFit' /\ AllowedFit' /\ VerdictFit'
    BY <1>0, <1>1, <2>1 DEF CheckedFit, AllowedFit, VerdictFit, Checking, Serving, Named
  <2>3. QED
    BY <2>1, <2>2 DEF Grants
<1>2. CASE server_crash
  <2>1. /\ UNCHANGED <<serverLevel, banned>> /\ answers'["accept"] = NoAnswer /\ acc' = NoOne
        /\ main'.pc = main.pc /\ main'.request.from = "nobody" /\ Named' = Named
    BY <1>0, <1>2, <1>b DEF server_crash, MainState, Request, Named
  <2>2. QED
    BY <1>0, <1>c, <2>1 DEF Grants, KnownFit, CheckedFit, AllowedFit, VerdictFit, Checking, Serving, NoAnswer
<1>3. ASSUME Serving, main.request.kind = "CHECK"
      PROVE  acc.pc = "ask" /\ Named = User[acc.conn] /\ answers["accept"] = NoAnswer
  BY <1>0, <1>3 DEF MainAwaits, Awaits, Named
<1>4. CASE accept
  <2>1. /\ UNCHANGED <<serverLevel, banned, main>> /\ answers["accept"] = NoAnswer /\ acc.pc = "accept"
        /\ acc'.known \in {acc.known, Len(banned)}
    BY <1>0, <1>4 DEF accept, AnswerTaken
  <2>2. answers'["accept"] # "ALLOWED"
    BY <1>0, <1>4, <1>b, <2>1 DEF accept, Ask, AuthTypes, NoAnswer
  <2>3. KnownFit' /\ VerdictFit'
    BY <1>0, <1>c, <2>1, <2>2 DEF KnownFit, VerdictFit
  <2>4. CheckedFit' /\ AllowedFit'
    BY <1>0, <1>3, <2>1 DEF CheckedFit, AllowedFit, Checking, Serving, Named
  <2>5. QED
    BY <2>3, <2>4 DEF Grants
<1>5. CASE verdict
  <2>1. /\ UNCHANGED <<serverLevel, banned, main>> /\ answers'["accept"] = NoAnswer /\ acc' = NoOne
        /\ answers["accept"] # NoAnswer
    BY <1>0, <1>5, <1>b DEF verdict, Taken, Answered, AuthTypes
  <2>2. KnownFit' /\ VerdictFit'
    BY <1>c, <2>1 DEF KnownFit, VerdictFit, NoAnswer
  <2>3. CheckedFit' /\ AllowedFit'
    BY <1>0, <1>3, <2>1 DEF CheckedFit, AllowedFit, Checking, Serving, Named
  <2>4. QED
    BY <2>2, <2>3 DEF Grants
<1>6. ASSUME NEW c \in Connections, refuse_file(c) \/ banned_goodbye(c) PROVE Grants'
  <2>1. UNCHANGED <<serverLevel, banned, lossy, main, acc>>
    BY <1>6 DEF refuse_file, banned_goodbye, Taken
  <2>2. answers'["accept"] = answers["accept"]
    BY <1>0, <1>6, <1>b DEF refuse_file, banned_goodbye, Taken, Ask, AuthTypes
  <2>3. QED
    BY <1>1, <2>1, <2>2
<1>7. CASE UNCHANGED authVars
  <2>1. CASE accept \/ verdict \/ server_crash
    BY <1>2, <1>4, <1>5, <2>1
  <2>2. CASE ~accept /\ ~verdict /\ ~server_crash
    <3>1. acc' = acc
      BY <2>2, WhoLinks DEF Links, client_run, client_command, client_receive, read_command, send_list,
         send_answer, confirm, banned_goodbye
    <3>2. QED
      BY <1>1, <1>7, <3>1 DEF authVars
  <2>3. QED
    BY <2>1, <2>2
<1>8. ASSUME AuthNext, UNCHANGED serverVars PROVE Grants'
  <2>0. acc' = acc
    BY <1>8 DEF serverVars
  <2>1. CASE auth_start \/ \E i \in DOMAIN timers : BannedTimerTask(i)
    <3>1. UNCHANGED <<serverLevel, banned, main, answers>> /\ (lossy => lossy')
      <4>1. CASE auth_start
        BY <4>1 DEF auth_start
      <4>2. ASSUME NEW i \in DOMAIN timers, NEW pc, TimerGoes(i, pc)
            PROVE  UNCHANGED <<serverLevel, banned, main, answers>> /\ (lossy => lossy')
        BY <4>2 DEF TimerGoes
      <4>3. ASSUME NEW i \in DOMAIN timers, BannedTimerTask(i) PROVE \E pc : TimerGoes(i, pc)
        BY <4>3 DEF BannedTimerTask, timer_decrypt, timer_read, timer_delete, timer_create, timer_write,
           timer_encrypt, timer_clean
      <4>4. QED
        BY <2>1, <4>1, <4>2, <4>3
    <3>2. QED
      BY <1>1, <2>0, <3>1
  <2>2. CASE auth_dies
    <3>1. /\ UNCHANGED <<serverLevel, banned, lossy>> /\ main'.pc = "idle"
          /\ answers'["accept"] = "null" \/ answers'["accept"] = answers["accept"]
      <4>1. answers' = [c \in Callers |-> IF c \in Waiting THEN "null" ELSE answers[c]]
        BY <2>2 DEF auth_dies
      <4>2. answers'["accept"] = "null" \/ answers'["accept"] = answers["accept"]
        BY <1>b, <4>1
      <4>3. QED
        BY <2>2, <4>2 DEF auth_dies
    <3>2. KnownFit' /\ (Fit => Fit')
      BY <1>0, <2>0, <3>1, FitStays
    <3>3. QED
      BY <1>0, <3>1, <3>2 DEF Grants, CheckedFit, AllowedFit, VerdictFit, Checking
  <2>3. CASE processRequest
    <3> DEFINE r == Head(requests)
    <3>1. requests \in Seq(QueuedRequest) /\ requests # <<>>
      BY <1>0, <2>3 DEF AuthTypes, processRequest
    <3>2. r \in Request
      <4>1. r = requests[1] /\ 1 \in 1..Len(requests)
        BY <3>1, Shortened
      <4>2. requests[1] \in QueuedRequest
        BY <3>1, <4>1, ElementOfSeq
      <4>3. QED
        BY <4>1, <4>2 DEF QueuedRequest, Request
    <3>3. /\ main' = [request |-> r, pc |-> FirstStep(r), answer |-> IF Known(r) THEN "DENIED" ELSE "ERROR"]
          /\ UNCHANGED <<serverLevel, banned, lossy, answers>>
      BY <2>3 DEF processRequest
    <3> HIDE DEF r
    <3>4. CheckedFit' /\ AllowedFit'
      BY <3>2, <3>3 DEF CheckedFit, AllowedFit, Checking, FirstStep, Named
    <3>5. KnownFit' /\ VerdictFit'
      BY <1>0, <2>0, <3>3, FitStays DEF VerdictFit
    <3>6. QED
      BY <3>4, <3>5 DEF Grants
  <2>4. CASE reply
    <3>1. /\ main.pc = "reply" /\ main'.pc = "idle" /\ UNCHANGED <<serverLevel, banned, lossy>>
          /\ answers'["accept"] = IF main.request.from = "accept" THEN main.answer ELSE answers["accept"]
      BY <1>0, <1>b, <2>4 DEF reply, MainState
    <3>2. CheckedFit' /\ AllowedFit'
      BY <3>1 DEF CheckedFit, AllowedFit, Checking
    <3>3. answers'["accept"] = "ALLOWED" => Fit
      BY <1>0, <3>1 DEF VerdictFit, AllowedFit, Serving
    <3>4. KnownFit' /\ VerdictFit'
      BY <1>0, <2>0, <3>1, <3>3, FitStays DEF VerdictFit
    <3>5. QED
      BY <3>2, <3>4 DEF Grants
  <2>5. ASSUME ~lossy, \A i \in DOMAIN timers : ~TimerBusy(i), auth = "up"
        PROVE  MainFiles
    <3>1. DOMAIN timers = 1..Len(timers)
      BY <1>0, LenProperties DEF AuthTypes
    <3>2. AllQuiet
      BY <2>5, <3>1 DEF TimerBusy, Quiet, AllQuiet
    <3>3. QED
      BY <2>5, <3>2, MainTurn DEF Files, Orderly
  <2>6. CASE (isBanned_decrypt \/ isBanned_look \/ isBanned_delete) /\ auth = "up"
    <3>1. /\ UNCHANGED <<serverLevel, banned, answers>> /\ Checking /\ main'.request = main.request
          /\ lossy' = (lossy \/ \E i \in DOMAIN timers : TimerBusy(i))
          /\ main'.pc \in {"check2", "check3", "reply"}
      <4>1. CASE isBanned_decrypt
        BY <1>0, <4>1 DEF isBanned_decrypt, MainGoes, MainAnswers, MainState, Checking
      <4>2. CASE isBanned_look
        BY <1>0, <4>2 DEF isBanned_look, MainState, Checking
      <4>3. CASE isBanned_delete
        BY <1>0, <4>3 DEF isBanned_delete, MainAnswers, MainState, Checking
      <4>4. QED
        BY <2>6, <4>1, <4>2, <4>3
    <3>2. Level[Named] >= serverLevel /\ Named' = Named /\ main.request.kind = "CHECK"
      BY <1>0, <3>1 DEF CheckedFit, Named, KindsFit
    <3>3. KnownFit' /\ (Fit => Fit')
      BY <1>0, <2>0, <3>1, FitStays
    <3>4. CheckedFit' /\ VerdictFit'
      BY <1>0, <3>1, <3>2, <3>3 DEF CheckedFit, VerdictFit
    <3>5. ASSUME ~lossy', main'.pc \in {"check3", "reply"}, main'.answer = "ALLOWED", Serving
          PROVE  ~KnownBanned(Named)
      <4>0. MainFiles /\ ~lossy
        BY <2>5, <2>6, <3>1, <3>5
      <4>1. CASE isBanned_decrypt
        <5>1. main.pc = "check1" /\ ~enc.there
          BY <1>0, <3>5, <4>1 DEF isBanned_decrypt, MainGoes, MainState
        <5>2. QED
          BY <4>0, <5>1 DEF MainFiles, Holds, Holding
      <4>2. CASE isBanned_look
        <5>1. main.pc = "check2" /\ (dec.there => Named \notin Found(dec.names))
          BY <1>0, <3>5, <4>2 DEF isBanned_look, MainState
        <5>2. Named \notin Found(banned)
          BY <4>0, <5>1 DEF MainFiles, Holds, Holding
        <5>3. DOMAIN banned = 1..Len(banned) /\ acc.known \in Nat /\ acc.known <= Len(banned)
          BY <1>0 DEF AuthTypes, LinkTypes, AccState, KnownFit
        <5>4. QED
          BY <1>c, <5>2, <5>3 DEF Found, KnownBanned
      <4>3. CASE isBanned_delete
        <5>1. main.pc = "check3" /\ main.answer = "ALLOWED"
          BY <1>0, <3>5, <4>3 DEF isBanned_delete, MainAnswers, MainState
        <5>2. Fit /\ Named = User[acc.conn]
          BY <1>0, <1>3, <3>2, <3>5, <5>1 DEF AllowedFit
        <5>3. QED
          BY <4>0, <5>2 DEF Fit
      <4>4. QED
        BY <2>6, <4>1, <4>2, <4>3
    <3>6. AllowedFit'
      <4> SUFFICES ASSUME Serving', main'.pc \in {"check3", "reply"}, main'.answer = "ALLOWED"
                   PROVE  Fit' /\ main'.request.kind = "CHECK"
        BY DEF AllowedFit
      <4>1. Serving
        BY <3>1 DEF Serving, Checking
      <4>2. Named = User[acc.conn]
        BY <1>3, <3>2, <4>1
      <4>3. lossy' \/ ~KnownBanned(Named)
        BY <3>5, <4>1
      <4>4. QED
        BY <2>0, <3>1, <3>2, <4>2, <4>3 DEF Fit, KnownBanned
    <3>7. QED
      BY <3>3, <3>4, <3>6 DEF Grants
  <2>7. CASE ban_decrypt \/ ban_append \/ ban_delete \/ ban_create \/ ban_encrypt \/ ban_clean
    <3>1. \/ BanEnds
          \/ \E q \in {"ban2", "ban3", "ban4", "ban5", "ban6"} : BanGoes(q)
      BY <2>7 DEF ban_decrypt, ban_append, ban_delete, ban_create, ban_encrypt, ban_clean
    <3>2. UNCHANGED <<serverLevel, answers>> /\ (lossy => lossy') /\ banned' \in {banned, Append(banned, Named)}
      BY <3>1 DEF BanEnds, BanGoes, MainGoes, MainAnswers
    <3>3. /\ \/ main'.pc \in {"ban2", "ban3", "ban4", "ban5", "ban6"}
             \/ main'.pc = "reply" /\ main'.answer = "OK"
      BY <1>0, <3>1 DEF BanEnds, BanGoes, MainGoes, MainAnswers, MainState
    <3>4. CheckedFit' /\ AllowedFit'
      BY <3>3 DEF CheckedFit, AllowedFit, Checking
    <3>5. KnownFit' /\ (Fit => Fit')
      BY <1>0, <1>b, <2>0, <3>2, FitStays
    <3>6. QED
      BY <1>0, <3>2, <3>4, <3>5 DEF Grants, VerdictFit
  <2>8. QED
    BY <1>8, <2>1, <2>2, <2>3, <2>4, <2>6, <2>7 DEF AuthNext, AuthServes
<1>9. QED
  BY <1>2, <1>4, <1>5, <1>6, <1>7, <1>8, WhoAsks

VerdictInv == ListInv /\ Requests /\ Files /\ Grants

(* At the start nothing is asked and nobody is banned.                     *)
LEMMA InitVerdicts == Init => VerdictInv
<1> SUFFICES ASSUME Init PROVE VerdictInv
  OBVIOUS
<1>1. ListInv
  BY InitLists
<1>2. /\ main.pc = "idle" /\ timers = <<>> /\ requests = <<>> /\ banned = <<>> /\ acc = NoOne
      /\ answers = [c \in Callers |-> NoAnswer] /\ (lossy \/ enc = Raw)
  <2>1. enc \in {Absent, Raw} /\ lossy = ~enc.there /\ ~Absent.there
    BY DEF Init, AuthInit, Absent
  <2>2. QED
    BY <2>1 DEF Init, AuthInit
<1>3. answers["accept"] = NoAnswer /\ \A c \in Connections : answers[c] = NoAnswer
  BY <1>2 DEF Callers
<1>4. QueueAwaits /\ QueueDistinct /\ MainAwaits /\ MainDistinct
  BY <1>2 DEF QueueAwaits, QueueDistinct, MainAwaits, MainDistinct, Serving
<1>5. KindsFit /\ AnswerTaken /\ AnswersTaken
  BY <1>2, <1>3 DEF KindsFit, AnswerTaken, AnswersTaken, Banning, Checking
<1>6. AllQuiet /\ NameAdded /\ (Orderly => MainFiles)
  BY <1>2 DEF AllQuiet, NameAdded, Orderly, MainFiles, Holds, Raw
<1>7. Files
  BY <1>6, MainTurn DEF Files
<1>8. KnownFit /\ CheckedFit /\ AllowedFit /\ VerdictFit
  BY <1>2, <1>3 DEF KnownFit, CheckedFit, AllowedFit, VerdictFit, Checking, NoAnswer, NoOne
<1>9. QED
  BY <1>1, <1>4, <1>5, <1>7, <1>8 DEF VerdictInv, Requests, Grants

LEMMA NextVerdicts == VerdictInv /\ [Next]_vars => VerdictInv'
BY NextLists, NextRequests, NextFiles, NextGrants DEF VerdictInv, ListInv

(* A handler is started only for a client whose department has the         *)
(* priority, and none of a client whose ban was carried out before the     *)
(* server asked about this connection and is among the first of the list:  *)
(* over any connections, also several of a client at once, bans, timers    *)
(* and stops, as long as the threads of the authorization server took      *)
(* turns and the encrypted file was there at the start.                    *)
THEOREM OnlyTheAllowed == Spec => ServedRightly
<1>1. Init => VerdictInv
  BY InitVerdicts
<1>2. VerdictInv /\ [Next]_vars => VerdictInv'
  BY NextVerdicts
<1>3. VerdictInv /\ [Next]_vars =>
        [\A c \in Connections : (hpc[c] = "off" /\ hpc'[c] = "read") =>
              /\ Level[User[c]] >= serverLevel
              /\ lossy \/ User[c] \notin Found(SubSeq(banned, 1, acc.known))]_vars
  <2> SUFFICES ASSUME VerdictInv, [Next]_vars, NEW c \in Connections, hpc[c] = "off", hpc'[c] = "read"
               PROVE  /\ Level[User[c]] >= serverLevel
                      /\ lossy \/ User[c] \notin Found(SubSeq(banned, 1, acc.known))
    OBVIOUS
  <2>0. AuthTypes /\ HandlerTypes /\ LinkTypes /\ KnownFit /\ VerdictFit
    BY DEF VerdictInv, ListInv, Types, Grants
  <2>1. verdict
    <3>1. \A d \in Connections : ~ConnectionHandler(d)
      BY <2>0, HandlerMoves
    <3>2. ~server_start /\ ~server_crash /\ hpc' # hpc
      BY DEF server_start, server_crash
    <3>3. QED
      BY <3>1, <3>2, WhoHandles
  <2>2. c = acc.conn /\ answers["accept"] = "ALLOWED"
    BY <2>0, <2>1 DEF verdict, HandlerTypes
  <2>3. Level[User[c]] >= serverLevel /\ (lossy \/ ~KnownBanned(User[c]))
    BY <2>0, <2>2 DEF VerdictFit, Fit
  <2>4. banned \in Seq(Clients) /\ acc.known \in Nat
    BY <2>0 DEF AuthTypes, LinkTypes, AccState
  <2>5. QED
    BY <2>0, <2>3, <2>4, KnownIsFound
<1>4. QED
  BY <1>1, <1>2, <1>3, PTL DEF Spec, ServedRightly
=============================================================================
