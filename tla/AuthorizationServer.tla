------------------------ MODULE AuthorizationServer ------------------------
(***************************************************************************)
(* The authorization server of AuthenticatedFilesServer                    *)
(* (authorization_server/src/AuthorizationServer.java): one thread serves  *)
(* the requests of a department server, one after the other, and a timer   *)
(* thread per ban is to lift the ban after 15 seconds.  All of them work   *)
(* on the files banned_encrypted and banned_decrypted, without a lock;     *)
(* every file operation is a step.                                         *)
(*                                                                         *)
(* The requests and answers are those of the department server, see        *)
(* DepartmentServer.                                                       *)
(***************************************************************************)
EXTENDS Integers, Sequences

CONSTANTS
    Clients,
    Connections,\* connections to the department server; a thread handles each
    Level,      \* priority of a client's department; 0: not in priorities
    ServerLevels,\* priorities that the department server's department may have
    MaxBans,    \* bound: calls of ban
    Fits        \* how many bans the first 1024 bytes of the list hold

ASSUME LevelAssumption == Level \in [Clients -> 0..3] /\ ServerLevels \subseteq 0..3
ASSUME MaxBansAssumption == MaxBans \in Nat /\ Fits \in Nat
ASSUME ClientsAssumption == Clients # {} /\ {"accept", "nobody"} \cap Connections = {}

VARIABLES
    serverLevel,\* the priority of the server's department, 0 for none
    auth,       \* "off", "up" or "dead"
    enc, dec,   \* the two files
    main,       \* the serving thread: place, request, answer
    timers,     \* one timer per ban: place and client
    requests,   \* requests waiting to be accepted
    answers,    \* answers given, to the threads of the department server
    banned,     \* history: the clients whose ban was answered with OK, in order
    lossy       \* history: there was no list to start with, or two threads
                \* have been at the files at the same time
authVars == <<serverLevel, auth, enc, dec, main, timers, requests, answers, banned, lossy>>
files == <<enc, dec>>

(* The threads that ask; a request of a server that is gone is nobody's.   *)
Callers == Connections \cup {"accept"}
NoAnswer == "none"

(* A file: its existence, and the lines its decryption consists of, each a *)
(* client's name.  What is not encrypted with the server's key decrypts to *)
(* no name.                                                                *)
File == [there : BOOLEAN, names : Seq(Clients)]
Absent == [there |-> FALSE, names |-> <<>>]
Holding(s) == [there |-> TRUE, names |-> s]
Raw == Holding(<<>>)

Request == [from : Callers \cup {"nobody"}, kind : {"BAN", "CHECK"}, client : Clients]
NoRequest == [from |-> "accept", kind |-> "CHECK", client |-> CHOOSE c \in Clients : TRUE]

AuthTypeOK ==
    /\ auth \in {"off", "up", "dead"}
    /\ enc \in File /\ dec \in File
    /\ main.pc \in {"idle", "check1", "check2", "check3", "ban1", "ban2", "ban3", "ban4", "ban5", "ban6", "reply"}
    /\ main.request \in Request /\ main.answer \in {"ALLOWED", "DENIED", "ERROR", "OK", NoAnswer}
    /\ timers \in Seq([pc : {"set", "t2", "t3", "t4", "t5", "t6", "t7", "over"}, client : Clients])
    /\ Len(timers) <= MaxBans
    /\ requests \in Seq(Request)
    /\ banned \in Seq(Clients) /\ lossy \in BOOLEAN

AuthInit ==
    /\ serverLevel \in ServerLevels /\ auth = "off"
    /\ enc \in {Absent, Raw} /\ dec = Absent
    /\ main = [pc |-> "idle", request |-> NoRequest, answer |-> NoAnswer]
    /\ timers = <<>> /\ requests = <<>>
    /\ answers = [c \in Callers |-> NoAnswer]
    /\ banned = <<>> /\ lossy = ~enc.there

(* run: the keystore, the context, the key and the socket; without them    *)
(* the thread returns.                                                     *)
auth_start ==
    /\ auth = "off" /\ auth' \in {"up", "dead"}
    /\ UNCHANGED <<serverLevel, files, main, timers, requests, answers, banned, lossy>>

(* The process is killed: its callers read the end of their streams.       *)
Waiting ==
    {requests[i].from : i \in DOMAIN requests} \cup IF main.pc = "idle" THEN {} ELSE {main.request.from}
auth_dies ==
    /\ auth = "up" /\ auth' = "dead"
    /\ answers' = [c \in Callers |-> IF c \in Waiting THEN "null" ELSE answers[c]]
    /\ requests' = <<>>
    /\ main' = [pc |-> "idle", request |-> NoRequest, answer |-> NoAnswer]
    /\ timers' = [i \in DOMAIN timers |-> [timers[i] EXCEPT !.pc = "over"]]
    /\ UNCHANGED <<serverLevel, files, banned, lossy>>

---------------------------------------------------------------------------
(* Who is between two file operations.                                     *)
MainBusy == main.pc \in {"check2", "check3", "ban2", "ban3", "ban4", "ban5", "ban6"}
TimerBusy(i) == timers[i].pc \notin {"set", "over"}

MainGoes(pc) ==
    /\ main' = [main EXCEPT !.pc = pc]
    /\ lossy' = (lossy \/ \E i \in DOMAIN timers : TimerBusy(i))
    /\ UNCHANGED <<serverLevel, auth, requests, answers>>
MainAnswers(a) ==
    /\ main' = [main EXCEPT !.pc = "reply", !.answer = a]
    /\ lossy' = (lossy \/ \E i \in DOMAIN timers : TimerBusy(i))
    /\ UNCHANGED <<serverLevel, auth, requests, answers>>
TimerGoes(i, pc) ==
    /\ timers' = [timers EXCEPT ![i].pc = pc]
    /\ lossy' = (lossy \/ MainBusy \/ \E j \in DOMAIN timers \ {i} : TimerBusy(j))
    /\ UNCHANGED <<serverLevel, auth, main, requests, answers, banned>>

(* processRequest: a BAN is carried out for anybody, a check needs both    *)
(* departments and a sufficient priority before the list is looked at.     *)
Known(r) == Level[r.client] # 0 /\ serverLevel # 0
FirstStep_no_level(r) == IF r.kind = "BAN" THEN "ban1" ELSE "check1"
FirstStep(r) ==
    IF r.kind = "BAN" THEN "ban1"
    ELSE IF Known(r) /\ Level[r.client] >= serverLevel THEN "check1" ELSE "reply"

processRequest ==
    /\ auth = "up" /\ main.pc = "idle" /\ requests # <<>>
    /\ LET r == Head(requests)
       IN main' = [request |-> r, pc |-> FirstStep(r),
                   answer |-> IF Known(r) THEN "DENIED" ELSE "ERROR"]
    /\ requests' = Tail(requests)
    /\ UNCHANGED <<serverLevel, auth, files, timers, answers, banned, lossy>>

(* The answer is written; the caller's readLine returns it.                *)
reply ==
    /\ main.pc = "reply"
    /\ answers' = [c \in Callers |-> IF c = main.request.from THEN main.answer ELSE answers[c]]
    /\ main' = [main EXCEPT !.pc = "idle", !.request = NoRequest, !.answer = NoAnswer]
    /\ UNCHANGED <<serverLevel, auth, files, timers, requests, banned, lossy>>

---------------------------------------------------------------------------
(* isBanned: decrypt the list into banned_decrypted, look, delete that     *)
(* file.  It looks at one buffer only, and so finds no ban behind the first*)
(* 1024 bytes.  An exception (no such file) counts as not banned.          *)
Named == main.request.client
Found(names) == {names[i] : i \in {j \in DOMAIN names : j <= Fits}}

isBanned_decrypt ==
    /\ main.pc = "check1"
    /\ IF enc.there THEN dec' = enc /\ MainGoes("check2")
                    ELSE UNCHANGED dec /\ MainAnswers("ALLOWED")
    /\ UNCHANGED <<enc, timers, banned>>

isBanned_look ==
    /\ main.pc = "check2"
    /\ main' = IF dec.there
               THEN [main EXCEPT !.pc = "check3", !.answer = IF Named \in Found(dec.names) THEN "DENIED" ELSE "ALLOWED"]
               ELSE [main EXCEPT !.pc = "reply", !.answer = "ALLOWED"]
    /\ lossy' = (lossy \/ \E i \in DOMAIN timers : TimerBusy(i))
    /\ UNCHANGED <<serverLevel, auth, files, timers, requests, answers, banned>>

isBanned_delete ==
    /\ main.pc = "check3"
    /\ dec' = Absent /\ MainAnswers(main.answer)
    /\ UNCHANGED <<enc, timers, banned>>

(* ban: decrypt the list, append the client, delete and create the encrypted  *)
(* file, encrypt, set the timer, delete the decrypted file.  The answer is *)
(* OK whatever happens.                                                    *)
BanEnds == MainAnswers("OK") /\ banned' = Append(banned, Named)
BanGoes(pc) == MainGoes(pc) /\ UNCHANGED banned

ban_decrypt ==
    /\ main.pc = "ban1"
    /\ IF enc.there THEN dec' = enc /\ BanGoes("ban2") ELSE UNCHANGED dec /\ BanEnds
    /\ UNCHANGED <<enc, timers>>

ban_append_nothing ==
    /\ main.pc = "ban2" /\ BanGoes("ban3")
    /\ UNCHANGED <<files, timers>>
ban_append ==
    /\ main.pc = "ban2" /\ BanGoes("ban3")
    /\ dec' = Holding(Append(dec.names, Named))
    /\ UNCHANGED <<enc, timers>>

ban_delete ==
    /\ main.pc = "ban3" /\ BanGoes("ban4")
    /\ enc' = Absent
    /\ UNCHANGED <<dec, timers>>

ban_create ==
    /\ main.pc = "ban4"
    /\ IF enc.there THEN UNCHANGED enc /\ BanEnds ELSE enc' = Raw /\ BanGoes("ban5")
    /\ UNCHANGED <<dec, timers>>

ban_encrypt ==
    /\ main.pc = "ban5"
    /\ IF dec.there
       THEN enc' = dec /\ timers' = Append(timers, [pc |-> "set", client |-> Named]) /\ BanGoes("ban6")
       ELSE UNCHANGED <<enc, timers>> /\ BanEnds
    /\ UNCHANGED dec

ban_clean ==
    /\ main.pc = "ban6"
    /\ dec' = Absent /\ BanEnds
    /\ UNCHANGED <<enc, timers>>

---------------------------------------------------------------------------
(* BannedTimerTask.run of timer i.  The string without the client's name   *)
(* is dropped, so the file is encrypted again with all its names; for a    *)
(* moment the new banned_encrypted holds plain text.  An exception ends    *)
(* the task where it is.                                                   *)
timer_decrypt(i) ==
    /\ timers[i].pc = "set"
    /\ IF enc.there THEN dec' = enc /\ TimerGoes(i, "t2") ELSE UNCHANGED dec /\ TimerGoes(i, "over")
    /\ UNCHANGED enc
timer_read(i) ==
    /\ timers[i].pc = "t2"
    /\ TimerGoes(i, IF dec.there THEN "t3" ELSE "over")
    /\ UNCHANGED files
timer_delete(i) ==
    /\ timers[i].pc = "t3" /\ TimerGoes(i, "t4")
    /\ enc' = Absent /\ UNCHANGED dec
timer_create(i) ==
    /\ timers[i].pc = "t4"
    /\ IF enc.there THEN UNCHANGED enc /\ TimerGoes(i, "over") ELSE enc' = Raw /\ TimerGoes(i, "t5")
    /\ UNCHANGED dec
timer_write(i) ==
    /\ timers[i].pc = "t5" /\ TimerGoes(i, "t6")
    /\ enc' = Raw /\ UNCHANGED dec
timer_encrypt(i) ==
    /\ timers[i].pc = "t6"
    /\ IF dec.there THEN enc' = dec /\ TimerGoes(i, "t7") ELSE UNCHANGED enc /\ TimerGoes(i, "over")
    /\ UNCHANGED dec
timer_clean(i) ==
    /\ timers[i].pc = "t7" /\ TimerGoes(i, "over")
    /\ dec' = Absent /\ UNCHANGED enc

BannedTimerTask(i) ==
    /\ auth = "up"
    /\ timer_decrypt(i) \/ timer_read(i) \/ timer_delete(i) \/ timer_create(i)
         \/ timer_write(i) \/ timer_encrypt(i) \/ timer_clean(i)

AuthServes ==
    /\ auth = "up"
    /\ \/ processRequest \/ reply
       \/ isBanned_decrypt \/ isBanned_look \/ isBanned_delete
       \/ ban_decrypt \/ ban_append \/ ban_delete \/ ban_create \/ ban_encrypt \/ ban_clean

AuthNext ==
    \/ auth_start \/ auth_dies \/ AuthServes
    \/ \E i \in DOMAIN timers : BannedTimerTask(i)
=============================================================================
