-------------------------- MODULE DepartmentServer --------------------------
(***************************************************************************)
(* A department server of AuthenticatedFilesServer (server/src/Server.java)*)
(* and its clients (client/src/Client.java), composed with the             *)
(* authorization server.  One thread accepts connections and asks the      *)
(* authorization server about each client; a ConnectionHandler thread      *)
(* serves every client that is allowed.  The handlers share the list of    *)
(* uploaded files, which every upload writes to a file as a whole, and the *)
(* list is read back from it when the server is started again.             *)
(*                                                                         *)
(* A client may have several connections at a time.                        *)
(* An upload is legal (its length short or long) or contains a forbidden   *)
(* word, which bans the client.                                            *)
(***************************************************************************)
EXTENDS AuthorizationServer, SequencesExt

CONSTANTS
    User,       \* the client that opens a connection
    Names,      \* names of files
    Work,       \* sets of what may happen in a behaviour: connections, the uploads
                \* "short", "long" and "illegal", and "crash" of the server
    MaxCommands,\* bound: commands on one connection
    MaxCrashes  \* bound: how often the server is stopped

Uploads == {"short", "long", "illegal"}
ASSUME ServerAssumption ==
    /\ Names # {} /\ Work \subseteq SUBSET (Uploads \cup {"crash"} \cup Connections)
    /\ MaxCommands \in Nat /\ MaxCrashes \in Nat
    /\ Connections # {} /\ User \in [Connections -> Clients]

VARIABLES
    work,       \* the member of Work that this behaviour is about
    server,     \* "down", "up", or "deaf": up, but its accept loop has ended
    crashes,
    backlog,    \* connections not yet accepted
    acc,        \* the accepting thread: place and connection, and history: how
                \* many bans had been carried out when it asked
    conn,       \* the connections
    input,      \* the input thread of the client's process: "ready" or "quit"
    commands,
    toServer, toClient,
    hpc, arg,   \* the handlers: place, the command or the list's size
    uploadedFiles,
    upload_list,\* the file __upload_list.bin
    disk,       \* the directory downloads
    acked,      \* history: uploads that were confirmed
    torn        \* history: the list was written by two handlers at once, or
                \* the server was stopped while it was being written

serverVars == <<work, server, crashes, backlog, acc, conn, input, commands, toServer, toClient,
                hpc, arg, uploadedFiles, upload_list, disk, acked, torn>>
vars == <<authVars, serverVars>>

NoOne == [pc |-> "accept", conn |-> CHOOSE c \in Connections : TRUE, known |-> 0]
ListOpRecord == [numeFisier : Names, idProprietar : Clients]
NoArg == [cmd |-> "none", file |-> CHOOSE f \in Names : TRUE, data |-> "none", size |-> 0]
Command == {[NoArg EXCEPT !.cmd = k] : k \in {"quit", "list"}}
              \cup [cmd : {"download"}, file : Names, data : {"none"}, size : {0}]
              \cup [cmd : {"upload"}, file : Names, data : work \cap Uploads, size : {0}]

TypeOK ==
    /\ AuthTypeOK
    /\ server \in {"down", "failed", "up", "deaf"}
    /\ conn \in [Connections -> {"new", "off", "queued", "open", "closed"}]
    /\ hpc \in [Connections -> {"off", "read", "list", "file", "ban", "record", "open", "write", "reply"}]
    /\ uploadedFiles \in Seq(ListOpRecord) /\ upload_list \in Seq(ListOpRecord)
    /\ disk \in [Names -> {"absent", "empty", "short", "long", "mixed"}]

Init ==
    /\ AuthInit
    /\ work \in Work /\ server = "down" /\ crashes = 0 /\ backlog = <<>>
    /\ acc = NoOne
    /\ conn = [c \in Connections |-> "new"] /\ input = [c \in Connections |-> "ready"]
    /\ commands = [c \in Connections |-> 0]
    /\ toServer = [c \in Connections |-> <<>>] /\ toClient = [c \in Connections |-> <<>>]
    /\ hpc = [c \in Connections |-> "off"] /\ arg = [c \in Connections |-> NoArg]
    /\ uploadedFiles = <<>> /\ upload_list = <<>>
    /\ disk = [f \in Names |-> "absent"]
    /\ acked = {} /\ torn = FALSE

Fixed == UNCHANGED authVars
Session == <<conn, input, commands, toServer, toClient>>
Storage == <<uploadedFiles, upload_list, disk, acked, torn>>

---------------------------------------------------------------------------
(* Starting and stopping the server. *)

(* The constructor reads the list back; initialize may fail.               *)
deserialize_never == <<>>
deserialize == upload_list

server_start ==
    /\ server = "down" /\ server' \in {"up", "failed"}
    /\ uploadedFiles' = deserialize
    /\ UNCHANGED <<work, crashes, backlog, acc, Session, hpc, arg, upload_list, disk, acked, torn>> /\ Fixed

(* CTRL+C: all connections break.  A list that is being written is cut.    *)
server_crash ==
    /\ server \in {"up", "deaf"} /\ crashes < MaxCrashes /\ "crash" \in work
    /\ server' = "down" /\ crashes' = crashes + 1
    /\ backlog' = <<>> /\ acc' = NoOne
    /\ conn' = [c \in Connections |-> IF conn[c] \in {"new", "off"} THEN conn[c] ELSE "closed"]
    /\ toServer' = [c \in Connections |-> <<>>]
    /\ hpc' = [c \in Connections |-> "off"] /\ arg' = [c \in Connections |-> NoArg]
    /\ requests' = <<>> /\ answers' = [c \in Callers |-> NoAnswer]
    /\ torn' = (torn \/ \E c \in Connections : hpc[c] = "write")
    /\ uploadedFiles' = <<>>
    /\ main' = [main EXCEPT !.request.from = "nobody"]
    /\ UNCHANGED <<work, input, commands, toClient, upload_list, disk, acked,
                   serverLevel, auth, enc, dec, timers, banned, lossy>>

---------------------------------------------------------------------------
(* The clients. *)

(* A client is started, whatever its other connections and their handlers  *)
(* are doing.                                                              *)
(* initialize starts the input thread before the connection is made.  A    *)
(* command typed too early ends that thread, because there is no stream    *)
(* yet: such a client sends nothing, as one whose user types nothing.      *)
client_run(c) ==
    /\ conn[c] = "new" /\ c \in work /\ server \in {"up", "deaf"}
    /\ conn' = [conn EXCEPT ![c] = "queued"]
    /\ backlog' = Append(backlog, c)
    /\ UNCHANGED <<work, server, crashes, acc, input, commands, toServer, toClient, hpc, arg, Storage>> /\ Fixed

(* On connection c an upload was sent that will ban the client.            *)
Illegal(c) == \E m \in ToSet(toServer[c]) \cup {arg[c]} : m.data = "illegal"

(* A command is sent, and with an upload the file's name and contents.     *)
(* Nothing keeps the client from sending before it is accepted.            *)
client_command(c) ==
    /\ conn[c] \in {"queued", "open"} /\ input[c] = "ready" /\ commands[c] < MaxCommands
    /\ \E m \in Command :
          /\ m.data = "illegal" => Len(timers) + Cardinality({d \in Connections : Illegal(d)}) < MaxBans
          /\ toServer' = [toServer EXCEPT ![c] = Append(@, m)]
          /\ input' = [input EXCEPT ![c] = IF m.cmd = "quit" THEN "quit" ELSE @]
    /\ commands' = [commands EXCEPT ![c] = @ + 1]
    /\ UNCHANGED <<work, server, crashes, backlog, acc, conn, toClient, hpc, arg, Storage>> /\ Fixed

(* The receiving thread: DENIED, quit and the end of the stream end the    *)
(* client.  The other answers are read to their end at once; a list with   *)
(* fewer records than it announced takes the answers after it for records. *)
client_receive(c) ==
    /\ conn[c] \notin {"new", "off"} /\ (toClient[c] # <<>> \/ conn[c] = "closed")
    /\ IF toClient[c] = <<>> \/ Head(toClient[c]) \in {"DENIED", "quit"}
       THEN /\ conn' = [conn EXCEPT ![c] = "off"]
            /\ toClient' = [toClient EXCEPT ![c] = <<>>]
       ELSE /\ \E n \in 1..Len(toClient[c]) :
                  toClient' = [toClient EXCEPT ![c] = SubSeq(@, n + 1, Len(@))]
            /\ UNCHANGED conn
    /\ UNCHANGED <<work, server, crashes, backlog, acc, input, commands, toServer, hpc, arg, Storage>>
    /\ Fixed
---------------------------------------------------------------------------
(* The accepting thread. *)

(* communicateWithAuth: connect, send, and wait for the line; null when    *)
(* the authorization server cannot be reached or goes away.                *)
Ask_of_nobody(from, kind, c) ==
    IF auth = "up"
    THEN requests' = Append(requests, [from |-> from, kind |-> kind, client |-> User[c]]) /\ UNCHANGED answers
    ELSE UNCHANGED <<requests, answers>>
Ask(from, kind, c) ==
    IF auth = "up"
    THEN requests' = Append(requests, [from |-> from, kind |-> kind, client |-> User[c]]) /\ UNCHANGED answers
    ELSE answers' = [answers EXCEPT ![from] = "null"] /\ UNCHANGED requests
Answered(from) == answers[from] # NoAnswer
Taken(from) ==
    /\ answers' = [answers EXCEPT ![from] = NoAnswer]
    /\ UNCHANGED <<serverLevel, auth, enc, dec, main, timers, requests, banned, lossy>>

(* A connection whose handshake fails or whose certificate is refused is   *)
(* dropped; else the authorization server is asked.                        *)
accept ==
    /\ server = "up" /\ acc.pc = "accept" /\ backlog # <<>>
    /\ LET c == Head(backlog)
       IN \/ /\ acc' = [pc |-> "ask", conn |-> c, known |-> Len(banned)]
             /\ Ask("accept", "CHECK", c)
             /\ UNCHANGED conn
          \/ /\ conn' = [conn EXCEPT ![c] = "closed"]
             /\ UNCHANGED <<acc, requests, answers>>
    /\ backlog' = Tail(backlog)
    /\ UNCHANGED <<work, server, crashes, input, commands, toServer, toClient, hpc, arg, Storage,
                   serverLevel, auth, enc, dec, main, timers, banned, lossy>>

(* goodbyeClient: DENIED, and the connection is closed.                    *)
goodbyeClient(c) ==
    /\ toClient' = [toClient EXCEPT ![c] = IF conn[c] = "off" THEN @ ELSE Append(@, "DENIED")]
    /\ conn' = [conn EXCEPT ![c] = IF @ = "off" THEN @ ELSE "closed"]

(* Without an answer the thread returns and nobody accepts any more; the   *)
(* client's connection stays open.                                         *)
verdict ==
    /\ server = "up" /\ acc.pc = "ask" /\ Answered("accept")
    /\ LET c == acc.conn
           a == answers["accept"]
       IN /\ server' = IF a = "null" THEN "deaf" ELSE server
          /\ hpc' = [hpc EXCEPT ![c] = IF a = "ALLOWED" THEN "read" ELSE @]
          /\ IF a \in {"DENIED", "ERROR"} THEN goodbyeClient(c)
             ELSE conn' = [conn EXCEPT ![c] = "open"] /\ UNCHANGED toClient
    /\ acc' = NoOne
    /\ Taken("accept")
    /\ UNCHANGED <<work, crashes, backlog, input, commands, toServer, arg, Storage>>

---------------------------------------------------------------------------
(* The ConnectionHandler of connection c. *)

Handler(c, from, to) == hpc[c] = from /\ hpc' = [hpc EXCEPT ![c] = to]

(* An answer to the client; writing to a client that has left may fail,    *)
(* which ends the handler.                                                 *)
Answer(c, from, m) ==
    /\ \E to \in IF conn[c] = "open" THEN {"read"} ELSE {"read", "off"} : Handler(c, from, to)
    /\ toClient' = [toClient EXCEPT ![c] = IF conn[c] = "open" /\ m \in {"quit", "part of a list"}
                                           THEN Append(@, m) ELSE @]
    /\ arg' = [arg EXCEPT ![c] = NoArg]

(* sendMessage reads a command; a list starts with the number of records.  *)
Place(m) == CASE m.cmd = "list" -> "list" [] m.cmd = "upload" -> "file" [] OTHER -> "reply"

read_command(c) ==
    /\ toServer[c] # <<>>
    /\ LET m == Head(toServer[c])
       IN /\ Handler(c, "read", Place(m))
          /\ arg' = [arg EXCEPT ![c] = IF m.cmd = "list" THEN [m EXCEPT !.size = Len(uploadedFiles)] ELSE m]
    /\ toServer' = [toServer EXCEPT ![c] = Tail(@)]
    /\ UNCHANGED <<work, server, crashes, backlog, acc, conn, input, commands, toClient, Storage>>
    /\ Fixed

(* The client has left: readLine returns null.                             *)
end_of_stream(c) ==
    /\ toServer[c] = <<>> /\ conn[c] = "off" /\ Handler(c, "read", "off")
    /\ UNCHANGED <<work, server, crashes, backlog, acc, Session, arg, Storage>> /\ Fixed

(* sendUploadList: the iteration fails when the list has grown meanwhile.  *)
send_list(c) ==
    /\ Answer(c, "list", IF arg[c].size = Len(uploadedFiles) THEN "list" ELSE "part of a list")
    /\ UNCHANGED <<work, server, crashes, backlog, acc, conn, input, commands, toServer, Storage>>
    /\ Fixed

(* quit is sent back; a file is sent, and created if there is none.        *)
send_answer(c) ==
    /\ arg[c].cmd \in {"quit", "download"} /\ Answer(c, "reply", arg[c].cmd)
    /\ disk' = IF arg[c].cmd = "download" /\ disk[arg[c].file] = "absent"
               THEN [disk EXCEPT ![arg[c].file] = "empty"] ELSE disk
    /\ UNCHANGED <<work, server, crashes, backlog, acc, conn, input, commands, toServer,
                   uploadedFiles, upload_list, acked, torn>> /\ Fixed

(* downloadFile: forbidden words are not stored; a shorter file leaves the *)
(* end of a longer one in place.                                           *)
Stored(old, new) == IF new = "short" /\ old \in {"long", "mixed"} THEN "mixed" ELSE new

store_file(c) ==
    /\ arg[c].data # "illegal" /\ Handler(c, "file", "record")
    /\ disk' = [disk EXCEPT ![arg[c].file] = Stored(@, arg[c].data)]
    /\ UNCHANGED <<work, server, crashes, backlog, acc, Session, arg, uploadedFiles, upload_list, acked, torn>>
    /\ Fixed

refuse_file(c) ==
    /\ arg[c].data = "illegal" /\ Handler(c, "file", "ban")
    /\ Ask(c, "BAN", c)
    /\ UNCHANGED <<work, server, crashes, backlog, acc, Session, arg, Storage,
                   serverLevel, auth, enc, dec, main, timers, banned, lossy>>

(* The answer to the ban, or its absence, is not looked at.                *)
banned_goodbye(c) ==
    /\ Answered(c) /\ Handler(c, "ban", "off")
    /\ goodbyeClient(c) /\ Taken(c)
    /\ arg' = [arg EXCEPT ![c] = NoArg]
    /\ UNCHANGED <<work, server, crashes, backlog, acc, input, commands, toServer, Storage>>

putFileRecord(c) ==
    /\ Handler(c, "record", "open")
    /\ uploadedFiles' = Append(uploadedFiles, [numeFisier |-> arg[c].file, idProprietar |-> User[c]])
    /\ UNCHANGED <<work, server, crashes, backlog, acc, Session, arg, upload_list, disk, acked, torn>> /\ Fixed

(* serialize: the file is truncated, and written with the list of then.    *)
serialize_open(c) ==
    /\ Handler(c, "open", "write")
    /\ upload_list' = <<>>
    /\ arg' = [arg EXCEPT ![c].size = Len(uploadedFiles)]
    /\ torn' = (torn \/ \E d \in Connections : hpc[d] = "write")
    /\ UNCHANGED <<work, server, crashes, backlog, acc, Session, uploadedFiles, disk, acked>> /\ Fixed

Written_all_but_last(n) == SubSeq(uploadedFiles, 1, n - 1)
Written(n) == SubSeq(uploadedFiles, 1, n)
serialize_write(c) ==
    /\ Handler(c, "write", "reply")
    /\ upload_list' = Written(arg[c].size)
    /\ UNCHANGED <<work, server, crashes, backlog, acc, Session, arg, uploadedFiles, disk, acked, torn>> /\ Fixed

confirm(c) ==
    /\ arg[c].cmd = "upload" /\ Answer(c, "reply", "upload")
    /\ acked' = acked \cup {[numeFisier |-> arg[c].file, idProprietar |-> User[c]]}
    /\ UNCHANGED <<work, server, crashes, backlog, acc, conn, input, commands, toServer,
                   uploadedFiles, upload_list, disk, torn>> /\ Fixed

ConnectionHandler(c) ==
    \/ read_command(c) \/ end_of_stream(c) \/ send_list(c) \/ send_answer(c)
    \/ store_file(c) \/ refuse_file(c) \/ banned_goodbye(c)
    \/ putFileRecord(c) \/ serialize_open(c) \/ serialize_write(c) \/ confirm(c)

Next ==
    \/ AuthNext /\ UNCHANGED serverVars
    \/ server_start \/ server_crash \/ accept \/ verdict
    \/ \E c \in Connections : client_run(c) \/ client_command(c) \/ client_receive(c) \/ ConnectionHandler(c)

(* Threads that can run do run; users, crashes and starts need not happen. *)
Spec ==
    /\ Init /\ [][Next]_vars
    /\ WF_vars(AuthServes /\ UNCHANGED serverVars)
    /\ WF_vars(accept) /\ WF_vars(verdict)
    /\ \A c \in Connections : WF_vars(ConnectionHandler(c)) /\ WF_vars(client_receive(c))

---------------------------------------------------------------------------
(* Properties. *)

(* Only clients of a department of sufficient priority are served, and a   *)
(* client whose ban had been carried out when the server asked about a new *)
(* connection of it is not served on it, over any connections at once,     *)
(* stops of the server and timers: as long as no two threads of the        *)
(* authorization server have been at its files at the same time, these were*)
(* there at the start, and the ban is among the first of the list.  The    *)
(* connections a client has when it is banned are served on.               *)
ServedRightly ==
    [][\A c \in Connections : (hpc[c] = "off" /\ hpc'[c] = "read") =>
          /\ Level[User[c]] >= serverLevel
          /\ lossy \/ User[c] \notin Found(SubSeq(banned, 1, acc.known))]_vars

(* Every record of the list, in memory or in __upload_list.bin, is that of *)
(* a file which has been stored, and both lists agree on their common      *)
(* part, whenever the server is stopped and started.                       *)
ListedIsStored ==
    /\ \A r \in ToSet(uploadedFiles) \cup ToSet(upload_list) : disk[r.numeFisier] \in {"short", "long", "mixed"}
    /\ server = "up" => IsPrefix(upload_list, uploadedFiles)

(* An upload that was confirmed is in __upload_list.bin, so it survives a  *)
(* stop of the server: as long as the list is not written by two handlers  *)
(* at once or cut while it is written.                                     *)
ConfirmedIsSaved ==
    (~torn /\ \A c \in Connections : hpc[c] # "write") => acked \subseteq ToSet(upload_list)

(* Every connection gets its verdict and every command its                 *)
(* answer, as long as the server accepts: the threads of both servers do   *)
(* not wait for each other, whatever stops, and whenever.                  *)
Pending(c) == (conn[c] = "queued" /\ server = "up") \/ hpc[c] \notin {"off", "read"}
EveryoneIsAnswered == \A c \in Connections : Pending(c) ~> ~Pending(c)
=============================================================================
