----------------------------- MODULE MiniShell -----------------------------
(***************************************************************************)
(* The mini shell of MiniShellLinux (src/tema1_mini_shell.cpp).  A line is *)
(* parsed (see ShellParser) and its tree is walked by display_command,     *)
(* which forks processes that walk the subtrees on: one process may have   *)
(* many copies of the shell below it, at different places of the tree.     *)
(* Each process has its own program counter, directory, environment and    *)
(* descriptors; files and pipes are shared.                                *)
(*                                                                         *)
(* What the kernel does (fork, waitpid, pipes, exit statuses) and the      *)
(* programs that are run are modelled as the shell uses them.  The stack   *)
(* of CommandsHandler only hands a command from display_simple to          *)
(* execute_simple_command: it is the command of the frame.                 *)
(***************************************************************************)
EXTENDS Integers, Sequences, FiniteSets, SequencesExt

CONSTANTS
    Lines,      \* lines the user may type, see ShellLines
    Parse,      \* what parse_line() makes of each of them
    Files,      \* names of files, as sequences of their parts
    Dirs,       \* directories that cd finds
    PipeSize,   \* what a pipe can hold
    MaxProcs,   \* bound: processes at a time
    MaxFaults   \* bound: failures of fork, pipe and open

ASSUME ShellAssumption == PipeSize \in Nat \ {0} /\ MaxProcs \in Nat \ {0} /\ MaxFaults \in Nat

VARIABLES
    shell,      \* "prompt", "busy" or "exited"
    line, parsed,
    procs,      \* the processes, by pid; the shell is 1
    pipes,      \* contents of the pipes
    open,       \* open file descriptions: file, append, offset
    files,      \* contents, or NoFile
    faults,
    fate,       \* history: how each simple command ended
    written,    \* history: what was written to each file since it was truncated
    clash       \* history: files that a process opened to write while another had them open
shellVars == <<shell, line, parsed, procs, pipes, open, files, faults, fate, written, clash>>

Pids == 1..MaxProcs
NoFile == [i \in {0} |-> 0]    \* no sequence
TTY == <<"tty", 0>>

---------------------------------------------------------------------------
(* Processes. *)

(* What a process has still to do is a sequence of frames: a place in the  *)
(* code, the command it is about, and a pid it waits for.                  *)
Frame(k, c, n) == [k |-> k, c |-> c, n |-> n]
NoCommand == [op |-> "none"]
Eval(c) == Frame("eval", c, 0)
Exit == Frame("exit", NoCommand, 0)

Free == [st |-> "free"]
Live(p) == procs[p].st = "run"
Do(p) == Head(procs[p].todo)
Then(p, frames) == [procs[p] EXCEPT !.todo = frames \o Tail(@)]
Returns(p, result) == [procs[p] EXCEPT !.res = result, !.todo = Tail(@)]

(* Descriptors that a process holds.                                       *)
Held(r) == IF r.st = "run" THEN {r.in, r.out, r.err} \cup r.hold ELSE {}
SomeHold(ps, d) == \E p \in Pids : d \in Held(ps[p])

(* exit and death by a signal leave a wait status.  A zombie remains for a *)
(* parent; nobody waits for a process whose parent is gone.                *)
ExitStatus(code) == (code % 256) * 256
Ended(ps, p, status) ==
    [q \in Pids |->
        IF q = p THEN IF ps[p].parent = 0 THEN Free
                      ELSE [st |-> "zombie", parent |-> ps[p].parent, status |-> status, left |-> ps[p].left]
        ELSE IF ps[q].st # "free" /\ ps[q].parent = p
             THEN IF ps[q].st = "zombie" THEN Free ELSE [ps[q] EXCEPT !.parent = 0]
        ELSE ps[q]]

(* The end of process p; it may be the shell itself.                       *)
Ends(p, status) ==
    /\ procs' = Ended(procs, p, status)
    /\ shell' = IF p = 1 THEN "exited" ELSE shell

FreePids == {q \in Pids : procs[q].st = "free"}
NewPid == CHOOSE q \in FreePids : TRUE

(* fork: the child is a copy that goes on at other frames.  When it fails  *)
(* the process exits with -1, wherever it is.                              *)
Fork(p, parent, child, left) ==
    \/ /\ FreePids # {}
       /\ procs' = [procs EXCEPT ![p] = parent,
                                 ![NewPid] = [procs[p] EXCEPT !.todo = child, !.parent = p, !.left = @ \/ left]]
       /\ UNCHANGED <<shell, faults>>
    \/ /\ faults < MaxFaults /\ faults' = faults + 1
       /\ Ends(p, ExitStatus(-1))

Idle == [st |-> "run", todo |-> <<>>, res |-> 0, parent |-> 0, cwd |-> "home", env |-> <<>>,
         in |-> TTY, out |-> TTY, err |-> TTY, hold |-> {}, left |-> FALSE]

ShellInit ==
    /\ shell = "prompt" /\ line \in Lines /\ parsed = [result |-> "none"]
    /\ procs = [p \in Pids |-> IF p = 1 THEN Idle ELSE Free]
    /\ pipes = <<>> /\ open = <<>>
    /\ \E content \in {NoFile, <<>>} : files = [f \in Files |-> content]
    /\ faults = 0 /\ fate = [i \in 1..Len(line.cmds) |-> "none"]
    /\ written = [f \in Files |-> {}] /\ clash = {}

Storage == <<pipes, open, files, written, clash>>
Input == <<line, parsed>>

---------------------------------------------------------------------------
(* main. *)

(* A line is read and parsed; an empty one, or one with an error, leads    *)
(* back to the prompt.                                                     *)
read_line ==
    /\ shell = "prompt" /\ parsed.result = "none"
    /\ parsed' = Parse[line]
    /\ procs' = IF parsed'.result = "tree" THEN [procs EXCEPT ![1].todo = <<Eval(parsed'.tree)>>] ELSE procs
    /\ shell' = CASE parsed'.result = "tree" -> "busy" [] parsed'.result = "abort" -> "exited" [] OTHER -> "prompt"
    /\ UNCHANGED <<line, Storage, faults, fate>>

(* exit, quit, or the end of the input.                                    *)
leave ==
    /\ shell = "prompt" /\ shell' = "exited"
    /\ UNCHANGED <<Input, procs, Storage, faults, fate>>

prompt ==
    /\ shell = "busy" /\ procs[1].todo = <<>> /\ shell' = "prompt"
    /\ UNCHANGED <<Input, procs, Storage, faults, fate>>

---------------------------------------------------------------------------
(* display_command in process p. *)

At(p, k) == Live(p) /\ procs[p].todo # <<>> /\ Do(p).k = k
Op(p, ops) == At(p, "eval") /\ Do(p).c.op \in ops

(* The first operand is run, and the frame of the operator decides about   *)
(* the second.                                                             *)
first_operand(p) ==
    /\ Op(p, {"OP_SEQUENTIAL", "OP_CONDITIONAL_ZERO", "OP_CONDITIONAL_NZERO"})
    /\ LET c == Do(p).c IN procs' = [procs EXCEPT ![p] = Then(p, <<Eval(c.cmd1), Frame("decide", c, 0)>>)]
    /\ UNCHANGED <<shell, Input, Storage, faults, fate>>

Goes(op, result) ==
    \/ op = "OP_SEQUENTIAL"
    \/ op = "OP_CONDITIONAL_ZERO" /\ result = 0
    \/ op = "OP_CONDITIONAL_NZERO" /\ result # 0
second_operand(p) ==
    /\ At(p, "decide")
    /\ LET c == Do(p).c
       IN procs' = [procs EXCEPT ![p] = Then(p, IF Goes(c.op, procs[p].res) THEN <<Eval(c.cmd2)>> ELSE <<>>)]
    /\ UNCHANGED <<shell, Input, Storage, faults, fate>>

(* Both forks of OP_PARALLEL and OP_PIPE: a child, in which a grandchild   *)
(* runs the first operand and the child itself the second.                 *)
fork_child(p) ==
    /\ Op(p, {"OP_PARALLEL", "OP_PIPE"})
    /\ LET c == Do(p).c
       IN Fork(p, Then(p, <<Frame("wait", c, NewPid)>>),
               <<Frame(IF c.op = "OP_PIPE" THEN "pipe" ELSE "fork2", c, 0)>>, FALSE)
    /\ UNCHANGED <<Input, Storage, fate>>

fork_parallel(p) ==
    /\ At(p, "fork2")
    /\ LET c == Do(p).c
       IN Fork(p, Then(p, <<Eval(c.cmd2), Frame("wait2", c, NewPid)>>), <<Eval(c.cmd1), Exit>>, FALSE)
    /\ UNCHANGED <<Input, Storage, fate>>

(* pipe(fds); a failure is exit(1).                                        *)
make_pipe(p) ==
    /\ At(p, "pipe")
    /\ \/ /\ procs' = [procs EXCEPT ![p] = [Then(p, <<Frame("fork3", Do(p).c, Len(pipes) + 1)>>)
                                              EXCEPT !.hold = {<<"r", Len(pipes) + 1>>, <<"w", Len(pipes) + 1>>}]]
          /\ pipes' = Append(pipes, <<>>)
          /\ UNCHANGED <<shell, faults>>
       \/ /\ faults < MaxFaults /\ faults' = faults + 1
          /\ Ends(p, ExitStatus(1)) /\ UNCHANGED pipes
    /\ UNCHANGED <<Input, open, files, written, clash, fate>>

fork_pipe(p) ==
    /\ At(p, "fork3")
    /\ LET c == Do(p).c
       IN Fork(p, Then(p, <<Frame("reader", c, Do(p).n), Eval(c.cmd2), Exit>>),
               <<Frame("writer", c, Do(p).n), Eval(c.cmd1), Exit>>, TRUE)
    /\ UNCHANGED <<Input, Storage, fate>>

(* The ends are duplicated to standard output and input, and all that      *)
(* pipe() gave is closed.                                                  *)
Closed_own_end(d, hold) == {x \in hold : x[1] # d}
Closed(d, hold) == {}
connect_writer(p) ==
    /\ At(p, "writer")
    /\ procs' = [procs EXCEPT ![p] = [Then(p, <<>>) EXCEPT !.out = <<"w", Do(p).n>>, !.hold = Closed("w", @)]]
    /\ UNCHANGED <<shell, Input, Storage, faults, fate>>
connect_reader(p) ==
    /\ At(p, "reader")
    /\ procs' = [procs EXCEPT ![p] = [Then(p, <<>>) EXCEPT !.in = <<"r", Do(p).n>>, !.hold = Closed("r", @)]]
    /\ UNCHANGED <<shell, Input, Storage, faults, fate>>

(* waitpid(cpid1): the status itself is the result.                        *)
Reaped(p, q, record) == [procs EXCEPT ![p] = record, ![q] = Free]
Dead(p, k) == At(p, k) /\ procs[Do(p).n].st = "zombie" /\ procs[Do(p).n].parent = p

wait_child(p) ==
    /\ Dead(p, "wait")
    /\ LET q == Do(p).n IN procs' = Reaped(p, q, Returns(p, procs[q].status))
    /\ UNCHANGED <<shell, Input, Storage, faults, fate>>

(* waitpid(cpid2), after the second operand; exit(result | status2).       *)
BitOr[a \in Nat, b \in Nat] ==
    IF a = 0 THEN b ELSE 2 * BitOr[a \div 2, b \div 2] + (IF a % 2 = 1 \/ b % 2 = 1 THEN 1 ELSE 0)
OrStatus(a, b) == IF a < 0 THEN a ELSE BitOr[a, b]
wait_grandchild_not(p) ==
    /\ At(p, "wait2")
    /\ procs' = [procs EXCEPT ![p] = Then(p, <<Exit>>)]
    /\ UNCHANGED <<shell, Input, Storage, faults, fate>>
wait_grandchild(p) ==
    /\ Dead(p, "wait2")
    /\ LET q == Do(p).n
       IN procs' = Reaped(p, q, [Then(p, <<Exit>>) EXCEPT !.res = OrStatus(@, procs[q].status)])
    /\ UNCHANGED <<shell, Input, Storage, faults, fate>>

exit_result(p) ==
    /\ At(p, "exit") /\ Ends(p, ExitStatus(procs[p].res))
    /\ UNCHANGED <<Input, Storage, faults, fate>>

---------------------------------------------------------------------------
(* execute_simple_command. *)

(* The words of a command after display_word and flatten: variables have   *)
(* their values, or are empty.  Strings are concatenated, so a name is the *)
(* sequence of its parts.                                                  *)
Value1(env, part) ==
    IF ~part.expand THEN part.string
    ELSE LET defs == {i \in DOMAIN env : env[i].name = part.string}
         IN IF defs = {} THEN "" ELSE env[CHOOSE i \in defs : \A j \in defs : j <= i].value
display_word(env, word) == SelectSeq([i \in DOMAIN word |-> Value1(env, word[i])], LAMBDA s : s # "")
flatten(env, list) == FlattenSeq([i \in DOMAIN list |-> display_word(env, list[i])])

Simple(p) == Do(p).c.scmd
Load(p) == display_word(procs[p].env, Simple(p).verb)
Ok(b) == IF b THEN "ok" ELSE "failed"
Fate(p, b) == [fate EXCEPT ![Simple(p).id] = Ok(b)]

internal(p) ==
    /\ Op(p, {"OP_NONE"})
    /\ LET load == Load(p)
           dir == flatten(procs[p].env, Simple(p).params)
           found == Len(dir) = 1 /\ dir[1] \in Dirs
       IN \/ /\ load = <<"cd">>
             /\ procs' = [procs EXCEPT ![p] = [Returns(p, IF found THEN 0 ELSE -1)
                                                 EXCEPT !.cwd = IF found THEN dir[1] ELSE @]]
             /\ fate' = Fate(p, found)
          \/ /\ load \in {<<"true">>, <<"false">>}
             /\ procs' = [procs EXCEPT ![p] = Returns(p, IF load = <<"true">> THEN 0 ELSE 1)]
             /\ fate' = Fate(p, load = <<"true">>)
          \/ /\ \E i \in DOMAIN load : load[i] = "="
             /\ procs' = [procs EXCEPT ![p] = [Returns(p, 0) EXCEPT !.env =
                             Append(@, [name |-> Head(load), value |-> IF Len(load) = 3 THEN load[3] ELSE ""])]]
             /\ fate' = Fate(p, TRUE)
    /\ UNCHANGED <<shell, Input, Storage, faults>>

(* size_t is as wide as unsigned int here, the type of pos.                *)
External(load) == load \notin {<<"cd">>, <<"true">>, <<"false">>} /\ \A i \in DOMAIN load : load[i] # "="
fork_program(p) ==
    /\ Op(p, {"OP_NONE"}) /\ External(Load(p))
    /\ LET c == Do(p).c
       IN Fork(p, Then(p, <<Frame("wait3", c, NewPid)>>),
               <<Frame("open_in", c, 0), Frame("open_out", c, 0), Frame("open_err", c, 0), Frame("program", c, 0)>>, FALSE)
    /\ UNCHANGED <<Input, Storage, fate>>

(* WEXITSTATUS, or -1 when a signal has killed the program.                *)
Result_raw(status) == status
Result(status) == IF status % 128 = 0 THEN status \div 256 ELSE -1
wait_program(p) ==
    /\ Dead(p, "wait3")
    /\ LET q == Do(p).n IN procs' = Reaped(p, q, Returns(p, Result(procs[q].status)))
    /\ UNCHANGED <<shell, Input, Storage, faults, fate>>

(* The redirections, in the child.  A file that cannot be opened makes     *)
(* redirect fail, with exit(1).                                            *)
Target(p, list) == flatten(procs[p].env, list)
OpenFails(p) == Ends(p, ExitStatus(1)) /\ fate' = Fate(p, FALSE)
Connected(p, field, d) == procs' = [procs EXCEPT ![p] = [Then(p, <<>>) EXCEPT ![field] = d]]
Description(f, append) == [file |-> f, append |-> append, at |-> 0]

Opened(p, f, append) ==
    /\ open' = Append(open, Description(f, append))
    /\ files' = [files EXCEPT ![f] = IF append /\ @ # NoFile THEN @ ELSE <<>>]
    /\ written' = [written EXCEPT ![f] = IF append THEN @ ELSE {}]
    /\ clash' = IF \E q \in Pids \ {p}, i \in DOMAIN open :
                      open[i].file = f /\ <<"file", i>> \in Held(procs[q])
                THEN clash \cup {f} ELSE clash

redirect_in(p) ==
    /\ At(p, "open_in")
    /\ LET name == Target(p, Simple(p).in)
       IN \/ name = <<>> /\ Connected(p, "in", procs[p].in) /\ UNCHANGED <<shell, open, faults, fate>>
          \/ /\ name # <<>> /\ files[name] # NoFile
             /\ open' = Append(open, Description(name, FALSE))
             /\ Connected(p, "in", <<"file", Len(open) + 1>>) /\ UNCHANGED <<shell, faults, fate>>
          \/ name # <<>> /\ files[name] = NoFile /\ OpenFails(p) /\ UNCHANGED <<open, faults>>
    /\ UNCHANGED <<Input, pipes, files, written, clash>>

redirect_out(p) ==
    /\ At(p, "open_out")
    /\ LET name == Target(p, Simple(p).out)
       IN \/ name = <<>> /\ Connected(p, "out", procs[p].out) /\ UNCHANGED <<shell, open, files, written, clash, faults, fate>>
          \/ /\ name # <<>> /\ Opened(p, name, "IO_OUT_APPEND" \in Simple(p).io_flags)
             /\ Connected(p, "out", <<"file", Len(open) + 1>>) /\ UNCHANGED <<shell, faults, fate>>
          \/ /\ name # <<>> /\ faults < MaxFaults /\ faults' = faults + 1 /\ OpenFails(p)
             /\ UNCHANGED <<open, files, written, clash>>
    /\ UNCHANGED <<Input, pipes>>

(* The same file for both outputs: one description for both.               *)
Shared_never(p) == FALSE
Shared(p) == Target(p, Simple(p).err) = Target(p, Simple(p).out)
redirect_err(p) ==
    /\ At(p, "open_err")
    /\ LET name == Target(p, Simple(p).err)
       IN \/ name = <<>> /\ Connected(p, "err", procs[p].err) /\ UNCHANGED <<shell, open, files, written, clash, faults, fate>>
          \/ /\ name # <<>> /\ Shared(p) /\ Connected(p, "err", procs[p].out)
             /\ UNCHANGED <<shell, open, files, written, clash, faults, fate>>
          \/ /\ name # <<>> /\ ~Shared(p) /\ Opened(p, name, "IO_ERR_APPEND" \in Simple(p).io_flags)
             /\ Connected(p, "err", <<"file", Len(open) + 1>>) /\ UNCHANGED <<shell, faults, fate>>
          \/ /\ name # <<>> /\ ~Shared(p) /\ faults < MaxFaults /\ faults' = faults + 1 /\ OpenFails(p)
             /\ UNCHANGED <<open, files, written, clash>>
    /\ UNCHANGED <<Input, pipes>>

---------------------------------------------------------------------------
(* The programs: echo writes to its output, both to its output and then to *)
(* its error output, cat copies its input to its output, gcc fails, kill   *)
(* is killed by a signal, and other names are not found: execvp fails and  *)
(* the child exits with -1.  What is written names the command and stream. *)

Script(load) == CASE load = <<"echo">> -> <<"out">> [] load = <<"both">> -> <<"out", "err">> [] OTHER -> <<>>
Chunk(id, field) == 2 * id + (IF field = "out" THEN 0 ELSE 1)
Goes_on(p, n) == [Then(p, <<>>) EXCEPT !.todo = <<Frame("program", Do(p).c, n)>>]

(* The next output of p: the stream, the chunk, and the program's place    *)
(* after it.                                                               *)
Output(p) ==
    LET n == Do(p).n
    IN IF Load(p) = <<"cat">>
       THEN IF n > 0 THEN {[field |-> "out", chunk |-> n, next |-> 0]} ELSE {}
       ELSE {[field |-> Script(Load(p))[i], chunk |-> Chunk(Simple(p).id, Script(Load(p))[i]), next |-> n + 1] :
                i \in {n + 1} \cap DOMAIN Script(Load(p))}

PutAt(content, i, chunk) ==
    [j \in 1..(IF i > Len(content) THEN i ELSE Len(content)) |->
        IF j = i THEN chunk ELSE IF j > Len(content) THEN 0 ELSE content[j]]

(* write: to the terminal, to a file at its end or at the description's    *)
(* offset, or to a pipe, where it waits for room and needs a reader.       *)
program_write(p) ==
    /\ At(p, "program")
    /\ \E o \in Output(p) :
          LET d == procs[p][o.field]
          IN /\ \/ d[1] = "tty" /\ UNCHANGED Storage
                \/ /\ d[1] = "file"
                   /\ LET x == open[d[2]]
                          i == (IF x.append THEN Len(files[x.file]) ELSE x.at) + 1
                      IN /\ files' = [files EXCEPT ![x.file] = PutAt(@, i, o.chunk)]
                         /\ open' = [open EXCEPT ![d[2]].at = i]
                         /\ written' = [written EXCEPT ![x.file] = @ \cup {o.chunk}]
                   /\ UNCHANGED <<pipes, clash>>
                \/ /\ d[1] = "w" /\ SomeHold(procs, <<"r", d[2]>>) /\ Len(pipes[d[2]]) < PipeSize
                   /\ pipes' = [pipes EXCEPT ![d[2]] = Append(@, o.chunk)]
                   /\ UNCHANGED <<open, files, written, clash>>
             /\ procs' = [procs EXCEPT ![p] = Goes_on(p, o.next)]
    /\ UNCHANGED <<shell, Input, faults, fate>>

(* Writing to a pipe that nobody reads: SIGPIPE.                           *)
program_sigpipe(p) ==
    /\ At(p, "program")
    /\ \E o \in Output(p) : procs[p][o.field][1] = "w" /\ ~SomeHold(procs, <<"r", procs[p][o.field][2]>>)
    /\ Ends(p, 13) /\ fate' = Fate(p, FALSE)
    /\ UNCHANGED <<Input, Storage, faults>>

(* cat reads: the terminal is at its end, a file from the offset, a pipe   *)
(* when something is in it.                                                *)
FromFile(d) == d[1] = "file" /\ open[d[2]].at < Len(files[open[d[2]].file])
cat_read(p) ==
    /\ At(p, "program") /\ Load(p) = <<"cat">> /\ Do(p).n = 0
    /\ LET d == procs[p].in
       IN \/ /\ FromFile(d)
             /\ LET x == open[d[2]]
                IN /\ procs' = [procs EXCEPT ![p] = Goes_on(p, files[x.file][x.at + 1])]
                   /\ open' = [open EXCEPT ![d[2]].at = @ + 1]
             /\ UNCHANGED pipes
          \/ /\ d[1] = "r" /\ pipes[d[2]] # <<>>
             /\ procs' = [procs EXCEPT ![p] = Goes_on(p, Head(pipes[d[2]]))]
             /\ pipes' = [pipes EXCEPT ![d[2]] = Tail(@)]
             /\ UNCHANGED open
    /\ UNCHANGED <<shell, Input, files, written, clash, faults, fate>>

(* The end of the input: of a pipe when it is empty and nobody can write.  *)
AtEOF(p) ==
    LET d == procs[p].in
    IN IF d[1] = "r" THEN pipes[d[2]] = <<>> /\ ~SomeHold(procs, <<"w", d[2]>>) ELSE ~FromFile(d)

StatusOf(load) ==
    CASE load \in {<<"echo">>, <<"both">>, <<"cat">>} -> ExitStatus(0)
      [] load = <<"gcc">> -> ExitStatus(1)
      [] load = <<"kill">> -> 9
      [] OTHER -> ExitStatus(-1)
program_ends(p) ==
    /\ At(p, "program") /\ Output(p) = {} /\ (Load(p) = <<"cat">> => AtEOF(p))
    /\ Ends(p, StatusOf(Load(p))) /\ fate' = Fate(p, StatusOf(Load(p)) = 0)
    /\ UNCHANGED <<Input, Storage, faults>>

---------------------------------------------------------------------------
Step(p) ==
    \/ first_operand(p) \/ second_operand(p) \/ fork_child(p) \/ fork_parallel(p)
    \/ make_pipe(p) \/ fork_pipe(p) \/ connect_writer(p) \/ connect_reader(p)
    \/ wait_child(p) \/ wait_grandchild(p) \/ exit_result(p)
    \/ internal(p) \/ fork_program(p) \/ wait_program(p)
    \/ redirect_in(p) \/ redirect_out(p) \/ redirect_err(p)
    \/ program_write(p) \/ program_sigpipe(p) \/ cat_read(p) \/ program_ends(p)

ShellNext ==
    \/ read_line \/ leave \/ prompt
    \/ \E p \in Pids : Step(p)

(* Every process that can run does run: each does only finitely many steps *)
(* for one line, so fairness to all of them together is enough.  The user  *)
(* need not type anything.                                                 *)
ShellSpec ==
    /\ ShellInit /\ [][ShellNext]_shellVars
    /\ WF_shellVars(prompt \/ \E p \in Pids : Step(p))

---------------------------------------------------------------------------
(* Properties. *)

ShellTypeOK ==
    /\ shell \in {"prompt", "busy", "exited"} /\ faults \in 0..MaxFaults
    /\ \A p \in Pids : procs[p].st \in {"free", "run", "zombie"}
    /\ \A i \in DOMAIN pipes : Len(pipes[i]) <= PipeSize

(* When the prompt is back nothing of the line still runs, except commands *)
(* whose output was piped into one that has ended; unless a fork failed.   *)
NothingLeftRunning ==
    (shell = "prompt" /\ faults = 0) => \A p \in Pids \ {1} : procs[p].st = "free" \/ procs[p].left

(* What was written to a file is in it, until it is truncated: two streams *)
(* of a command to one file do not overwrite each other, and >> follows    *)
(* what is there.                                                          *)
OutputKept == \A f \in Files \ clash : written[f] = {} \/ written[f] \subseteq ToSet(files[f])

(* A line that was typed comes to its end: readers of pipes see the end of *)
(* the data and nobody waits for ever, whatever fails.                     *)
PromptReturns == shell = "busy" ~> shell # "busy"
=============================================================================
