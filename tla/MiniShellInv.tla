---------------------------- MODULE MiniShellInv ----------------------------
(***************************************************************************)
(* The inductive invariants of MiniShell.                                  *)
(*                                                                         *)
(* NothingLeftRunning follows from who waits for whom (ProcInv), in        *)
(* whatever processes the tree of a line is run; OutputKept from which     *)
(* process has which description of a file, and where it stands (FileInv). *)
(***************************************************************************)
EXTENDS MiniShell

(* Frames of waitpid; the steps of a child that is to run a program; and   *)
(* frames after which a process waits for nobody any more.                 *)
WaitFrames == {"wait", "wait2", "wait3"}
Preparing == {"open_in", "open_out", "open_err", "program"}
Closing == Preparing \cup {"exit", "wait2", "fork2", "pipe", "fork3"}

(* Frames after which a process waits for nobody are below no frame that   *)
(* waits: exit() and execvp() do not return, and wait2 is followed by      *)
(* exit().                                                                 *)
IsSeq(s) == s \in Seq({s[i] : i \in DOMAIN s})
Lacks(s, K) == \A i \in 1 .. Len(s) : s[i].k \notin K
Awaits(s, q) == \E i \in 1 .. Len(s) : s[i].k \in WaitFrames /\ s[i].n = q
Tidy(s) ==
  /\ IsSeq(s)
  /\ \A i, j \in 1 .. Len(s) : i < j /\ s[i].k \in Closing => s[j].k \notin WaitFrames

-----------------------------------------------------------------------------
(* Processes.  A process that is not left to itself is awaited by its      *)
(* parent, which is not left to itself either; and parents are nearer to   *)
(* the shell than their children.                                          *)
RunFields == {"st", "todo", "res", "parent", "cwd", "env", "in", "out", "err", "hold", "left"}

Running(r) == r.st = "run" /\ DOMAIN r = RunFields /\ Tidy(r.todo)
Proper(r) ==
  /\ r.st \in {"free", "run", "zombie"}
  /\ r.st # "free" => r.left \in BOOLEAN
  /\ r.st = "run" => Running(r)

Shape == faults \in Nat /\ DOMAIN procs = Pids /\ \A p \in Pids : Proper(procs[p])

ShellThere ==
  /\ shell # "exited" => Live(1) /\ procs[1].parent = 0
  /\ shell = "prompt" => procs[1].todo = <<>>

Counted(q) == procs[q].st # "free" /\ procs[q].left = FALSE
Awaiting(r, q) == r \in Pids /\ Live(r) /\ procs[r].left = FALSE /\ Awaits(procs[r].todo, q)
Deeper(d) == \A q \in Pids \ {1} : Counted(q) => d[procs[q].parent] < d[q]
Awaited ==
  faults = 0 => /\ \A q \in Pids \ {1} : Counted(q) => Awaiting(procs[q].parent, q)
                /\ \E d \in [Pids -> Nat] : Deeper(d)

(* What NothingLeftRunning rests on.                                       *)
ProcInv == Shape /\ ShellThere /\ Awaited

-----------------------------------------------------------------------------
(* Files.  Only a child that is about to become a program, or has become   *)
(* one, has files for its streams: it opens them in the order input,       *)
(* output, error output.  A description that is written to is never read;  *)
(* as long as no file is opened by two at once each file has at most one,  *)
(* and that one stands at the end of the file.                             *)
NotFile(d) == d[1] # "file"
FileOf(d, o) == NotFile(d) \/ \E i \in 1 .. Len(o) : d = <<"file", i>>

(* A process without files, and the places of a child on its way to the    *)
(* program: at each the streams that are still to be opened are not files, *)
(* and the output, if it is a file, is the one that the command names.     *)
Clear(r) == Lacks(r.todo, Preparing) /\ NotFile(r.in) /\ NotFile(r.out) /\ NotFile(r.err)
OpensAll(c) == <<Frame("open_in", c, 0), Frame("open_out", c, 0), Frame("open_err", c, 0), Frame("program", c, 0)>>
OpensOutputs(c) == <<Frame("open_out", c, 0), Frame("open_err", c, 0), Frame("program", c, 0)>>
OpensError(c) == <<Frame("open_err", c, 0), Frame("program", c, 0)>>
Stage(r, o) ==
  \/ Clear(r)
  \/ /\ r.todo # <<>>
     /\ LET c == Head(r.todo).c
        IN  \/ r.todo = OpensAll(c) /\ NotFile(r.in) /\ NotFile(r.out) /\ NotFile(r.err)
            \/ r.todo = OpensOutputs(c) /\ NotFile(r.out) /\ NotFile(r.err)
            \/ /\ r.todo = OpensError(c) /\ NotFile(r.err)
               /\ NotFile(r.out) \/ o[r.out[2]].file = flatten(r.env, c.scmd.out)
            \/ r.todo = <<Frame("program", c, Head(r.todo).n)>>

Stages ==
  \A p \in Pids : Live(p) =>
    /\ Stage(procs[p], open)
    /\ FileOf(procs[p].in, open) /\ FileOf(procs[p].out, open) /\ FileOf(procs[p].err, open)

OpenShape ==
  /\ IsSeq(open) /\ \A i \in 1 .. Len(open) : DOMAIN open[i] = {"file", "append", "at"}
  /\ DOMAIN files = Files /\ DOMAIN written = Files

(* Descriptions that some process reads or writes, and those of files that *)
(* were not opened by two at once.                                         *)
Reading(i) == \E p \in Pids : Live(p) /\ procs[p].in = <<"file", i>>
Writing(i) == \E p \in Pids : Live(p) /\ <<"file", i>> \in {procs[p].out, procs[p].err}
Sole(i) == open[i].file \in Files \ clash

Alone ==
  /\ \A i \in 1 .. Len(open) : ~(Reading(i) /\ Writing(i))
  /\ \A i, j \in 1 .. Len(open) :
       Writing(i) /\ Writing(j) /\ open[i].file = open[j].file /\ Sole(i) => i = j
AtEnd ==
  \A i \in 1 .. Len(open) : Writing(i) /\ Sole(i) =>
    /\ IsSeq(files[open[i].file])
    /\ open[i].append \/ open[i].at = Len(files[open[i].file])
InFile ==
  \A f \in Files \ clash :
    \/ files[f] = NoFile /\ written[f] = {}
    \/ IsSeq(files[f]) /\ written[f] \subseteq {files[f][i] : i \in 1 .. Len(files[f])}

(* What OutputKept rests on.                                               *)
FileInv == Stages /\ OpenShape /\ Alone /\ AtEnd /\ InFile
=============================================================================
