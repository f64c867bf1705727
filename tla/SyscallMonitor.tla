--------------------------- MODULE SyscallMonitor ---------------------------
(***************************************************************************)
(* SystemCallMonitorLinux/sci.c: a module that intercepts system calls and *)
(* logs those of monitored processes. Its own system call, my_syscall(),   *)
(* changes the flags and the process list of a system call; only the list  *)
(* and the change of the system call table are under a lock. The flags are *)
(* changed by an unlocked load and store.                                  *)
(***************************************************************************)
EXTENDS Integers, FiniteSets

CONSTANTS
  Procs,      \* pids
  Owner,      \* the uid of a process; root has 0
  Syscalls,   \* neither MY_SYSCALL_NO nor exit
  Commands,   \* the commands given: "INTERCEPT", "RELEASE", "START", "STOP", "EXIT"
  Nobody,     \* no process
  Serial,     \* whether commands are given one at a time
  MaxListed   \* bound: times a pid is in a list

ASSUME MonitorAssumption ==
  /\ 0 \notin Procs /\ Nobody \notin Procs
  /\ Syscalls # {} /\ "no" \notin Syscalls
  /\ Owner \in [Procs -> Nat]
  /\ Commands \subseteq {"INTERCEPT", "RELEASE", "START", "STOP", "EXIT"}
  /\ Serial \in BOOLEAN /\ MaxListed \in Nat

VARIABLES
  flags,    \* info[s].cmd: "I" intercepted, "M" monitored
  pids,     \* info[s].pid: how often a pid is in the list
  old,      \* info[s].old_syscall
  table,    \* sys_call_table
  mrLock,   \* mr_lock
  call,     \* per process: the step of my_syscall() and its arguments
  inside,   \* per process: the steps of interceptor()
  alive

vars == <<flags, pids, old, table, mrLock, call, inside, alive>>
tables == <<old, table, mrLock>>

Functions == {"none", "original", "interceptor"}
Targets == Procs \cup {0}

Flags == {"I", "M"}

Calls == [pc : {"user", "list", "lock", "load", "store", "table"},
          cmd : Commands \cup {"EXIT"}, s : Syscalls, pid : Targets,
          reg : SUBSET Flags]

NoCall == [pc |-> "user", cmd |-> "EXIT", s |-> CHOOSE s \in Syscalls : TRUE,
           pid |-> 0, reg |-> {}]

Init ==
  /\ flags = [s \in Syscalls |-> {}]
  /\ pids = [s \in Syscalls |-> [p \in Targets |-> 0]]
  /\ old = [s \in Syscalls |-> "none"]
  /\ table = [s \in Syscalls |-> "original"]
  /\ mrLock = Nobody
  /\ call = [p \in Procs |-> NoCall]
  /\ inside = [p \in Procs |-> "no"]
  /\ alive = Procs
-----------------------------------------------------------------------------
Root == {p \in Procs : Owner[p] = 0}

Free(p) == p \in alive /\ call[p].pc = "user" /\ inside[p] = "no"

(* Pid 0 stands for all processes and is for root; another pid is for root and
   for the user of that process, which must exist.                         *)
Permitted(p, q) == IF q = 0 THEN p \in Root
                   ELSE q \in alive /\ (p \in Root \/ Owner[q] = Owner[p])

Valid_unchecked_intercept(p, cmd, s, q) ==
  \/ cmd = "INTERCEPT" /\ p \in Root
  \/ cmd = "RELEASE" /\ p \in Root /\ "I" \in flags[s]
  \/ cmd = "START" /\ "M" \notin flags[s] /\ "I" \in flags[s] /\ Permitted(p, q)
  \/ cmd = "STOP" /\ Permitted(p, q) /\ "M" \in flags[s]

(* The checks of my_syscall(); a command that fails them returns an error. *)
Valid(p, cmd, s, q) ==
  \/ cmd = "INTERCEPT" /\ p \in Root /\ "I" \notin flags[s]
  \/ cmd = "RELEASE" /\ p \in Root /\ "I" \in flags[s]
  \/ cmd = "START" /\ "M" \notin flags[s] /\ "I" \in flags[s] /\ Permitted(p, q)
  \/ cmd = "STOP" /\ Permitted(p, q) /\ "M" \in flags[s]

FirstStep == [INTERCEPT |-> "load", RELEASE |-> "lock", START |-> "list",
              STOP |-> "list"]

Command(p, cmd, s, q) ==
  /\ Free(p) /\ cmd \in Commands \ {"EXIT"}
  /\ Serial => \A r \in Procs : call[r].pc = "user"
  /\ Valid(p, cmd, s, q)
  /\ call' = [call EXCEPT ![p] = [pc |-> FirstStep[cmd], cmd |-> cmd, s |-> s,
                                  pid |-> q, reg |-> {}]]
  /\ UNCHANGED <<flags, pids, tables, inside, alive>>

Del_unchecked(list, p) == [list EXCEPT ![p] = @ - 1]

Del(list, p) == [list EXCEPT ![p] = IF @ = 0 THEN 0 ELSE @ - 1]

(* my_syscall() for exit_group: anybody may take any pid out of all lists. *)
ExitGroup(p, q) ==
  /\ Free(p) /\ "EXIT" \in Commands
  /\ pids' = [s \in Syscalls |-> Del(pids[s], q)]
  /\ UNCHANGED <<flags, tables, call, inside, alive>>

(* add_pid() and del_pid(), with the pid of the caller; add_pid() may find no
   memory, which is not noticed.                                           *)
ChangeList(p) ==
  LET s == call[p].s
  IN  /\ call[p].pc = "list"
      /\ \/ /\ call[p].cmd = "START" /\ pids[s][p] < MaxListed
            /\ pids' = [pids EXCEPT ![s][p] = @ + 1]
         \/ call[p].cmd = "START" /\ UNCHANGED pids
         \/ call[p].cmd = "STOP" /\ pids' = [pids EXCEPT ![s] = Del(@, p)]
      /\ call' = [call EXCEPT ![p].pc = "load"]
      /\ UNCHANGED <<flags, tables, inside, alive>>

Lock(p) ==
  /\ call[p].pc = "lock" /\ mrLock = Nobody
  /\ mrLock' = p
  /\ call' = [call EXCEPT ![p].pc = "load"]
  /\ UNCHANGED <<flags, pids, old, table, inside, alive>>

Load(p) ==
  /\ call[p].pc = "load"
  /\ call' = [call EXCEPT ![p].reg = flags[call[p].s], ![p].pc = "store"]
  /\ UNCHANGED <<flags, pids, tables, inside, alive>>

NewFlags(c) == CASE c.cmd = "INTERCEPT" -> c.reg \cup {"I"}
                 [] c.cmd = "RELEASE" -> c.reg \ {"I"}
                 [] c.cmd = "START" -> c.reg \cup {"M"}
                 [] OTHER -> c.reg \ {"M"}   \* STOP

Restore_nothing(p) ==
  IF call[p].cmd = "RELEASE"
    THEN /\ mrLock' = Nobody /\ UNCHANGED <<old, table>>
    ELSE UNCHANGED tables

(* RELEASE also restores the table and unlocks it.                         *)
Restore(p) ==
  IF call[p].cmd = "RELEASE"
    THEN /\ table' = [table EXCEPT ![call[p].s] = old[call[p].s]]
         /\ mrLock' = Nobody /\ UNCHANGED old
    ELSE UNCHANGED tables

Store(p) ==
  /\ call[p].pc = "store"
  /\ flags' = [flags EXCEPT ![call[p].s] = NewFlags(call[p])]
  /\ Restore(p)
  /\ call' = [call EXCEPT ![p].pc = IF call[p].cmd = "INTERCEPT" THEN "table"
                                    ELSE "user"]
  /\ UNCHANGED <<pids, inside, alive>>

(* Under mr_lock.                                                          *)
Replace(p) ==
  LET s == call[p].s
  IN  /\ call[p].pc = "table" /\ mrLock = Nobody
      /\ old' = [old EXCEPT ![s] = table[s]]
      /\ table' = [table EXCEPT ![s] = "interceptor"]
      /\ call' = [call EXCEPT ![p].pc = "user"]
      /\ UNCHANGED <<flags, pids, mrLock, inside, alive>>
-----------------------------------------------------------------------------
(* A process makes system call s and finds interceptor() in the table.     *)
Enter(p, s) ==
  /\ Free(p) /\ table[s] = "interceptor"
  /\ inside' = [inside EXCEPT ![p] = s]
  /\ UNCHANGED <<flags, pids, tables, call, alive>>

(* check_pid_log(): whether a call of p is logged.                         *)
Logs(p, s) == "M" \in flags[s] /\ (pids[s][p] > 0 \/ pids[s][0] > 0)

(* The saved function is called, the call is logged and returns. If the saved
   function is the interceptor itself it is called again, for ever.        *)
Original(p) ==
  /\ inside[p] # "no" /\ old[inside[p]] = "original"
  /\ inside' = [inside EXCEPT ![p] = "no"]
  /\ UNCHANGED <<flags, pids, tables, call, alive>>

(* External: a process ends, and its pid goes to a new one.                *)
Die(p) ==
  /\ Free(p) /\ Cardinality(alive) > 1
  /\ alive' = alive \ {p}
  /\ UNCHANGED <<flags, pids, tables, call, inside>>

Fork(p) ==
  /\ p \notin alive
  /\ alive' = alive \cup {p}
  /\ UNCHANGED <<flags, pids, tables, call, inside>>

MySyscall(p) == ChangeList(p) \/ Lock(p) \/ Load(p) \/ Store(p) \/ Replace(p)

Next ==
  \/ \E p \in Procs : MySyscall(p) \/ Original(p) \/ Die(p) \/ Fork(p)
  \/ \E p \in Procs, s \in Syscalls : Enter(p, s)
  \/ \E p \in Procs, cmd \in Commands, s \in Syscalls, q \in Targets :
       Command(p, cmd, s, q)
  \/ \E p \in Procs, q \in Targets : ExitGroup(p, q)

Spec == Init /\ [][Next]_vars
-----------------------------------------------------------------------------
(* Flags, lists and tables are well formed.                                *)
TypeOK ==
  /\ flags \in [Syscalls -> SUBSET Flags]
  /\ pids \in [Syscalls -> [Targets -> 0 .. MaxListed]]
  /\ old \in [Syscalls -> Functions] /\ table \in [Syscalls -> Functions]
  /\ mrLock \in Procs \cup {Nobody}
  /\ call \in [Procs -> Calls]
  /\ inside \in [Procs -> Syscalls \cup {"no"}]
  /\ alive \subseteq Procs

(* A process inside interceptor() always finds the original system call,
   also when the call was released, and perhaps intercepted again, since it
   came in: the saved system call is the old one.                          *)
ReachesOriginal ==
  \A p \in Procs : inside[p] # "no" => old[inside[p]] = "original"

Changing(s) == \E p \in Procs : call[p].pc # "user" /\ call[p].s = s
                                /\ call[p].cmd \in {"INTERCEPT", "RELEASE"}

(* When no command is changing it, a system call goes through interceptor()
   exactly if it is flagged as intercepted, so that RELEASE gives it back.  *)
TableMatchesFlags ==
  \A s \in Syscalls : ~Changing(s) =>
    IF "I" \in flags[s] THEN table[s] = "interceptor" ELSE table[s] = "original"

Starting(p, s) == call[p].pc = "store" /\ call[p].cmd = "START" /\ call[p].s = s
                  /\ pids[s][p] > 0

-----------------------------------------------------------------------------
(* What the documentation of the program promises and the code does not keep:
   none of the following holds.                                            *)

(* START_MONITOR adds the pid it is given to the list: when a command that
   found memory returns, the calls of that process, or of all processes for
   pid 0, are logged.                                                      *)
StartMonitors ==
  [][\A p \in Procs, s \in Syscalls :
       Starting(p, s) /\ call'[p].pc = "user"
         => \A q \in alive : call[p].pid \in {q, 0} => Logs(q, s)']_vars

(* A process that ends is deleted from all lists of pids.                  *)
ExitForgets == \A p \in Procs \ alive, s \in Syscalls : pids[s][p] = 0
=============================================================================
