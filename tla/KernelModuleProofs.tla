------------------------- MODULE KernelModuleProofs -------------------------
(***************************************************************************)
(* The two kernel modules for Linux.                                       *)
(*                                                                         *)
(* SystemCallMonitorLinux: when commands are given one at a time, the      *)
(* table of system calls and the flags agree and interceptor() always      *)
(* finds the original call, for any processes and system calls.            *)
(*                                                                         *)
(* NetworkFirewallLinux: on any number of CPUs, until a rule is freed that *)
(* is still being used, no open flow loses its rule, for any keys and any  *)
(* number of packets.                                                      *)
(***************************************************************************)
EXTENDS SyscallMonitor, Firewall, SequenceTheorems, WellFoundedInduction, TLAPS

Busy(p, s) == call[p].pc # "user" /\ call[p].s = s

(* Only one process is inside my_syscall(), at a step of its command.      *)
OneCommand ==
  /\ \A p, q \in Procs : call[p].pc # "user" /\ call[q].pc # "user" => p = q
  /\ \A p \in Procs :
       /\ call[p].pc = "table" => call[p].cmd = "INTERCEPT"
       /\ call[p].pc = "list" => call[p].cmd \in {"START", "STOP"}
       /\ call[p].pc = "lock" => call[p].cmd = "RELEASE"
       /\ call[p].pc # "user" => call[p].cmd # "EXIT"

(* The flags a command has loaded are those it will replace, and they are as
   its first check found them until then.                                  *)
FlagsLoaded ==
  \A p \in Procs, s \in Syscalls :
    /\ Busy(p, s) /\ call[p].pc = "store" => call[p].reg = flags[s]
    /\ Busy(p, s) /\ call[p].pc \in {"load", "store"} /\ call[p].cmd = "INTERCEPT"
         => "I" \notin flags[s]
    /\ Busy(p, s) /\ call[p].cmd = "RELEASE" => "I" \in flags[s]
    /\ Busy(p, s) /\ call[p].pc = "table"
         => "I" \in flags[s] /\ table[s] = "original"

(* Apart from an INTERCEPT between flag and table, the two agree.          *)
FlagsTable ==
  \A s \in Syscalls :
    /\ table[s] \in {"original", "interceptor"}
    /\ table[s] = "interceptor" => old[s] = "original"
    /\ (\A p \in Procs : ~(Busy(p, s) /\ call[p].pc = "table"))
         => ("I" \in flags[s] <=> table[s] = "interceptor")

Serialised == OneCommand /\ FlagsLoaded /\ FlagsTable /\ ReachesOriginal
-----------------------------------------------------------------------------
(* The initial state: NoCall is a call record.                             *)
LEMMA InitType == Init => TypeOK
<1> HAVE Init
<1>1. NoCall.s \in Syscalls
  BY MonitorAssumption DEF NoCall
<1>2. NoCall \in Calls
  BY <1>1 DEF NoCall, Calls, Targets
<1>3. QED
  BY <1>2, MonitorAssumption DEF Init, TypeOK, Functions, Targets

(* A call that goes on to another step is still a call.                    *)
LEMMA GoesOn ==
  ASSUME TypeOK, NEW p \in Procs,
         NEW pc \in {"user", "list", "lock", "load", "store", "table"},
         call' = [call EXCEPT ![p].pc = pc]
  PROVE  call' \in [Procs -> Calls]
<1>1. call[p] \in Calls /\ call \in [Procs -> Calls]
  BY DEF TypeOK
<1>2. [call[p] EXCEPT !.pc = pc] \in Calls
  BY <1>1 DEF Calls
<1>3. QED
  BY <1>1, <1>2

(* What a command stores is a set of flags.                                *)
LEMMA StoredFlags ==
  ASSUME TypeOK, NEW p \in Procs
  PROVE  NewFlags(call[p]) \in SUBSET Flags
<1>1. call[p].reg \in SUBSET Flags
  BY DEF TypeOK, Calls
<1>2. QED
  BY <1>1 DEF NewFlags, Flags

(* del_pid() leaves a list.                                                *)
LEMMA DelType ==
  ASSUME NEW listed \in [Targets -> 0 .. MaxListed], NEW p \in Targets
  PROVE  Del(listed, p) \in [Targets -> 0 .. MaxListed]
BY MonitorAssumption DEF Del

(* Every step keeps flags, lists, tables and calls well formed.            *)
LEMMA NextType == TypeOK /\ [Next]_vars => TypeOK'
<1> SUFFICES ASSUME TypeOK, [Next]_vars PROVE TypeOK'
  OBVIOUS
<1> USE MonitorAssumption
<1>1. ASSUME NEW p \in Procs, ChangeList(p) PROVE TypeOK'
  <2>1. call' \in [Procs -> Calls]
    BY <1>1, GoesOn DEF ChangeList
  <2>2. call[p].s \in Syscalls
    BY DEF TypeOK, Calls
  <2>3. p \in Targets /\ pids[call[p].s] \in [Targets -> 0 .. MaxListed]
    BY <2>2 DEF TypeOK, Targets
  <2>4. Del(pids[call[p].s], p) \in [Targets -> 0 .. MaxListed]
    BY <2>3, DelType
  <2>5. pids[call[p].s][p] < MaxListed
          => [pids[call[p].s] EXCEPT ![p] = @ + 1] \in [Targets -> 0 .. MaxListed]
    BY <2>3
  <2>6. pids' \in [Syscalls -> [Targets -> 0 .. MaxListed]]
    BY <1>1, <2>2, <2>4, <2>5 DEF TypeOK, ChangeList
  <2>7. QED
    BY <1>1, <2>1, <2>6 DEF TypeOK, ChangeList, tables
<1>2. ASSUME NEW p \in Procs, Lock(p) PROVE TypeOK'
  <2>1. call' \in [Procs -> Calls]
    BY <1>2, GoesOn DEF Lock
  <2>2. QED
    BY <1>2, <2>1 DEF TypeOK, Lock
<1>3. ASSUME NEW p \in Procs, Load(p) PROVE TypeOK'
  <2>1. call[p] \in Calls /\ flags[call[p].s] \in SUBSET Flags
    BY DEF TypeOK, Calls
  <2>2. [call[p] EXCEPT !.reg = flags[call[p].s], !.pc = "store"] \in Calls
    BY <2>1 DEF Calls
  <2>3. call' = [call EXCEPT ![p] =
                   [call[p] EXCEPT !.reg = flags[call[p].s], !.pc = "store"]]
    BY <1>3 DEF Load
  <2>4. call' \in [Procs -> Calls]
    BY <2>2, <2>3 DEF TypeOK
  <2>5. QED
    BY <1>3, <2>4 DEF TypeOK, Load, tables
<1>4. ASSUME NEW p \in Procs, Store(p) PROVE TypeOK'
  <2>1. call[p].s \in Syscalls /\ call[p].reg \in SUBSET Flags
    BY DEF TypeOK, Calls
  <2>2. call' \in [Procs -> Calls]
    BY <1>4, GoesOn DEF Store
  <2>3. \E f \in SUBSET Flags : flags' = [flags EXCEPT ![call[p].s] = f]
    BY <1>4, <2>1, StoredFlags DEF Store
  <2>4. flags' \in [Syscalls -> SUBSET Flags]
    BY <2>1, <2>3 DEF TypeOK
  <2>5. table' \in [Syscalls -> Functions] /\ old' = old
    BY <1>4, <2>1 DEF TypeOK, Store, Restore, tables
  <2>6. mrLock' \in Procs \cup {Nobody}
    BY <1>4 DEF TypeOK, Store, Restore, tables
  <2>7. QED
    BY <1>4, <2>2, <2>4, <2>5, <2>6 DEF TypeOK, Store
<1>5. ASSUME NEW p \in Procs, Replace(p) PROVE TypeOK'
  <2>1. call' \in [Procs -> Calls]
    BY <1>5, GoesOn DEF Replace
  <2>2. QED
    BY <1>5, <2>1 DEF TypeOK, Replace, Functions
<1>6. ASSUME NEW p \in Procs, Original(p) \/ Die(p) \/ Fork(p) PROVE TypeOK'
  BY <1>6 DEF TypeOK, Original, Die, Fork, tables
<1>7. ASSUME NEW p \in Procs, NEW s \in Syscalls, Enter(p, s) PROVE TypeOK'
  BY <1>7 DEF TypeOK, Enter, tables
<1>8. ASSUME NEW p \in Procs, NEW cmd \in Commands, NEW s \in Syscalls,
             NEW q \in Targets, Command(p, cmd, s, q)
      PROVE  TypeOK'
  <2>1. FirstStep[cmd] \in {"load", "lock", "list"}
    <3>1. cmd \in {"INTERCEPT", "RELEASE", "START", "STOP"}
      BY <1>8 DEF Command
    <3> QED  BY <3>1 DEF FirstStep
  <2>2. [pc |-> FirstStep[cmd], cmd |-> cmd, s |-> s, pid |-> q, reg |-> {}] \in Calls
    BY <2>1 DEF Calls
  <2>3. call' \in [Procs -> Calls]
    BY <1>8, <2>2 DEF TypeOK, Command
  <2>4. QED
    BY <1>8, <2>3 DEF TypeOK, Command, tables
<1>9. ASSUME NEW p \in Procs, NEW q \in Targets, ExitGroup(p, q) PROVE TypeOK'
  BY <1>9 DEF TypeOK, ExitGroup, Del, tables, Targets
<1>10. CASE UNCHANGED vars
  BY <1>10 DEF TypeOK, vars
<1>11. QED
  BY <1>1, <1>2, <1>3, <1>4, <1>5, <1>6, <1>7, <1>8, <1>9, <1>10
  DEF Next, MySyscall
-----------------------------------------------------------------------------
(* Commands given one at a time keep the table and the flags in step.      *)
LEMMA NextSerialised ==
  ASSUME Serial, TypeOK, Serialised, [Next]_vars PROVE Serialised'
<1> USE DEF Serialised
<1>1. ASSUME NEW p \in Procs, ChangeList(p) PROVE Serialised'
  <2>1. /\ flags' = flags /\ old' = old /\ table' = table /\ inside' = inside
        /\ call' = [call EXCEPT ![p].pc = "load"] /\ call[p].pc = "list"
    BY <1>1 DEF ChangeList, tables
  <2>2. QED
    BY <2>1, SMTT(30) DEF TypeOK, Calls, OneCommand, FlagsLoaded, FlagsTable, Busy, ReachesOriginal
<1>2. ASSUME NEW p \in Procs, Lock(p) PROVE Serialised'
  BY <1>2 DEF Lock, TypeOK, Calls, OneCommand, FlagsLoaded, FlagsTable, Busy, ReachesOriginal
<1>3. ASSUME NEW p \in Procs, Load(p) PROVE Serialised'
  BY <1>3, SMTT(30) DEF Load, tables, TypeOK, Calls, OneCommand, FlagsLoaded, FlagsTable, Busy, ReachesOriginal
<1>4. ASSUME NEW p \in Procs, Store(p) PROVE Serialised'
  BY <1>4 DEF Store, Restore, NewFlags, tables, TypeOK, Calls, OneCommand, FlagsLoaded, FlagsTable, Busy, ReachesOriginal
<1>5. ASSUME NEW p \in Procs, Replace(p) PROVE Serialised'
  BY <1>5, SMTT(30) DEF Replace, TypeOK, Calls, OneCommand, FlagsLoaded, FlagsTable, Busy, ReachesOriginal
<1>6. ASSUME NEW p \in Procs, Original(p) \/ Die(p) \/ Fork(p) PROVE Serialised'
  BY <1>6 DEF Original, Die, Fork, tables, TypeOK, OneCommand, FlagsLoaded, FlagsTable, Busy, ReachesOriginal
<1>7. ASSUME NEW p \in Procs, NEW s \in Syscalls, Enter(p, s) PROVE Serialised'
  BY <1>7 DEF Enter, tables, TypeOK, OneCommand, FlagsLoaded, FlagsTable, Busy, ReachesOriginal
<1>8. ASSUME NEW p \in Procs, NEW cmd \in Commands, NEW s \in Syscalls,
             NEW q \in Targets, Command(p, cmd, s, q)
      PROVE  Serialised'
  BY <1>8, MonitorAssumption DEF Command, Valid, FirstStep, tables, TypeOK, Calls, OneCommand, FlagsLoaded, FlagsTable, Busy, ReachesOriginal
<1>9. ASSUME NEW p \in Procs, NEW q \in Targets, ExitGroup(p, q) PROVE Serialised'
  BY <1>9 DEF ExitGroup, tables, TypeOK, OneCommand, FlagsLoaded, FlagsTable, Busy, ReachesOriginal
<1>10. CASE UNCHANGED vars
  BY <1>10 DEF vars, OneCommand, FlagsLoaded, FlagsTable, Busy, ReachesOriginal
<1>11. QED
  BY <1>1, <1>2, <1>3, <1>4, <1>5, <1>6, <1>7, <1>8, <1>9, <1>10
  DEF Next, MySyscall

(* Flags, lists and tables stay well formed for any processes and system
   calls, also when commands interleave.                                   *)
THEOREM TypeInvariance == Spec => []TypeOK
BY InitType, NextType, PTL DEF Spec

(* What the two theorems below rest on: while commands are given one at a
   time, every state of the module is as Serialised says.                  *)
SerialInv == TypeOK /\ (Serial => Serialised)

LEMMA SerialInvariance == Spec => []SerialInv
<1>1. Init => SerialInv
  BY InitType, MonitorAssumption DEF Init, SerialInv, NoCall, Serialised,
     OneCommand, FlagsLoaded, FlagsTable, Busy, ReachesOriginal
<1>2. SerialInv /\ [Next]_vars => SerialInv'
  BY NextType, NextSerialised DEF SerialInv
<1>3. QED
  BY <1>1, <1>2, PTL DEF Spec

(* When commands are given one at a time, a process inside interceptor() always
   finds the original system call, for every number of processes, of system
   calls and of commands.                                                  *)
THEOREM SerialIsSafe == Spec => [](Serial => ReachesOriginal)
<1>1. SerialInv => (Serial => ReachesOriginal)
  BY DEF SerialInv, Serialised
<1>2. QED
  BY <1>1, SerialInvariance, PTL

(* When commands are given one at a time, a system call that no INTERCEPT or
   RELEASE is changing goes through interceptor() exactly if it is flagged so:
   RELEASE gives every system call back.                                   *)
THEOREM FlagsGovernTable == Spec => [](Serial => TableMatchesFlags)
<1>1. SerialInv => (Serial => TableMatchesFlags)
  BY DEF SerialInv, Serialised, OneCommand, FlagsTable, Busy, TableMatchesFlags,
     Changing, TypeOK, Calls
<1>2. QED
  BY <1>1, SerialInvariance, PTL

-----------------------------------------------------------------------------
(* NetworkFirewallLinux.                                                   *)
Handling == {"idle", "search", "locked", "found", "add", "del"}
AnyKey == Keys \cup {CHOOSE k \in Keys : TRUE}
Work == [pc : Handling, pkt : {"syn", "fin", "udp", "in"} \cup Packets, key : AnyKey,
         ple : Entries \cup {NoEntry}]

(* Rules, lists, contexts and the history are well formed, and a list holds
   an entry once.                                                          *)
RuleTypes ==
  /\ rule \in [Entries -> [key : AnyKey, timer : {"off", "armed"}]]
  /\ list \in [Protos -> Seq(Entries)]
  /\ ctx \in [Contexts -> Work]
  /\ last \in [Protos -> [Keys -> {"none", "open", "fin", "closed"}]]

Once(s) == \A i, j \in 1 .. Len(s) : s[i] = s[j] => i = j
In(p) == ToSet(list[p])

ListsOnce ==
  /\ \A p \in Protos : Once(list[p])
  /\ In("tcp") \cap In("udp") = {}
  /\ \A e \in Listed : rule[e].key \in Keys

(* What a context has found or is about to delete is still in the lists.   *)
InHand(x) ==
  LET w == ctx[x]
  IN  /\ w.key \in Keys
      /\ w.pc \in {"search", "locked", "found"} => w.pkt # "syn"
      /\ w.pc = "add" => w.pkt \in {"syn", "udp"}
      /\ w.pc = "found" => w.ple \in RulesFor(ListOf(w.pkt), w.key)
      /\ w.pc = "del" => \E p \in Protos : w.ple \in RulesFor(p, w.key)

InHands == \A x \in Contexts : ctx[x].pc # "idle" => InHand(x)

(* What is open has a rule, so that no static rule is needed for it: that of a
   TCP connection has no timer running and none that is about to delete it. *)
TcpRules ==
  \A k \in Keys : last["tcp"][k] = "open" =>
    \E e \in RulesFor("tcp", k) :
      rule[e].timer = "off" /\ \A x \in Contexts : ctx[x].pc = "del" => ctx[x].ple # e

UdpRules ==
  \A k \in Keys : last["udp"][k] = "open" => RulesFor("udp", k) # {}

FwInv == RuleTypes /\ ListsOnce /\ InHands /\ TimersOnListed /\ TcpRules /\ UdpRules

(* All of it holds until a rule is freed that another context is using.    *)
UntilStale == ~stale => FwInv
-----------------------------------------------------------------------------
(* Every set of natural numbers that is not empty has a least element.     *)
LEMMA LeastNumber ==
  ASSUME NEW T \in SUBSET Nat, T # {} PROVE Min(T) \in T /\ \A y \in T : Min(T) <= y
<1> DEFINE R == {z \in Nat \X Nat : z[1] < z[2]}
<1>1. IsWellFoundedOn(R, Nat)
  BY NatLessThanWellFounded DEF OpToRel
<1>2. \A x, y \in Nat : <<x, y>> \in R <=> x < y
  OBVIOUS
<1> HIDE DEF R
<1>3. PICK x \in T : \A y \in T : ~(<<y, x>> \in R)
  BY <1>1, WFMin
<1>4. \E z \in T : \A y \in T : z <= y
  <2>1. \A y \in T : ~(y < x)
    BY <1>2, <1>3
  <2> QED  BY <2>1
<1> QED  BY <1>4 DEF Min

(* The entry that a search through a list returns.                         *)
LEMMA Search ==
  ASSUME NEW p \in Protos, NEW k, list[p] \in Seq(Entries), FirstFor(p, k) # NoEntry
  PROVE  FirstFor(p, k) \in RulesFor(p, k)
<1> DEFINE I == {i \in 1 .. Len(list[p]) : rule[list[p][i]].key = k}
           n == SelectInSeq(list[p], LAMBDA e : rule[e].key = k)
<1>1. n = IF I # {} THEN Min(I) ELSE 0
  BY DEF SelectInSeq
<1>2. I \in SUBSET Nat
  OBVIOUS
<1>3. n # 0 => n \in I
  BY <1>1, <1>2, LeastNumber
<1>4. FirstFor(p, k) = IF n = 0 THEN NoEntry ELSE list[p][n]
  BY DEF FirstFor
<1> HIDE DEF n
<1>5. n \in 1 .. Len(list[p]) /\ rule[list[p][n]].key = k /\ FirstFor(p, k) = list[p][n]
  BY <1>3, <1>4
<1> QED  BY <1>5 DEF RulesFor, ToSet

(* Removing an entry from a list that holds it once leaves the others.     *)
LEMMA Removal ==
  ASSUME NEW s \in Seq(Entries), Once(s), NEW e
  PROVE  /\ RemoveFirst(s, e) \in Seq(Entries) /\ Once(RemoveFirst(s, e))
         /\ ToSet(RemoveFirst(s, e)) = ToSet(s) \ {e}
<1> DEFINE I == {i \in 1 .. Len(s) : s[i] = e}
           n == SelectInSeq(s, LAMBDA v : v = e)
           a == SubSeq(s, 1, n - 1)
           b == SubSeq(s, n + 1, Len(s))
<1>1. CASE I = {}
  <2>1. RemoveFirst(s, e) = s
    BY <1>1 DEF RemoveFirst
  <2>2. e \notin ToSet(s)
    BY <1>1 DEF ToSet
  <2> QED  BY <2>1, <2>2
<1>2. CASE I # {}
  <2>1. n = Min(I) /\ I \in SUBSET Nat
    BY <1>2 DEF SelectInSeq
  <2>2. n \in 1 .. Len(s) /\ s[n] = e
    BY <1>2, <2>1, LeastNumber
  <2>3. RemoveFirst(s, e) = a \o b
    BY <1>2 DEF RemoveFirst, RemoveAt
  <2> HIDE DEF n
  <2>4. /\ a \in Seq(Entries) /\ Len(a) = n - 1 /\ \A i \in 1 .. n - 1 : a[i] = s[i]
    BY <2>2, SubSeqProperties
  <2>5. /\ b \in Seq(Entries) /\ Len(b) = Len(s) - n
        /\ \A i \in 1 .. Len(s) - n : b[i] = s[n + i]
    <3>1. n + 1 \in 1 .. Len(s) + 1 /\ Len(s) \in n .. Len(s)
      BY <2>2
    <3> QED  BY <2>2, <3>1, SubSeqProperties
  <2> HIDE DEF a, b
  <2> DEFINE r == a \o b
  <2>6. /\ r \in Seq(Entries) /\ Len(r) = Len(s) - 1
        /\ \A i \in 1 .. Len(s) - 1 : r[i] = IF i < n THEN s[i] ELSE s[i + 1]
    <3>0. /\ r \in Seq(Entries) /\ Len(r) = Len(a) + Len(b)
          /\ \A i \in 1 .. Len(a) + Len(b) : r[i] = IF i <= Len(a) THEN a[i] ELSE b[i - Len(a)]
      BY <2>4, <2>5, ConcatProperties
    <3> HIDE DEF r
    <3>1. /\ Len(r) = Len(s) - 1
          /\ \A i \in 1 .. Len(s) - 1 : r[i] = IF i <= n - 1 THEN a[i] ELSE b[i - (n - 1)]
      <4>1. Len(a) + Len(b) = Len(s) - 1
        BY <2>2, <2>4, <2>5
      <4> QED  BY <2>4, <3>0, <4>1
    <3>2. ASSUME NEW i \in 1 .. Len(s) - 1 PROVE r[i] = IF i < n THEN s[i] ELSE s[i + 1]
      <4>1. CASE i < n
        BY <2>2, <2>4, <3>1, <4>1
      <4>2. CASE ~(i < n)
        <5>1. i - (n - 1) \in 1 .. Len(s) - n /\ n + (i - (n - 1)) = i + 1 /\ ~(i <= n - 1)
          BY <2>2, <4>2
        <5> QED  BY <2>5, <3>1, <4>2, <5>1
      <4> QED  BY <4>1, <4>2
    <3> QED  BY <3>0, <3>1, <3>2
  <2> HIDE DEF r
  <2>7. Once(r)
    BY <2>2, <2>6 DEF Once
  <2>8. ToSet(r) = ToSet(s) \ {e}
    <3>1. ASSUME NEW f \in ToSet(r) PROVE f \in ToSet(s) \ {e}
      <4>1. PICK i \in 1 .. Len(s) - 1 : f = r[i]
        BY <2>6, <3>1 DEF ToSet
      <4>2. PICK j \in 1 .. Len(s) : f = s[j] /\ j # n
        BY <2>2, <2>6, <4>1
      <4>3. f # e
        BY <2>2, <4>2 DEF Once
      <4> QED  BY <4>2, <4>3 DEF ToSet
    <3>2. ASSUME NEW f \in ToSet(s) \ {e} PROVE f \in ToSet(r)
      <4>1. PICK j \in 1 .. Len(s) : f = s[j] /\ j # n
        BY <2>2, <3>2 DEF ToSet
      <4>2. PICK i \in 1 .. Len(s) - 1 : f = r[i]
        <5>1. CASE j < n
          <6>1. j \in 1 .. Len(s) - 1 /\ r[j] = s[j]
            BY <2>2, <2>6, <5>1
          <6> QED  BY <4>1, <6>1
        <5>2. CASE ~(j < n)
          <6>1. j - 1 \in 1 .. Len(s) - 1 /\ ~(j - 1 < n) /\ (j - 1) + 1 = j
            BY <2>2, <4>1, <5>2
          <6>2. r[j - 1] = s[j]
            BY <2>6, <6>1
          <6> QED  BY <4>1, <6>1, <6>2
        <5> QED  BY <5>1, <5>2
      <4> QED  BY <2>6, <4>2 DEF ToSet
    <3> QED  BY <3>1, <3>2
  <2> QED  BY <2>3, <2>6, <2>7, <2>8 DEF r
<1> QED  BY <1>1, <1>2

(* A step that changes neither a rule nor a list, and starts no deletion.  *)
LEMMA SameRules ==
  ASSUME FwInv, rule' = rule, list' = list, last' = last, ctx' \in [Contexts -> Work],
         \A y \in Contexts : ctx'[y].pc = "del" => ctx'[y] = ctx[y]
  PROVE  RuleTypes' /\ ListsOnce' /\ TimersOnListed' /\ TcpRules' /\ UdpRules'
<1>1. RuleTypes'
  BY DEF FwInv, RuleTypes
<1>2. Listed' = Listed /\ (\A p : In(p)' = In(p)) /\ (\A p, k : RulesFor(p, k)' = RulesFor(p, k))
  BY DEF Listed, In, RulesFor
<1>3. ListsOnce'
  BY <1>2 DEF FwInv, ListsOnce
<1>4. TimersOnListed'
  BY <1>2 DEF FwInv, TimersOnListed
<1>5. UdpRules'
  BY <1>2 DEF FwInv, UdpRules
<1>6. TcpRules'
  BY <1>2 DEF FwInv, TcpRules
<1> QED  BY <1>1, <1>3, <1>4, <1>5, <1>6

(* The context that takes the step has something in hand after it, and the
   others still have what they had, if no rule they use was freed.         *)
LEMMA StillInHand ==
  ASSUME FwInv, NEW x \in Contexts, NEW w \in Work, ctx' = [ctx EXCEPT ![x] = w],
         \A y \in Contexts \ {x}, p \in Protos : \A k :
           \A f \in RulesFor(p, k) : Uses(y, f) => f \in RulesFor(p, k)',
         w.pc # "idle" => InHand(x)'
  PROVE  /\ ctx' \in [Contexts -> Work] /\ ctx'[x] = w /\ InHands'
         /\ \A y \in Contexts \ {x} : ctx'[y] = ctx[y]
<1>1. /\ ctx' \in [Contexts -> Work] /\ ctx'[x] = w
      /\ \A y \in Contexts \ {x} : ctx'[y] = ctx[y]
  BY DEF FwInv, RuleTypes
<1>2. ASSUME NEW y \in Contexts \ {x}, ctx'[y].pc # "idle" PROVE InHand(y)'
  <2>1. ctx'[y] = ctx[y] /\ InHand(y) /\ ListOf(ctx[y].pkt) \in Protos
    BY <1>1, <1>2 DEF FwInv, InHands, ListOf, Protos
  <2>2. ctx[y].pc = "found" => ctx[y].ple \in RulesFor(ListOf(ctx[y].pkt), ctx[y].key)'
    BY <2>1 DEF InHand, Uses
  <2>3. ctx[y].pc = "del" => \E p \in Protos : ctx[y].ple \in RulesFor(p, ctx[y].key)'
    BY <2>1 DEF InHand, Uses
  <2> QED  BY <2>1, <2>2, <2>3 DEF InHand, RulesFor
<1> QED  BY <1>1, <1>2 DEF InHands

(* A packet comes.                                                         *)
LEMMA FwArrives ==
  ASSUME FwInv, NEW x \in Contexts, NEW k \in Keys, NEW pkt \in Packets,
         HookOut(x, pkt, k) \/ HookIn(x, k)
  PROVE  FwInv'
<1> DEFINE pc == IF pkt = "syn" /\ HookOut(x, pkt, k) THEN "add" ELSE "search"
           new == IF HookOut(x, pkt, k) THEN pkt ELSE "in"
           w == [pc |-> pc, pkt |-> new, key |-> k, ple |-> NoEntry]
<1>1. /\ ctx' = [ctx EXCEPT ![x] = w]
      /\ rule' = rule /\ list' = list /\ last' = last
      /\ (pc = "add" => new = "syn") /\ (pc = "search" => new # "syn")
  BY DEF HookOut, HookIn
<1>2. pc \in {"add", "search"} /\ new \in Packets \cup {"in"}
  OBVIOUS
<1> HIDE DEF pc, new
<1>3. w \in Work /\ w.pc = pc /\ w.pkt = new /\ w.key = k
  BY <1>2 DEF Work, Handling, AnyKey
<1>4. \A p, q : RulesFor(p, q)' = RulesFor(p, q)
  BY <1>1 DEF RulesFor
<1> HIDE DEF w
<1>5. InHand(x)'
  <2>1. ctx'[x] = w
    BY <1>1 DEF FwInv, RuleTypes
  <2> QED  BY <1>1, <1>2, <1>3, <2>1 DEF InHand
<1>6. /\ ctx' \in [Contexts -> Work] /\ ctx'[x] = w /\ InHands'
      /\ \A y \in Contexts \ {x} : ctx'[y] = ctx[y]
  BY <1>1, <1>3, <1>4, <1>5, StillInHand
<1>7. \A y \in Contexts : ctx'[y].pc = "del" => ctx'[y] = ctx[y]
  BY <1>2, <1>3, <1>6
<1> QED  BY <1>1, <1>6, <1>7, SameRules DEF FwInv

(* A step in which the context at work goes on.                            *)
LEMMA AtWork ==
  ASSUME FwInv, NEW x \in Contexts, ctx[x].pc # "idle"
  PROVE  InHand(x) /\ ctx[x] \in Work /\ ctx \in [Contexts -> Work] /\ ctx[x].key \in Keys
BY DEF FwInv, RuleTypes, InHands, InHand

(* A context that is idle has nothing in hand.                             *)
LEMMA Rest == Nothing \in Work /\ Nothing.pc = "idle"
BY DEF Nothing, Work, Handling, AnyKey

(* The context has nothing more to do.                                     *)
LEMMA Finished ==
  ASSUME FwInv, NEW x \in Contexts, Finish(x),
         \A y \in Contexts \ {x}, p \in Protos : \A k :
           \A f \in RulesFor(p, k) : Uses(y, f) => f \in RulesFor(p, k)'
  PROVE  /\ ctx' \in [Contexts -> Work] /\ InHands'
         /\ \A y \in Contexts : ctx'[y].pc # "idle" => y # x /\ ctx'[y] = ctx[y]
<1>1. /\ ctx' \in [Contexts -> Work] /\ ctx'[x] = Nothing /\ InHands'
      /\ \A y \in Contexts \ {x} : ctx'[y] = ctx[y]
  BY Rest, StillInHand DEF Finish
<1> QED  BY <1>1, Rest

(* search_rule() takes the lock.                                           *)
LEMMA FwLocks ==
  ASSUME FwInv, NEW x \in Contexts, SearchLock(x)
  PROVE  FwInv'
<1> DEFINE w == [ctx[x] EXCEPT !.pc = "locked"]
<1>1. /\ ctx[x].pc = "search" /\ ctx' = [ctx EXCEPT ![x].pc = "locked"]
      /\ rule' = rule /\ list' = list /\ last' = last
  BY DEF SearchLock
<1>2. w \in Work /\ w.pc = "locked" /\ w.pkt = ctx[x].pkt /\ w.key = ctx[x].key
  BY <1>1, AtWork DEF Work, Handling
<1>3. ctx' = [ctx EXCEPT ![x] = w]
  BY <1>1, AtWork
<1>4. \A p, q : RulesFor(p, q)' = RulesFor(p, q)
  BY <1>1 DEF RulesFor
<1> HIDE DEF w
<1>5. InHand(x)'
  <2>1. ctx'[x] = w
    BY <1>3 DEF FwInv, RuleTypes
  <2> QED  BY <1>1, <1>2, <2>1, AtWork DEF InHand
<1>6. /\ ctx' \in [Contexts -> Work] /\ ctx'[x] = w /\ InHands'
      /\ \A y \in Contexts \ {x} : ctx'[y] = ctx[y]
  BY <1>2, <1>3, <1>4, <1>5, StillInHand
<1>7. \A y \in Contexts : ctx'[y].pc = "del" => ctx'[y] = ctx[y]
  BY <1>2, <1>6
<1> QED  BY <1>1, <1>6, <1>7, SameRules DEF FwInv

(* The lists, and what rules have for keys, are as before.                 *)
LEMMA SameKeys ==
  ASSUME RuleTypes, list' = list, \A f \in Entries : rule'[f].key = rule[f].key
  PROVE  /\ Listed' = Listed /\ \A p : In(p)' = In(p)
         /\ \A p \in Protos : \A k : RulesFor(p, k)' = RulesFor(p, k)
<1>1. \A p \in Protos : ToSet(list[p]) \subseteq Entries
  BY DEF RuleTypes, ToSet
<1>2. Listed' = Listed /\ \A p : In(p)' = In(p)
  BY DEF Listed, In
<1> QED  BY <1>1, <1>2 DEF RulesFor

(* A packet has been handled without a change of the lists.                *)
LEMMA Handled ==
  ASSUME FwInv, NEW x \in Contexts, Finish(x),
         rule' \in [Entries -> [key : AnyKey, timer : {"off", "armed"}]],
         last' \in [Protos -> [Keys -> {"none", "open", "fin", "closed"}]],
         list' = list, \A f \in Entries : rule'[f].key = rule[f].key,
         \A f \in Entries : rule'[f].timer = "armed" => f \in Listed,
         \A k \in Keys : last'["udp"][k] = "open" => last["udp"][k] = "open" \/ RulesFor("udp", k) # {},
         \A k \in Keys : last'["tcp"][k] = "open" =>
           /\ last["tcp"][k] = "open"
           /\ \A f \in RulesFor("tcp", k) : rule'[f].timer = rule[f].timer
  PROVE  FwInv'
<1>0. RuleTypes /\ "tcp" \in Protos /\ "udp" \in Protos
  BY DEF FwInv, Protos
<1>1. /\ Listed' = Listed /\ \A p : In(p)' = In(p)
      /\ \A p \in Protos : \A k : RulesFor(p, k)' = RulesFor(p, k)
  BY <1>0, SameKeys
<1>2. /\ ctx' \in [Contexts -> Work] /\ InHands'
      /\ \A y \in Contexts : ctx'[y].pc = "del" => ctx'[y] = ctx[y]
  BY <1>1, Finished
<1>3. Listed \subseteq Entries
  BY <1>0 DEF RuleTypes, Listed, ToSet
<1>4. ListsOnce'
  BY <1>1, <1>3 DEF FwInv, ListsOnce
<1>5. TimersOnListed'
  BY <1>1 DEF TimersOnListed
<1>6. UdpRules'
  BY <1>0, <1>1 DEF FwInv, UdpRules
<1>7. TcpRules'
  <2> SUFFICES ASSUME NEW k \in Keys, last'["tcp"][k] = "open"
               PROVE  \E f \in RulesFor("tcp", k) : rule'[f].timer = "off"
                        /\ \A y \in Contexts : ctx'[y].pc = "del" => ctx'[y].ple # f
    BY <1>0, <1>1 DEF TcpRules
  <2> QED  BY <1>2 DEF FwInv, TcpRules
<1>8. RuleTypes'
  BY <1>0, <1>2 DEF RuleTypes
<1> QED  BY <1>2, <1>4, <1>5, <1>6, <1>7, <1>8 DEF FwInv

(* What is recorded for a key when its packet has been handled.            *)
LEMMA Records ==
  ASSUME FwInv, NEW x \in Contexts, ctx[x].pc # "idle", NEW what \in {"open", "fin"},
         Done(x, what)
  PROVE  /\ Finish(x) /\ last' \in [Protos -> [Keys -> {"none", "open", "fin", "closed"}]]
         /\ \A p \in Protos, k \in Keys :
              last'[p][k] = IF p = ListOf(ctx[x].pkt) /\ k = ctx[x].key THEN what ELSE last[p][k]
<1> DEFINE l == ListOf(ctx[x].pkt)
<1>1. /\ last \in [Protos -> [Keys -> {"none", "open", "fin", "closed"}]]
      /\ l \in Protos /\ ctx[x].key \in Keys
  BY AtWork DEF FwInv, RuleTypes, ListOf, Protos
<1>2. last' = [last EXCEPT ![l][ctx[x].key] = what] /\ Finish(x)
  BY DEF Done
<1> HIDE DEF l
<1>3. /\ last' \in [Protos -> [Keys -> {"none", "open", "fin", "closed"}]]
      /\ \A p \in Protos, k \in Keys : last'[p][k] = IF p = l /\ k = ctx[x].key THEN what ELSE last[p][k]
  BY <1>1, <1>2
<1> QED  BY <1>2, <1>3 DEF l

(* search_rule() returns.                                                  *)
LEMMA FwSearches ==
  ASSUME FwInv, NEW x \in Contexts, SearchUnlock(x)
  PROVE  FwInv'
<1> DEFINE l == ListOf(ctx[x].pkt)
           e == FirstFor(l, ctx[x].key)
<1>0. ctx[x].pc = "locked" /\ rule' = rule /\ list' = list
  BY DEF SearchUnlock
<1>1. l \in Protos /\ list[l] \in Seq(Entries)
  BY DEF ListOf, Protos, FwInv, RuleTypes
<1>r. \A p, k : RulesFor(p, k)' = RulesFor(p, k)
  BY <1>0 DEF RulesFor
<1>2. CASE e # NoEntry /\ ctx' = [ctx EXCEPT ![x].pc = "found", ![x].ple = e] /\ last' = last
  <2>1. e \in RulesFor(l, ctx[x].key)
    BY <1>1, <1>2, Search
  <2> HIDE DEF e
  <2>2. e \in Entries
    BY <1>1, <2>1 DEF RulesFor, ToSet
  <2> DEFINE w == [ctx[x] EXCEPT !.pc = "found", !.ple = e]
  <2>3. w \in Work /\ w.pc = "found" /\ w.ple = e /\ w.pkt = ctx[x].pkt /\ w.key = ctx[x].key
    BY <1>0, <2>2, AtWork DEF Work, Handling
  <2>4. ctx' = [ctx EXCEPT ![x] = w]
    BY <1>0, <1>2, AtWork
  <2> HIDE DEF w
  <2>5. ctx'[x] = w
    BY <2>4 DEF FwInv, RuleTypes
  <2>7. /\ ctx'[x].pc = "found" /\ ctx'[x].ple = e /\ ctx'[x].key = ctx[x].key
        /\ ListOf(ctx'[x].pkt) = l /\ ctx'[x].pkt = ctx[x].pkt
    BY <2>3, <2>5
  <2>8. InHand(x)'
    BY <1>0, <1>r, <2>1, <2>7, AtWork DEF InHand
  <2>9. /\ ctx' \in [Contexts -> Work] /\ InHands'
        /\ \A y \in Contexts \ {x} : ctx'[y] = ctx[y]
    BY <1>r, <2>3, <2>4, <2>8, StillInHand
  <2>10. \A y \in Contexts : ctx'[y].pc = "del" => ctx'[y] = ctx[y]
    BY <2>7, <2>9
  <2> QED  BY <1>0, <1>2, <2>9, <2>10, SameRules DEF FwInv
<1>3. CASE ctx[x].pkt = "udp" /\ ctx' = [ctx EXCEPT ![x].pc = "add"] /\ last' = last
  <2> DEFINE w == [ctx[x] EXCEPT !.pc = "add"]
  <2>1. w \in Work /\ w.pc = "add" /\ w.pkt = ctx[x].pkt /\ w.key = ctx[x].key
    BY <1>0, AtWork DEF Work, Handling
  <2>2. ctx' = [ctx EXCEPT ![x] = w]
    BY <1>0, <1>3, AtWork
  <2> HIDE DEF w
  <2>3. ctx'[x] = w
    BY <2>2 DEF FwInv, RuleTypes
  <2>4. InHand(x)'
    BY <1>0, <1>3, <2>1, <2>3, AtWork DEF InHand
  <2>5. /\ ctx' \in [Contexts -> Work] /\ InHands'
        /\ \A y \in Contexts \ {x} : ctx'[y] = ctx[y]
    BY <1>r, <2>1, <2>2, <2>4, StillInHand
  <2>6. \A y \in Contexts : ctx'[y].pc = "del" => ctx'[y] = ctx[y]
    BY <2>1, <2>3, <2>5
  <2> QED  BY <1>0, <1>3, <2>5, <2>6, SameRules DEF FwInv
<1>4. CASE Finish(x) /\ last' = last
  <2>1. /\ ctx' \in [Contexts -> Work] /\ InHands'
        /\ \A y \in Contexts : ctx'[y].pc = "del" => ctx'[y] = ctx[y]
    BY <1>r, <1>4, Finished
  <2> QED  BY <1>0, <1>4, <2>1, SameRules DEF FwInv
<1>5. CASE ctx[x].pkt = "fin" /\ Done(x, "fin")
  <2>1. /\ Finish(x) /\ last' \in [Protos -> [Keys -> {"none", "open", "fin", "closed"}]]
        /\ \A p \in Protos, k \in Keys :
             last'[p][k] = IF p = l /\ k = ctx[x].key THEN "fin" ELSE last[p][k]
    BY <1>0, <1>5, Records
  <2>2. rule' \in [Entries -> [key : AnyKey, timer : {"off", "armed"}]]
    BY <1>0 DEF FwInv, RuleTypes
  <2>3. \A p \in Protos, k \in Keys : last'[p][k] = "open" => last[p][k] = "open"
    BY <2>1
  <2>4. \A f \in Entries : rule'[f].timer = "armed" => f \in Listed
    BY <1>0 DEF FwInv, TimersOnListed
  <2> QED  BY <1>0, <2>1, <2>2, <2>3, <2>4, Handled DEF Protos
<1> QED  BY <1>2, <1>3, <1>4, <1>5 DEF SearchUnlock

(* mod_timer(): the rule is still in its list.                             *)
LEMMA FwArms ==
  ASSUME FwInv, NEW x \in Contexts, Arm(x)
  PROVE  FwInv'
<1> DEFINE l == ListOf(ctx[x].pkt)
           e == ctx[x].ple
           what == IF ctx[x].pkt = "fin" THEN "fin" ELSE "open"
<1>0. /\ ctx[x].pc = "found" /\ rule' = [rule EXCEPT ![e].timer = "armed"] /\ list' = list
      /\ Done(x, what) /\ what \in {"open", "fin"}
  BY DEF Arm
<1>1. /\ e \in RulesFor(l, ctx[x].key) /\ ctx[x].pkt # "syn" /\ l \in Protos
      /\ RuleTypes
  BY <1>0, AtWork DEF InHand, FwInv, ListOf, Protos
<1>2. e \in In(l) /\ e \in Entries /\ e \in Listed
  BY <1>1 DEF RuleTypes, RulesFor, ToSet, Listed, In, Protos
<1>3. /\ Finish(x) /\ last' \in [Protos -> [Keys -> {"none", "open", "fin", "closed"}]]
      /\ \A p \in Protos, k \in Keys :
           last'[p][k] = IF p = l /\ k = ctx[x].key THEN what ELSE last[p][k]
  BY <1>0, Records
<1>4. /\ rule' \in [Entries -> [key : AnyKey, timer : {"off", "armed"}]]
      /\ \A f \in Entries : rule'[f].key = rule[f].key
      /\ \A f \in Entries \ {e} : rule'[f] = rule[f]
  BY <1>0, <1>1, <1>2 DEF RuleTypes
<1>6. \A f \in Entries : rule'[f].timer = "armed" => f \in Listed
  BY <1>2, <1>4 DEF FwInv, TimersOnListed
<1>7. (l = "tcp" => what = "fin") /\ (l = "udp" => what = "open")
  BY <1>1 DEF ListOf
<1>8. \A k \in Keys : last'["udp"][k] = "open" => last["udp"][k] = "open" \/ RulesFor("udp", k) # {}
  BY <1>1, <1>3, <1>7 DEF Protos
<1>9. ASSUME NEW k \in Keys, last'["tcp"][k] = "open"
      PROVE  /\ last["tcp"][k] = "open"
             /\ \A f \in RulesFor("tcp", k) : rule'[f].timer = rule[f].timer
  <2>1. last["tcp"][k] = "open" /\ (l = "tcp" => k # ctx[x].key)
    BY <1>3, <1>7, <1>9 DEF Protos
  <2>2. e \notin RulesFor("tcp", k)
    <3>1. CASE l = "tcp"
      BY <1>1, <2>1, <3>1 DEF RulesFor
    <3>2. CASE l # "tcp"
      BY <1>1, <1>2, <3>2 DEF FwInv, ListsOnce, In, RulesFor, Protos
    <3> QED  BY <3>1, <3>2
  <2>3. RulesFor("tcp", k) \subseteq Entries
    BY <1>1 DEF RulesFor, ToSet, RuleTypes, Protos
  <2> QED  BY <1>4, <2>1, <2>2, <2>3
<1> QED  BY <1>0, <1>3, <1>4, <1>6, <1>8, <1>9, Handled

(* An entry put in front of a list that does not hold it.                  *)
LEMMA InFront ==
  ASSUME NEW s \in Seq(Entries), Once(s), NEW e \in Entries, e \notin ToSet(s)
  PROVE  /\ <<e>> \o s \in Seq(Entries) /\ Once(<<e>> \o s)
         /\ ToSet(<<e>> \o s) = ToSet(s) \cup {e}
<1> DEFINE one == <<e>>
           r == one \o s
<1>1. one \in Seq(Entries) /\ Len(one) = 1 /\ one[1] = e
  OBVIOUS
<1> HIDE DEF one
<1>2. /\ r \in Seq(Entries) /\ Len(r) = Len(s) + 1 /\ r[1] = e
      /\ \A i \in 2 .. Len(s) + 1 : r[i] = s[i - 1]
  <2>1. /\ r \in Seq(Entries) /\ Len(r) = Len(one) + Len(s)
        /\ \A i \in 1 .. Len(one) + Len(s) : r[i] = IF i <= Len(one) THEN one[i] ELSE s[i - Len(one)]
    BY <1>1, ConcatProperties
  <2> HIDE DEF r
  <2>2. Len(one) + Len(s) = Len(s) + 1
    BY <1>1
  <2>3. /\ r \in Seq(Entries) /\ Len(r) = Len(s) + 1
        /\ \A i \in 1 .. Len(s) + 1 : r[i] = IF i <= 1 THEN one[i] ELSE s[i - 1]
    BY <1>1, <2>1, <2>2
  <2> QED  BY <1>1, <2>3
<1>3. \A i \in 1 .. Len(s) : s[i] # e
  BY DEF ToSet
<1>4. \A i \in 1 .. Len(s) : i + 1 \in 2 .. Len(s) + 1 /\ r[i + 1] = s[i]
  BY <1>2
<1> HIDE DEF r
<1>5. Once(r)
  <2> SUFFICES ASSUME NEW i \in 1 .. Len(s) + 1, NEW j \in 1 .. Len(s) + 1, r[i] = r[j] PROVE i = j
    BY <1>2 DEF Once
  <2>1. CASE i = 1 \/ j = 1
    BY <1>2, <1>3, <2>1
  <2>2. CASE i # 1 /\ j # 1
    <3>1. i - 1 \in 1 .. Len(s) /\ j - 1 \in 1 .. Len(s) /\ s[i - 1] = s[j - 1]
      BY <1>2, <2>2
    <3>2. i - 1 = j - 1
      BY <3>1 DEF Once
    <3> QED  BY <3>2
  <2> QED  BY <2>1, <2>2
<1>6. ToSet(r) = ToSet(s) \cup {e}
  <2>1. ASSUME NEW f \in ToSet(r) PROVE f \in ToSet(s) \cup {e}
    <3>1. PICK i \in 1 .. Len(s) + 1 : f = r[i]
      BY <1>2 DEF ToSet
    <3>2. i # 1 => i - 1 \in 1 .. Len(s) /\ f = s[i - 1]
      BY <1>2, <3>1
    <3> QED  BY <1>2, <3>1, <3>2 DEF ToSet
  <2>2. ASSUME NEW f \in ToSet(s) PROVE f \in ToSet(r)
    <3>1. PICK i \in 1 .. Len(s) : f = s[i]
      BY DEF ToSet
    <3>2. i + 1 \in 1 .. Len(r) /\ f = r[i + 1]
      BY <1>2, <1>4, <3>1
    <3> QED  BY <1>2, <3>2 DEF ToSet
  <2>3. e \in ToSet(r)
    <3>1. 1 \in 1 .. Len(r)
      BY <1>2
    <3> QED  BY <1>2, <3>1 DEF ToSet
  <2> QED  BY <2>1, <2>2, <2>3
<1> QED  BY <1>2, <1>5, <1>6 DEF r, one

(* add_rule(): the new rule is in front of its list.                       *)
LEMMA FwAdds ==
  ASSUME FwInv, NEW x \in Contexts, AddRule(x)
  PROVE  FwInv'
<1>0. ctx[x].pc = "add" /\ RuleTypes /\ ListsOnce
  BY DEF AddRule, FwInv
<1>l. PICK l \in Protos, k0 \in Keys : l = ListOf(ctx[x].pkt) /\ k0 = ctx[x].key
  BY <1>0, AtWork DEF ListOf, Protos
<1>1. CASE Finish(x) /\ rule' = rule /\ list' = list /\ last' = last
  <2>0. \A p, k : RulesFor(p, k)' = RulesFor(p, k)
    BY <1>1 DEF RulesFor
  <2>1. /\ ctx' \in [Contexts -> Work] /\ InHands'
        /\ \A y \in Contexts : ctx'[y].pc = "del" => ctx'[y] = ctx[y]
    BY <1>1, <2>0, Finished
  <2> QED  BY <1>1, <2>1, SameRules DEF FwInv
<1>2. ASSUME NEW e \in Entries \ Listed,
             rule' = [rule EXCEPT ![e] = [key |-> k0, timer |-> FirstTimer(ctx[x].pkt)]],
             list' = [list EXCEPT ![l] = <<e>> \o @], Done(x, "open")
      PROVE  FwInv'
  <2>1. ctx[x].pkt \in {"syn", "udp"}
    BY <1>0, AtWork DEF InHand
  <2>2. (l = "tcp" => FirstTimer(ctx[x].pkt) = "off") /\ FirstTimer(ctx[x].pkt) \in {"off", "armed"}
    BY <1>l, <2>1 DEF ListOf, FirstTimer
  <2>3. /\ Finish(x) /\ last' \in [Protos -> [Keys -> {"none", "open", "fin", "closed"}]]
        /\ \A p \in Protos, k \in Keys : last'[p][k] = IF p = l /\ k = k0 THEN "open" ELSE last[p][k]
    BY <1>0, <1>l, <1>2, Records
  <2>4. /\ rule' \in [Entries -> [key : AnyKey, timer : {"off", "armed"}]]
        /\ rule'[e].key = k0 /\ rule'[e].timer = FirstTimer(ctx[x].pkt)
        /\ \A f \in Entries \ {e} : rule'[f] = rule[f]
    BY <1>0, <1>2, <2>1, <2>2 DEF RuleTypes, AnyKey
  <2>5. list[l] \in Seq(Entries) /\ Once(list[l]) /\ e \notin In("tcp") /\ e \notin In("udp") /\ e \notin In(l)
    BY <1>0, <2>1 DEF RuleTypes, ListsOnce, Listed, In, Protos
  <2>6. /\ list' \in [Protos -> Seq(Entries)] /\ Once(list'[l]) /\ ToSet(list'[l]) = In(l) \cup {e}
        /\ \A p \in Protos \ {l} : list'[p] = list[p]
    <3>1. /\ <<e>> \o list[l] \in Seq(Entries) /\ Once(<<e>> \o list[l])
          /\ ToSet(<<e>> \o list[l]) = In(l) \cup {e}
      BY <2>5, InFront DEF In
    <3>2. list'[l] = <<e>> \o list[l] /\ list' \in [Protos -> Seq(Entries)] /\ \A p \in Protos \ {l} : list'[p] = list[p]
      BY <1>0, <1>2, <2>1, <3>1 DEF RuleTypes
    <3> QED  BY <3>1, <3>2
  <2>7. /\ \A p \in Protos : ToSet(list'[p]) = IF p = l THEN In(p) \cup {e} ELSE In(p)
        /\ \A p \in Protos : In(p) \subseteq Entries \ {e}
    <3>1. \A p \in Protos : ToSet(list'[p]) = IF p = l THEN In(p) \cup {e} ELSE In(p)
      BY <2>6 DEF In
    <3>2. \A p \in Protos : In(p) \subseteq Entries
      BY <1>0 DEF In, RuleTypes, ToSet
    <3> QED  BY <2>5, <3>1, <3>2 DEF Protos
  <2>8. Listed' = Listed \cup {e} /\ Listed \subseteq Entries \ {e}
    BY <2>1, <2>7 DEF Listed, In, Protos
  <2>9. \A p \in Protos : \A k : RulesFor(p, k) \subseteq RulesFor(p, k)'
    BY <2>4, <2>7 DEF RulesFor, In
  <2>10. e \in RulesFor(l, k0)'
    BY <2>4, <2>7 DEF RulesFor
  <2>11. /\ ctx' \in [Contexts -> Work] /\ InHands'
         /\ \A y \in Contexts : ctx'[y].pc = "del" => y # x /\ ctx'[y] = ctx[y]
    BY <2>3, <2>9, Finished
  <2>12. RuleTypes'
    BY <2>3, <2>4, <2>6, <2>11 DEF RuleTypes
  <2>13. ListsOnce'
    <3>1. \A p \in Protos : Once(list'[p])
      BY <1>0, <2>6 DEF ListsOnce
    <3>2. ToSet(list'["tcp"]) \cap ToSet(list'["udp"]) = {}
      BY <1>0, <2>1, <2>7 DEF ListsOnce, Protos
    <3>3. \A f \in Listed' : rule'[f].key \in Keys
      BY <1>0, <2>1, <2>4, <2>8 DEF ListsOnce
    <3> QED  BY <3>1, <3>2, <3>3 DEF ListsOnce, In
  <2>14. TimersOnListed'
    BY <2>4, <2>8 DEF FwInv, TimersOnListed
  <2>15. UdpRules'
    BY <2>1, <2>3, <2>9, <2>10 DEF FwInv, UdpRules, Protos
  <2>16. TcpRules'
    <3> SUFFICES ASSUME NEW k \in Keys, last'["tcp"][k] = "open"
                 PROVE  \E f \in RulesFor("tcp", k)' : rule'[f].timer = "off"
                          /\ \A y \in Contexts : ctx'[y].pc = "del" => ctx'[y].ple # f
      BY DEF TcpRules
    <3>1. CASE l = "tcp" /\ k = k0
      <4>1. \A y \in Contexts : ctx'[y].pc = "del" => ctx'[y].ple # e
        <5> SUFFICES ASSUME NEW y \in Contexts, ctx'[y].pc = "del" PROVE ctx[y].ple # e
          BY <2>11
        <5>1. InHand(y) /\ ctx[y].pc = "del"
          BY <2>11 DEF FwInv, InHands
        <5>2. PICK p \in Protos : ctx[y].ple \in RulesFor(p, ctx[y].key)
          BY <5>1 DEF InHand
        <5>3. ctx[y].ple \in In(p) /\ In(p) \subseteq Entries \ {e}
          BY <2>7, <5>2 DEF RulesFor, In
        <5> QED  BY <5>3
      <4> QED  BY <2>2, <2>4, <2>10, <3>1, <4>1
    <3>2. CASE ~(l = "tcp" /\ k = k0)
      <4>1. PICK f \in RulesFor("tcp", k) : rule[f].timer = "off"
                   /\ \A y \in Contexts : ctx[y].pc = "del" => ctx[y].ple # f
        BY <2>3, <3>2 DEF FwInv, TcpRules, Protos
      <4>2. f \in Entries \ {e} /\ f \in RulesFor("tcp", k)'
        BY <2>7, <2>9, <4>1 DEF RulesFor, In, Protos
      <4> QED  BY <2>4, <2>11, <4>1, <4>2
    <3> QED  BY <3>1, <3>2
  <2> QED  BY <2>11, <2>12, <2>13, <2>14, <2>15, <2>16 DEF FwInv
<1> QED  BY <1>l, <1>1, <1>2 DEF AddRule

(* A timer expires: it is that of a listed rule, and no other rule's.      *)
LEMMA FwExpires ==
  ASSUME FwInv, NEW x \in Contexts, NEW e \in Entries, TimerFires(x, e)
  PROVE  FwInv'
<1> DEFINE w == [pc |-> "del", pkt |-> "in", key |-> rule[e].key, ple |-> e]
<1>0. /\ rule[e].timer = "armed" /\ list' = list /\ last' = last
      /\ rule' = [rule EXCEPT ![e].timer = "off"] /\ ctx' = [ctx EXCEPT ![x] = w]
      /\ RuleTypes /\ ListsOnce
  BY DEF TimerFires, FwInv
<1>2. e \in Listed /\ rule[e].key \in Keys
  BY <1>0 DEF FwInv, TimersOnListed, ListsOnce
<1>3. /\ rule' \in [Entries -> [key : AnyKey, timer : {"off", "armed"}]]
      /\ rule'[e].timer = "off" /\ \A f \in Entries : rule'[f].key = rule[f].key
      /\ \A f \in Entries \ {e} : rule'[f] = rule[f]
  BY <1>0 DEF RuleTypes
<1>4. w \in Work /\ w.pc = "del" /\ w.ple = e /\ w.key = rule[e].key
  BY <1>2 DEF Work, Handling, AnyKey
<1> HIDE DEF w
<1>5. ctx'[x] = w
  BY <1>0 DEF RuleTypes
<1>6. /\ Listed' = Listed /\ \A p : In(p)' = In(p)
      /\ \A p \in Protos : \A k : RulesFor(p, k)' = RulesFor(p, k)
  BY <1>0, <1>3, SameKeys
<1>7. Listed \subseteq Entries
  BY <1>0 DEF RuleTypes, Listed, ToSet, Protos
<1>9. ListsOnce'
  BY <1>0, <1>3, <1>6, <1>7 DEF ListsOnce
<1>10. /\ ctx' \in [Contexts -> Work] /\ InHands'
       /\ \A y \in Contexts \ {x} : ctx'[y] = ctx[y]
  <2>1. \E p \in Protos : e \in RulesFor(p, rule[e].key)
    BY <1>2 DEF Listed, RulesFor, Protos
  <2>2. InHand(x)'
    BY <1>2, <1>4, <1>5, <1>6, <2>1 DEF InHand
  <2> QED  BY <1>0, <1>4, <1>6, <2>2, StillInHand
<1>8. RuleTypes'
  BY <1>0, <1>3, <1>10 DEF RuleTypes
<1>11. TimersOnListed'
  BY <1>3, <1>6 DEF FwInv, TimersOnListed
<1>12. UdpRules'
  BY <1>0, <1>6 DEF FwInv, UdpRules, Protos
<1>13. TcpRules'
  <2> SUFFICES ASSUME NEW k \in Keys, last["tcp"][k] = "open"
               PROVE  \E f \in RulesFor("tcp", k) : rule'[f].timer = "off" /\ f # e
                        /\ \A y \in Contexts \ {x} : ctx[y].pc = "del" => ctx[y].ple # f
    BY <1>0, <1>4, <1>5, <1>6, <1>10 DEF TcpRules, Protos
  <2>1. PICK f \in RulesFor("tcp", k) : rule[f].timer = "off"
               /\ \A y \in Contexts : ctx[y].pc = "del" => ctx[y].ple # f
    BY DEF FwInv, TcpRules
  <2>2. f \in Entries /\ f # e
    BY <1>0, <2>1 DEF RuleTypes, RulesFor, ToSet, Protos
  <2> QED  BY <1>3, <2>1, <2>2
<1> QED  BY <1>8, <1>9, <1>10, <1>11, <1>12, <1>13 DEF FwInv

(* del_rule() deletes the rule whose timer has expired, and no other.      *)
LEMMA FwDeletes ==
  ASSUME FwInv, NEW x \in Contexts, DelRule(x), ~stale'
  PROVE  FwInv'
<1>0. ctx[x].pc = "del" /\ RuleTypes /\ ListsOnce
  BY DEF DelRule, FwInv
<1>e. PICK e \in Entries, k0 \in Keys : e = ctx[x].ple /\ k0 = ctx[x].key /\ e \in Listed /\ rule[e].key = k0
  <2>1. ctx[x].ple \in Listed /\ rule[ctx[x].ple].key = ctx[x].key /\ ctx[x].key \in Keys
    BY <1>0, AtWork DEF InHand, RulesFor, Listed, Protos
  <2>2. Listed \subseteq Entries
    BY <1>0 DEF RuleTypes, Listed, ToSet, Protos
  <2> QED  BY <2>1, <2>2
<1>1. /\ list' = Without(e) /\ rule' = [rule EXCEPT ![e].timer = "off"] /\ Finish(x)
      /\ last' = [p \in Protos |-> IF p = "udp" /\ e \in In(p)
                                      THEN [last[p] EXCEPT ![k0] = "closed"] ELSE last[p]]
  BY <1>e DEF DelRule, In
<1>2. /\ list' \in [Protos -> Seq(Entries)] /\ \A p \in Protos : Once(list'[p])
      /\ \A p \in Protos : ToSet(list'[p]) = In(p) \ {e}
  <2>1. ASSUME NEW p \in Protos
        PROVE  /\ RemoveFirst(list[p], e) \in Seq(Entries) /\ Once(RemoveFirst(list[p], e))
               /\ ToSet(RemoveFirst(list[p], e)) = In(p) \ {e}
    BY <1>0, Removal DEF RuleTypes, ListsOnce, In
  <2> QED  BY <1>1, <2>1 DEF Without
<1>3. /\ rule' \in [Entries -> [key : AnyKey, timer : {"off", "armed"}]]
      /\ rule'[e].timer = "off" /\ \A f \in Entries : rule'[f].key = rule[f].key
      /\ \A f \in Entries \ {e} : rule'[f] = rule[f]
  BY <1>0, <1>1 DEF RuleTypes
<1>4. /\ last' \in [Protos -> [Keys -> {"none", "open", "fin", "closed"}]]
      /\ \A p \in Protos, k \in Keys :
           last'[p][k] = IF p = "udp" /\ e \in In(p) /\ k = k0 THEN "closed" ELSE last[p][k]
  BY <1>0, <1>1 DEF RuleTypes
<1>6. \A p \in Protos : In(p) \subseteq Entries
  BY <1>0 DEF RuleTypes, In, ToSet
<1>7. Listed' = Listed \ {e} /\ Listed \subseteq Entries
  BY <1>2, <1>6 DEF Listed, In, Protos
<1>8. \A p \in Protos : \A k : RulesFor(p, k)' = RulesFor(p, k) \ {e}
  BY <1>2, <1>3, <1>6 DEF RulesFor, In
<1>5. /\ ctx' \in [Contexts -> Work] /\ InHands'
      /\ \A y \in Contexts : ctx'[y].pc = "del" => ctx'[y] = ctx[y]
  <2>1. \A y \in Contexts \ {x} : ~Uses(y, e)
    BY <1>e DEF DelRule, Frees
  <2> QED  BY <1>1, <1>8, <2>1, Finished
<1>9. RuleTypes'
  BY <1>2, <1>3, <1>4, <1>5 DEF RuleTypes
<1>10. ListsOnce'
  <2>1. ToSet(list'["tcp"]) \cap ToSet(list'["udp"]) = {}
    BY <1>0, <1>2 DEF ListsOnce, Protos
  <2>2. \A f \in Listed' : rule'[f].key \in Keys
    BY <1>0, <1>3, <1>7 DEF ListsOnce
  <2> QED  BY <1>2, <2>1, <2>2 DEF ListsOnce, In
<1>11. TimersOnListed'
  BY <1>3, <1>7 DEF FwInv, TimersOnListed
<1>12. UdpRules'
  <2> SUFFICES ASSUME NEW k \in Keys, last'["udp"][k] = "open" PROVE RulesFor("udp", k)' # {}
    BY DEF UdpRules
  <2>1. last["udp"][k] = "open" /\ (e \in In("udp") => k # k0)
    BY <1>4 DEF Protos
  <2>2. e \notin RulesFor("udp", k)
    BY <1>e, <2>1 DEF RulesFor, In
  <2>3. RulesFor("udp", k) # {}
    BY <2>1 DEF FwInv, UdpRules
  <2> QED  BY <1>8, <2>2, <2>3 DEF Protos
<1>13. TcpRules'
  <2> SUFFICES ASSUME NEW k \in Keys, last'["tcp"][k] = "open"
               PROVE  \E f \in RulesFor("tcp", k)' : rule'[f].timer = "off"
                        /\ \A y \in Contexts : ctx[y].pc = "del" => ctx[y].ple # f
    BY <1>5 DEF TcpRules
  <2>1. PICK f \in RulesFor("tcp", k) : rule[f].timer = "off" /\ f # e
               /\ \A y \in Contexts : ctx[y].pc = "del" => ctx[y].ple # f
    BY <1>0, <1>e, <1>4 DEF FwInv, TcpRules, Protos
  <2>2. f \in Entries
    BY <1>6, <2>1 DEF RulesFor, In, Protos
  <2> QED  BY <1>3, <1>8, <2>1, <2>2 DEF Protos
<1> QED  BY <1>5, <1>9, <1>10, <1>11, <1>12, <1>13 DEF FwInv

(* destroy_list() deletes the timers with the rules.                       *)
LEMMA FwDestroys ==
  ASSUME FwInv, NEW p \in Protos, Destroy(p), ~stale'
  PROVE  FwInv'
<1>0. /\ ctx' = ctx /\ list' = [list EXCEPT ![p] = <<>>]
      /\ rule' = [e \in Entries |-> IF e \in In(p) THEN [rule[e] EXCEPT !.timer = "off"] ELSE rule[e]]
      /\ last' = [last EXCEPT ![p] = [k \in Keys |-> "closed"]] /\ RuleTypes /\ ListsOnce
  BY DEF Destroy, FwInv, In
<1>1. \A y \in Contexts, f \in In(p) : ~Uses(y, f)
  <2>1. Unlocked \notin Contexts
    BY DEF Unlocked, Contexts
  <2> QED  BY <2>1 DEF Destroy, Frees, In
<1>2. /\ rule' \in [Entries -> [key : AnyKey, timer : {"off", "armed"}]]
      /\ \A f \in Entries : rule'[f].key = rule[f].key
      /\ \A f \in Entries : rule'[f].timer = IF f \in In(p) THEN "off" ELSE rule[f].timer
  BY <1>0 DEF RuleTypes
<1>3. list' \in [Protos -> Seq(Entries)] /\ list'[p] = <<>> /\ \A q \in Protos \ {p} : list'[q] = list[q]
  BY <1>0 DEF RuleTypes
<1>4. /\ \A q \in Protos : Once(list'[q])
      /\ \A q \in Protos : ToSet(list'[q]) = IF q = p THEN {} ELSE In(q)
  <2>1. Once(<<>>) /\ ToSet(<<>>) = {}
    BY DEF Once, ToSet
  <2> QED  BY <1>0, <1>3, <2>1 DEF ListsOnce, In
<1>5. /\ last' \in [Protos -> [Keys -> {"none", "open", "fin", "closed"}]]
      /\ \A q \in Protos, k \in Keys : last'[q][k] = IF q = p THEN "closed" ELSE last[q][k]
  BY <1>0 DEF RuleTypes
<1>6. \A q \in Protos : In(q) \subseteq Entries
  BY <1>0 DEF RuleTypes, In, ToSet
<1>7. Listed' = Listed \ In(p) /\ Listed \subseteq Entries
  BY <1>0, <1>4, <1>6 DEF Listed, In, Protos, ListsOnce
<1>8. \A q \in Protos \ {p} : \A k : RulesFor(q, k)' = RulesFor(q, k)
  BY <1>2, <1>4, <1>6 DEF RulesFor, In
<1>9. RuleTypes'
  BY <1>0, <1>2, <1>3, <1>5 DEF RuleTypes
<1>10. ListsOnce'
  <2>1. ToSet(list'["tcp"]) \cap ToSet(list'["udp"]) = {}
    BY <1>0, <1>4 DEF ListsOnce, Protos
  <2>2. \A f \in Listed' : rule'[f].key \in Keys
    BY <1>0, <1>2, <1>7 DEF ListsOnce
  <2> QED  BY <1>4, <2>1, <2>2 DEF ListsOnce, In
<1>11. TimersOnListed'
  BY <1>2, <1>7 DEF FwInv, TimersOnListed
<1>12. UdpRules'
  BY <1>5, <1>8 DEF FwInv, UdpRules, Protos
<1>13. TcpRules'
  <2> SUFFICES ASSUME NEW k \in Keys, last'["tcp"][k] = "open"
               PROVE  \E f \in RulesFor("tcp", k)' : rule'[f].timer = "off"
                        /\ \A y \in Contexts : ctx[y].pc = "del" => ctx[y].ple # f
    BY <1>0 DEF TcpRules
  <2>1. p = "udp" /\ last["tcp"][k] = "open"
    BY <1>5 DEF Protos
  <2>2. PICK f \in RulesFor("tcp", k) : rule[f].timer = "off"
               /\ \A y \in Contexts : ctx[y].pc = "del" => ctx[y].ple # f
    BY <2>1 DEF FwInv, TcpRules
  <2>3. f \in Entries
    BY <1>6, <2>2 DEF RulesFor, In, Protos
  <2> QED  BY <1>2, <1>8, <2>1, <2>2, <2>3 DEF Protos
<1>14. InHands'
  <2> SUFFICES ASSUME NEW y \in Contexts, ctx[y].pc # "idle" PROVE InHand(y)'
    BY <1>0 DEF InHands
  <2>1. InHand(y) /\ ListOf(ctx[y].pkt) \in Protos
    BY DEF FwInv, InHands, ListOf, Protos
  <2>2. ASSUME NEW q \in Protos, NEW k, ctx[y].ple \in RulesFor(q, k), ctx[y].pc \in {"found", "del"}
        PROVE  ctx[y].ple \in RulesFor(q, k)'
    <3>1. q # p
      BY <1>1, <2>2 DEF Uses, RulesFor, In
    <3> QED  BY <1>8, <2>2, <3>1
  <2>3. ctx[y].pc = "found" => ctx[y].ple \in RulesFor(ListOf(ctx[y].pkt), ctx[y].key)'
    BY <1>0, <2>1, <2>2 DEF InHand
  <2>4. ctx[y].pc = "del" => \E q \in Protos : ctx[y].ple \in RulesFor(q, ctx[y].key)'
    BY <1>0, <2>1, <2>2 DEF InHand
  <2> QED  BY <1>0, <2>1, <2>3, <2>4 DEF InHand
<1> QED  BY <1>9, <1>10, <1>11, <1>12, <1>13, <1>14 DEF FwInv

(* Before the first packet there is no rule.                               *)
LEMMA FwStarts == FirewallInit => FwInv
<1> HAVE FirewallInit
<1>1. /\ rule = [e \in Entries |-> [key |-> CHOOSE k \in Keys : TRUE, timer |-> "off"]]
      /\ list = [p \in Protos |-> <<>>] /\ ctx = [x \in Contexts |-> Nothing]
      /\ last = [p \in Protos |-> [k \in Keys |-> "none"]]
  BY DEF FirewallInit
<1>2. Nothing \in Work /\ Nothing.pc = "idle"
  BY DEF Nothing, Work, Handling, AnyKey
<1>3. RuleTypes
  <2>1. rule \in [Entries -> [key : AnyKey, timer : {"off", "armed"}]]
    BY <1>1 DEF AnyKey
  <2>2. list \in [Protos -> Seq(Entries)]
    BY <1>1
  <2>3. ctx \in [Contexts -> Work]
    BY <1>1, <1>2
  <2> QED  BY <1>1, <2>1, <2>2, <2>3 DEF RuleTypes
<1>4. \A p \in Protos : In(p) = {} /\ Once(list[p])
  BY <1>1 DEF In, Once, ToSet
<1>5. ListsOnce
  BY <1>4 DEF ListsOnce, Listed, In, Protos
<1>6. InHands
  BY <1>1, <1>2 DEF InHands
<1>7. TimersOnListed
  BY <1>1 DEF TimersOnListed
<1>8. TcpRules /\ UdpRules
  BY <1>1 DEF TcpRules, UdpRules, Protos
<1> QED  BY <1>3, <1>5, <1>6, <1>7, <1>8 DEF FwInv

(* Every step of the firewall keeps the invariant.                         *)
LEMMA FwStep ==
  ASSUME UntilStale, [FirewallNext]_firewallVars PROVE UntilStale'
<1>0. SUFFICES ASSUME FwInv, ~stale' PROVE FwInv'
  <2>1. ~stale' => ~stale
    BY DEF FirewallNext, firewallVars, Context, SearchLock, SearchUnlock, Arm, AddRule, DelRule,
           HookOut, HookIn, TimerFires, AddStatic, Enable, Disable, DestroyStatic, RemoveHooks,
           Destroy, Frees
  <2> QED  BY <2>1 DEF UntilStale
<1>1. ASSUME NEW x \in Contexts, Context(x) PROVE FwInv'
  BY <1>0, <1>1, FwLocks, FwSearches, FwArms, FwAdds, FwDeletes DEF Context
<1>2. CASE \E x \in Contexts, pkt \in Packets, k \in Keys : HookOut(x, pkt, k)
  BY <1>0, <1>2, FwArrives
<1>3. CASE \E x \in Contexts, k \in Keys : HookIn(x, k)
  <2>1. PICK x \in Contexts, k \in Keys : HookIn(x, k)
    BY <1>3
  <2>2. "in" \in Packets
    BY <2>1 DEF HookIn
  <2> QED  BY <1>0, <2>1, <2>2, FwArrives
<1>4. CASE \E x \in Contexts, e \in Entries : TimerFires(x, e)
  BY <1>0, <1>4, FwExpires
<1>5. CASE \E p \in Protos : Destroy(p)
  BY <1>0, <1>5, FwDestroys
<1>6. CASE UNCHANGED <<rule, list, ctx, last>>
  <2>1. RuleTypes' /\ ListsOnce' /\ TimersOnListed' /\ TcpRules' /\ UdpRules'
    BY <1>0, <1>6, SameRules DEF FwInv, RuleTypes
  <2>2. InHands'
    BY <1>0, <1>6 DEF FwInv, InHands, InHand, RulesFor
  <2> QED  BY <2>1, <2>2 DEF FwInv
<1>7. (\E k \in Keys : AddStatic(k)) \/ Enable \/ Disable \/ DestroyStatic \/ RemoveHooks
        \/ UNCHANGED firewallVars => UNCHANGED <<rule, list, ctx, last>>
  BY DEF AddStatic, Enable, Disable, DestroyStatic, RemoveHooks, firewallVars
<1> QED  BY <1>1, <1>2, <1>3, <1>4, <1>5, <1>6, <1>7 DEF FirewallNext

(* Hooks and timers on any number of CPUs: what an outgoing packet has opened
   stays open until its FIN or its timer, or until a rule is freed that another
   context has found or is about to delete.                                *)
THEOREM FlowsStayOpen == FirewallSpec => []StaysOpen
<1>1. UntilStale => StaysOpen
  <2>1. TcpRules => TcpStaysOpen
    BY DEF TcpRules, TcpStaysOpen, Accepts
  <2>2. UdpRules => UdpStaysOpen
    BY DEF UdpRules, UdpStaysOpen, Accepts
  <2> QED  BY <2>1, <2>2 DEF UntilStale, FwInv, StaysOpen
<1>2. FirewallInit => UntilStale
  BY FwStarts DEF UntilStale
<1> QED  BY <1>1, <1>2, FwStep, PTL DEF FirewallSpec
=============================================================================
