------------------------------ MODULE Firewall ------------------------------
(***************************************************************************)
(* NetworkFirewallLinux: outgoing packets create dynamic rules, incoming   *)
(* ones are accepted by a static or a dynamic rule, and timers delete      *)
(* dynamic rules. Hooks and timers run on several CPUs, on each of which   *)
(* a softirq may interrupt a process; the lists are under one spin lock,   *)
(* taken with bottom halves disabled by add_rule() and destroy_list() only.*)
(*                                                                         *)
(* A key stands for the packets that match_rule() does not tell apart.     *)
(***************************************************************************)
EXTENDS Integers, Sequences, SequencesExt, FiniteSets

CONSTANTS
  CPUs,
  Levels,    \* where outgoing packets are handled: "process", "softirq"
  Keys,
  Entries,   \* memory for rules; when none is free kmalloc() fails
  NoEntry,
  Packets,   \* the outgoing packets that matter, {"syn", "fin", "udp"}, and
             \* incoming UDP packets, "in"
  Unload     \* whether the module is removed

ASSUME FirewallAssumption ==
  /\ Levels \subseteq {"process", "softirq"} /\ NoEntry \notin Entries
  /\ Packets \subseteq {"syn", "fin", "udp", "in"} /\ Unload \in BOOLEAN

VARIABLES
  rule,        \* per entry: its key and timer
  list,        \* tcp_dynamic_rules and udp_dynamic_rules
  static,      \* keys that a static rule accepts
  lock,        \* the context that holds the lock
  ctx,         \* per CPU and level: what runs there
  registered,  \* the hooks
  enabled,     \* ipfirewall_enabled
  module,      \* "live", or the step of ipfirewall_exit()
  last,        \* per key, history: what was last done for it, for each protocol
  stale        \* history: a rule was freed that another context was using

firewallVars == <<rule, list, static, lock, ctx, registered, enabled, module, last, stale>>

Protos == {"tcp", "udp"}
Contexts == CPUs \X {"process", "softirq"}
Unlocked == <<NoEntry, "unlocked">>
Nothing == [pc |-> "idle", pkt |-> "in", key |-> CHOOSE k \in Keys : TRUE,
            ple |-> NoEntry]

FirewallInit ==
  /\ rule = [e \in Entries |-> [key |-> CHOOSE k \in Keys : TRUE, timer |-> "off"]]
  /\ list = [p \in Protos |-> <<>>]
  /\ static = {} /\ lock = Unlocked
  /\ ctx = [x \in Contexts |-> Nothing]
  /\ registered = {"out", "in"} /\ enabled = TRUE /\ module = "live"
  /\ last = [p \in Protos |-> [k \in Keys |-> "none"]] /\ stale = FALSE
-----------------------------------------------------------------------------
ListOf(pkt) == IF pkt \in {"syn", "fin"} THEN "tcp" ELSE "udp"
Listed == ToSet(list["tcp"]) \cup ToSet(list["udp"])
RulesFor(p, k) == {e \in ToSet(list[p]) : rule[e].key = k}

(* A process does not run while a softirq runs on its CPU.                 *)
Runs(x) == x[2] = "process" => ctx[<<x[1], "softirq">>].pc = "idle"

(* A context uses a rule whose timer has expired or that search_rule() has
   returned, without the lock.                                             *)
Uses(x, e) == ctx[x].pc \in {"found", "del"} /\ ctx[x].ple = e

Frees(x, freed) ==
  stale' = (stale \/ \E y \in Contexts \ {x}, e \in freed : Uses(y, e))

Idle(x) == Runs(x) /\ ctx[x].pc = "idle"
Finish(x) == ctx' = [ctx EXCEPT ![x] = Nothing]
Done(x, what) ==
  /\ Finish(x)
  /\ last' = [last EXCEPT ![ListOf(ctx[x].pkt)][ctx[x].key] = what]

(* A packet comes to a hook. Only those that change rules are taken: a SYN
   adds a rule, FIN and UDP packets look for one first.                    *)
HookOut(x, pkt, k) ==
  /\ Idle(x) /\ x[2] \in Levels
  /\ "out" \in registered /\ pkt \in Packets \ {"in"}
  /\ ctx' = [ctx EXCEPT ![x] = [pc |-> IF pkt = "syn" THEN "add" ELSE "search",
                                pkt |-> pkt, key |-> k, ple |-> NoEntry]]
  /\ UNCHANGED <<rule, list, static, lock, registered, enabled, module, last, stale>>

(* An incoming UDP packet that no static rule accepts.                     *)
HookIn(x, k) ==
  /\ Idle(x) /\ x[2] = "softirq"
  /\ "in" \in registered /\ "in" \in Packets /\ k \notin static
  /\ ctx' = [ctx EXCEPT ![x] = [pc |-> "search", pkt |-> "in", key |-> k,
                                ple |-> NoEntry]]
  /\ UNCHANGED <<rule, list, static, lock, registered, enabled, module, last, stale>>

(* search_rule(): the lock is taken with softirqs enabled.                 *)
SearchLock(x) ==
  /\ Runs(x) /\ ctx[x].pc = "search" /\ lock = Unlocked
  /\ lock' = x
  /\ ctx' = [ctx EXCEPT ![x].pc = "locked"]
  /\ UNCHANGED <<rule, list, static, registered, enabled, module, last, stale>>

FirstFor_any(p, k) == IF list[p] = <<>> THEN NoEntry ELSE Head(list[p])

(* The first rule of the list for a key.                                   *)
FirstFor(p, k) ==
  LET i == SelectInSeq(list[p], LAMBDA e : rule[e].key = k)
  IN  IF i = 0 THEN NoEntry ELSE list[p][i]

SearchUnlock(x) ==
  LET c == ctx[x]
      e == FirstFor(ListOf(c.pkt), c.key)
  IN  /\ Runs(x) /\ c.pc = "locked"
      /\ lock' = Unlocked
      /\ \/ /\ e # NoEntry
            /\ ctx' = [ctx EXCEPT ![x].pc = "found", ![x].ple = e]
            /\ UNCHANGED last
         \/ e = NoEntry /\ c.pkt = "udp"
            /\ ctx' = [ctx EXCEPT ![x].pc = "add"] /\ UNCHANGED last
         \/ e = NoEntry /\ c.pkt = "fin" /\ Done(x, "fin")
         \/ e = NoEntry /\ c.pkt = "in" /\ Finish(x) /\ UNCHANGED last
      /\ UNCHANGED <<rule, list, static, registered, enabled, module, stale>>

(* mod_timer(), after the lock has been released.                          *)
Arm(x) ==
  /\ Runs(x) /\ ctx[x].pc = "found"
  /\ rule' = [rule EXCEPT ![ctx[x].ple].timer = "armed"]
  /\ Done(x, IF ctx[x].pkt = "fin" THEN "fin" ELSE "open")
  /\ UNCHANGED <<list, static, lock, registered, enabled, module, stale>>

(* Only the timer of a UDP rule is armed at once.                          *)
FirstTimer(pkt) == IF pkt = "syn" THEN "off" ELSE "armed"

AddRule(x) ==
  LET c == ctx[x]
  IN  /\ Runs(x) /\ c.pc = "add" /\ lock = Unlocked
      /\ \/ \E e \in Entries \ Listed :
              /\ rule' = [rule EXCEPT ![e] = [key |-> c.key, timer |-> FirstTimer(c.pkt)]]
              /\ list' = [list EXCEPT ![ListOf(c.pkt)] = <<e>> \o @]
              /\ Done(x, "open")
         \/ Finish(x) /\ UNCHANGED <<rule, list, last>>     \* -ENOMEM
      /\ UNCHANGED <<static, lock, registered, enabled, module, stale>>
-----------------------------------------------------------------------------
(* A timer expires: its callback runs in a softirq, takes the lock and deletes
   the rule.                                                               *)
TimerFires(x, e) ==
  /\ Idle(x) /\ x[2] = "softirq" /\ rule[e].timer = "armed" /\ module # "gone"
  /\ rule' = [rule EXCEPT ![e].timer = "off"]
  /\ ctx' = [ctx EXCEPT ![x] = [pc |-> "del", pkt |-> "in", key |-> rule[e].key,
                                ple |-> e]]
  /\ UNCHANGED <<list, static, lock, registered, enabled, module, last, stale>>

Without(e) == [p \in Protos |-> RemoveFirst(list[p], e)]

(* del_rule() compares the whole entry, so it deletes just the one whose timer
   has expired.                                                            *)
DelRule(x) ==
  LET e == ctx[x].ple
  IN  /\ ctx[x].pc = "del" /\ lock = Unlocked
      /\ list' = Without(e)
      /\ rule' = [rule EXCEPT ![e].timer = "off"]
      /\ last' = [p \in Protos |-> IF p = "udp" /\ e \in ToSet(list[p])
                                   THEN [last[p] EXCEPT ![ctx[x].key] = "closed"]
                                   ELSE last[p]]
      /\ Finish(x) /\ Frees(x, {e})
      /\ UNCHANGED <<static, lock, registered, enabled, module>>
-----------------------------------------------------------------------------
(* ioctl(), in a process.                                                  *)
InProcess == \E c \in CPUs : Idle(<<c, "process">>)

AddStatic(k) ==
  /\ InProcess /\ module = "live" /\ lock = Unlocked
  /\ static' = static \cup {k}
  /\ UNCHANGED <<rule, list, lock, ctx, registered, enabled, module, last, stale>>

(* Either hook may fail to register; the firewall then still counts as enabled. *)
Enable ==
  /\ InProcess /\ module = "live" /\ ~enabled
  /\ enabled' = TRUE /\ registered' \in {{}, {"out"}, {"out", "in"}}
  /\ UNCHANGED <<rule, list, static, lock, ctx, module, last, stale>>

Disable ==
  /\ InProcess /\ module = "live" /\ enabled
  /\ enabled' = FALSE /\ registered' = {}
  /\ UNCHANGED <<rule, list, static, lock, ctx, module, last, stale>>

(* ipfirewall_exit(): the lists are destroyed one after the other, and then the
   hooks removed, once no packet is inside them.                           *)
DestroyStatic ==
  /\ InProcess /\ Unload /\ module = "live" /\ lock = Unlocked
  /\ static' = {} /\ module' = "tcp"
  /\ UNCHANGED <<rule, list, lock, ctx, registered, enabled, last, stale>>

Destroy(p) ==
  /\ InProcess /\ module = p /\ lock = Unlocked
  /\ rule' = [e \in Entries |-> IF e \in ToSet(list[p])
                                THEN [rule[e] EXCEPT !.timer = "off"] ELSE rule[e]]
  /\ list' = [list EXCEPT ![p] = <<>>]
  /\ module' = IF p = "tcp" THEN "udp" ELSE "hooks"
  /\ last' = [last EXCEPT ![p] = [k \in Keys |-> "closed"]]
  /\ Frees(Unlocked, ToSet(list[p]))
  /\ UNCHANGED <<static, lock, ctx, registered, enabled>>

RemoveHooks ==
  /\ module = "hooks" /\ \A x \in Contexts : ctx[x].pc = "idle"
  /\ module' = "gone"
  /\ registered' = IF enabled THEN {} ELSE registered
  /\ UNCHANGED <<rule, list, static, lock, ctx, enabled, last, stale>>

Context(x) == SearchLock(x) \/ SearchUnlock(x) \/ Arm(x) \/ AddRule(x) \/ DelRule(x)

FirewallNext ==
  \/ \E x \in Contexts : Context(x)
  \/ \E x \in Contexts, pkt \in Packets, k \in Keys : HookOut(x, pkt, k)
  \/ \E x \in Contexts, k \in Keys : HookIn(x, k)
  \/ \E x \in Contexts, e \in Entries : TimerFires(x, e)
  \/ \E k \in Keys : AddStatic(k)
  \/ Enable \/ Disable \/ DestroyStatic \/ RemoveHooks
  \/ \E p \in Protos : Destroy(p)

FirewallSpec == FirewallInit /\ [][FirewallNext]_firewallVars
-----------------------------------------------------------------------------
(* Lists hold each entry once, and the contexts are well formed.           *)
FirewallTypeOK ==
  /\ rule \in [Entries -> [key : Keys, timer : {"off", "armed"}]]
  /\ list \in [Protos -> Seq(Entries)]
  /\ Len(list["tcp"]) + Len(list["udp"]) = Cardinality(Listed)
  /\ static \subseteq Keys /\ lock \in Contexts \cup {Unlocked}
  /\ ctx \in [Contexts -> [pc : {"idle", "search", "locked", "found", "add", "del"},
                           pkt : {"syn", "fin", "udp", "in"}, key : Keys,
                           ple : Entries \cup {NoEntry}]]
  /\ \A x \in Contexts : ctx[x].pc \in {"found", "del"} => ctx[x].ple \in Entries
  /\ registered \subseteq {"out", "in"} /\ enabled \in BOOLEAN
  /\ module \in {"live", "tcp", "udp", "hooks", "gone"}
  /\ last \in [Protos -> [Keys -> {"none", "open", "fin", "closed"}]]
  /\ stale \in BOOLEAN

(* Whether an incoming packet is accepted.                                 *)
Accepts(p, k) == k \in static \/ RulesFor(p, k) # {}

(* From the SYN of a connection until a FIN, its incoming packets are accepted:
   no timer left over from an earlier connection removes the new rule.     *)
TcpStaysOpen ==
  \A k \in Keys : last["tcp"][k] = "open"
    => Accepts("tcp", k) /\ \E e \in RulesFor("tcp", k) :
         rule[e].timer = "off" /\ \A x \in Contexts : ctx[x].pc = "del" => ctx[x].ple # e

(* From an outgoing UDP packet, or an incoming one that was accepted, until
   the timer of a rule expires, incoming packets are accepted.             *)
UdpStaysOpen ==
  \A k \in Keys : last["udp"][k] = "open" => Accepts("udp", k)

(* What an outgoing packet has opened stays open until its FIN or its timer,
   on however many CPUs hooks and timers run: no timer or search of another
   connection closes it. Until a rule is freed that is still being used.   *)
StaysOpen == ~stale => TcpStaysOpen /\ UdpStaysOpen

-----------------------------------------------------------------------------
(* What the documentation of the program promises and the code does not keep:
   none of the following holds.                                            *)

(* A timer runs only for a rule that is in a list: a rule that a hook re-arms
   still exists.                                                           *)
TimersOnListed == \A e \in Entries : rule[e].timer = "armed" => e \in Listed

(* The FIN of a connection arms a timer that removes its rule: once no timer
   is left the packets are no longer accepted.                             *)
FinRemoves ==
  \A k \in Keys :
    last["tcp"][k] = "fin" /\ (\A x \in Contexts : ctx[x].pc = "idle")
      /\ (\A e \in RulesFor("tcp", k) : rule[e].timer = "off")
    => RulesFor("tcp", k) = {}

(* The lock is never wanted by a softirq that has interrupted its holder: the
   lock is taken so as to synchronise with bottom halves.                  *)
NoSelfDeadlock ==
  \A c \in CPUs : lock = <<c, "process">> =>
    ctx[<<c, "softirq">>].pc \notin {"search", "add", "del"}

(* Removing the module destroys all timers.                                *)
NoTimerLeft == module = "gone" => \A e \in Entries : rule[e].timer = "off"
=============================================================================
