----------------------------- MODULE SerialPort -----------------------------
(***************************************************************************)
(* One serial port of the drivers SerialPortDriverLinux/uart16550.c and    *)
(* SerialPortDriverWindows/uart16550.c: the interrupt handler, the read,   *)
(* write and ioctl entry points, loading and unloading.  The two drivers   *)
(* have the same structure and differ in how they wait (flags and wait     *)
(* queues, or auto-reset events) and in when write() waits; `platform'     *)
(* tells which one is running.                                             *)
(*                                                                         *)
(* The interrupt enable register ier is changed by reading it and writing  *)
(* it back, in the handler and in the processes, without a lock.  Every    *)
(* access to the device is a step, so all orders are explored; with smp    *)
(* FALSE the handler is not interleaved with the processes (one CPU).      *)
(*                                                                         *)
(* The k-th byte the line delivers is the number k, and so is the k-th     *)
(* byte that a process writes.                                             *)
(***************************************************************************)
EXTENDS Integers, Sequences, SequencesExt, FiniteSets

CONSTANTS
    Uses,       \* the uses of the port to look at
    Fifo,       \* bytes the UART's FIFO holds and one write() accepts (14)
    Sizes,      \* sizes that processes pass to write()
    MaxArrive,  \* bound: bytes that arrive on the line
    MaxWrite    \* bound: bytes that processes write

ASSUME UsesAssumption == Uses \subseteq {"reader", "writer", "turns", "together", "setline"}
ASSUME FifoAssumption == Fifo \in Nat \ {0}
ASSUME SizesAssumption == Sizes \subseteq Nat

Procs == {"reader", "writer", "setline"}
Resources == <<"cdev", "region", "irq">>
Junk == 0

VARIABLES
    platform,   \* which of the two drivers
    smp,        \* the handler runs beside the processes
    use,        \* who uses the port: a reader, a writer, one process that
                \* does both in turns, two processes, or a reader while the
                \* line is being configured
    phase,      \* "down", "failed", "up" (loaded), "open" or "gone"
    held,       \* what do_requests has obtained and nobody has released
    ier,        \* the enabled interrupts
    dlab,       \* the divisor latch hides data and ier (inside SET_LINE)
    fifo,       \* bytes received by the UART, not yet read
    read_buffer,\* dev->read_buffer[0 .. dev->read)
    read_ready, \* flag, or event_reads is signalled
    write,      \* dev->write
    write_buffer,
    write_ready,\* flag; on Windows: event_writes is not signalled
    h,          \* the handler: place, cause, its copy of ier, index
    pc, copy,   \* the processes: place, their copy of ier
    user,       \* the bytes copied to the reader's buffer
    arrived, delivered, written, sent, interrupted  \* history

dev == <<ier, dlab, fifo, read_buffer, read_ready, write, write_buffer, write_ready>>
history == <<arrived, delivered, written, sent, interrupted>>
rigid == <<platform, smp, use>>
vars == <<rigid, phase, held, dev, h, pc, copy, user, history>>

linux == platform = "linux"
windows == platform = "windows"

(* What a process may be in this use of the port. *)
Active(p) ==
    CASE p = "reader" -> use # "writer"
      [] p = "writer" -> use \in {"writer", "turns", "together"}
      [] p = "setline" -> use = "setline"

(* The handler's variables outside the handler. *)
idle == [pc |-> "idle", cause |-> "RDAI", ier |-> {}, i |-> 0]

TypeOK ==
    /\ platform \in {"linux", "windows"} /\ smp \in BOOLEAN /\ use \in Uses
    /\ phase \in {"down", "failed", "up", "open", "gone"} /\ held \subseteq ToSet(Resources)
    /\ ier \subseteq {"RDAI", "THREI"} /\ dlab \in BOOLEAN
    /\ fifo \in Seq(Nat) /\ read_buffer \in Seq(Nat) /\ user \in Seq(Nat)
    /\ read_ready \in BOOLEAN /\ write_ready \in BOOLEAN
    /\ write \in 0..Fifo /\ write_buffer \in [1..Fifo -> 0..MaxWrite]
    /\ pc \in [Procs -> {"idle", "wait", "copy", "reset", "clear", "ready", "inb", "outb"}]
    /\ copy \in [Procs -> SUBSET {"RDAI", "THREI"}]

Init ==
    /\ platform \in {"linux", "windows"} /\ smp \in BOOLEAN /\ use \in Uses
    /\ phase = "down" /\ held = {}
    /\ ier = {} /\ dlab = FALSE /\ fifo = <<>>
    /\ read_buffer = <<>> /\ read_ready = FALSE
    /\ write = 0 /\ write_buffer = [i \in 1..Fifo |-> Junk] /\ write_ready = FALSE
    /\ h = idle
    /\ pc = [p \in Procs |-> "idle"] /\ copy = [p \in Procs |-> {}]
    /\ user = <<>> /\ arrived = 0 /\ delivered = <<>> /\ written = 0
    /\ sent = 0 /\ interrupted = FALSE

---------------------------------------------------------------------------
(* Loading and unloading. *)

(* do_requests: everything is obtained and the interrupts are enabled, the *)
(* Windows driver's transmitter interrupt included.                        *)
do_requests ==
    /\ phase = "down"
    /\ phase' = "up" /\ held' = ToSet(Resources)
    /\ ier' = IF linux THEN {"RDAI"} ELSE {"RDAI", "THREI"}
    /\ write_ready' = windows          \* event_writes is not signalled
    /\ UNCHANGED <<rigid, dlab, fifo, read_buffer, read_ready, write, write_buffer,
                   h, pc, copy, user, history>>

(* Everything is given back and the interrupts are disabled.               *)
release_all == held' = {} /\ ier' = {}

(* A request fails: Linux's l_close keeps what do_requests had obtained,   *)
(* Windows calls DriverUnload.                                             *)
do_requests_fails ==
    /\ phase = "down"
    /\ phase' = "failed"
    /\ \/ windows /\ release_all
       \/ /\ linux /\ UNCHANGED ier
          /\ \E k \in 0..Len(Resources) - 1 : held' = ToSet(SubSeq(Resources, 1, k))
    /\ UNCHANGED <<rigid, dlab, fifo, read_buffer, read_ready, write, write_buffer, write_ready,
                   h, pc, copy, user, history>>

(* serial_cdev_exit, DriverUnload: no file is open.                        *)
unload ==
    /\ phase = "up" /\ h.pc = "idle"
    /\ phase' = "gone" /\ release_all
    /\ UNCHANGED <<rigid, dlab, fifo, read_buffer, read_ready, write, write_buffer, write_ready,
                   h, pc, copy, user, history>>

loading == do_requests \/ do_requests_fails \/ unload

(* serial_open, UartOpen; serial_close, UartClose: the processes hold the  *)
(* port open for all their calls.                                          *)
open ==
    /\ phase = "up" /\ phase' = "open"
    /\ UNCHANGED <<rigid, held, dev, h, pc, copy, user, history>>

close ==
    /\ phase = "open" /\ \A p \in Procs : pc[p] = "idle"
    /\ phase' = "up"
    /\ UNCHANGED <<rigid, held, dev, h, pc, copy, user, history>>

---------------------------------------------------------------------------
(* The UART. *)

(* A byte comes in and there is room for it.                               *)
arrive ==
    /\ phase \in {"up", "open"} /\ arrived < MaxArrive /\ Len(fifo) < Fifo
    /\ arrived' = arrived + 1 /\ fifo' = Append(fifo, arrived + 1)
    /\ UNCHANGED <<rigid, phase, held, ier, dlab, read_buffer, read_ready, write, write_buffer,
                   write_ready, h, pc, copy, user, delivered, written, sent, interrupted>>

(* inb(IER) and outb(.., IER): while DLAB is set the port address is that  *)
(* of the divisor latch, whose high byte SET_LINE makes zero.              *)
inb_IER == IF dlab THEN {} ELSE ier
outb_IER(s) == IF dlab THEN ier ELSE s

---------------------------------------------------------------------------
(* The interrupt handler. *)

received == "RDAI" \in ier /\ fifo # <<>>
empty == "THREI" \in ier

(* The IIR names one cause; received data has the higher priority.         *)
irq_start ==
    /\ phase \in {"up", "open"} /\ h.pc = "idle" /\ (received \/ empty)
    /\ h' = [h EXCEPT !.pc = "inb", !.cause = IF received THEN "RDAI" ELSE "THREI"]
    /\ UNCHANGED <<rigid, phase, held, dev, pc, copy, user, history>>

irq_inb ==
    /\ h.pc = "inb"
    /\ h' = [h EXCEPT !.pc = "outb", !.ier = inb_IER]
    /\ UNCHANGED <<rigid, phase, held, dev, pc, copy, user, history>>

(* The interrupt that came is disabled.                                    *)
irq_mask_keeps_it(s) == s
irq_mask(s) == s \ {h.cause}

irq_outb ==
    /\ h.pc = "outb"
    /\ ier' = outb_IER(irq_mask(h.ier))
    /\ h' = [h EXCEPT !.pc = IF h.cause = "RDAI" THEN "drain" ELSE "send", !.ier = {}]
    /\ UNCHANGED <<rigid, phase, held, dlab, fifo, read_buffer, read_ready, write, write_buffer,
                   write_ready, pc, copy, user, history>>

(* One round of the loop that empties the FIFO; under DLAB the data port   *)
(* yields the divisor and the byte stays.                                  *)
irq_drain ==
    /\ h.pc = "drain"
    /\ IF fifo = <<>>
       THEN /\ h' = [h EXCEPT !.pc = "ready"]
            /\ UNCHANGED <<fifo, read_buffer>>
       ELSE /\ Len(delivered \o read_buffer) < MaxArrive     \* bound of the model
            /\ read_buffer' = Append(read_buffer, IF dlab THEN Junk ELSE Head(fifo))
            /\ fifo' = IF dlab THEN fifo ELSE Tail(fifo)
            /\ UNCHANGED h
    /\ UNCHANGED <<rigid, phase, held, ier, dlab, read_ready, write, write_buffer, write_ready,
                   pc, copy, user, history>>

(* sent is the number of bytes that have gone out as long as these are the *)
(* bytes 1, 2, .. in this order, and Disorder from the first other one on. *)
Disorder == -1
transmit(b) == IF sent # Disorder /\ b = sent + 1 THEN b ELSE Disorder

(* One round of the loop that fills the FIFO from write_buffer.            *)
irq_send ==
    /\ h.pc = "send"
    /\ IF h.i < write
       THEN /\ h' = [h EXCEPT !.i = h.i + 1]
            /\ sent' = IF dlab THEN sent ELSE transmit(write_buffer[h.i + 1])
       ELSE /\ h' = [h EXCEPT !.pc = "ready"]
            /\ UNCHANGED sent
    /\ UNCHANGED <<rigid, phase, held, dev, pc, copy, user, arrived, delivered, written, interrupted>>

(* The waiting process is told: a flag and wake_up, or KeSetEvent.         *)
irq_ready ==
    /\ h.pc = "ready"
    /\ IF h.cause = "RDAI"
       THEN read_ready' = TRUE /\ UNCHANGED write_ready
       ELSE write_ready' = FALSE /\ UNCHANGED read_ready
    /\ h' = idle
    /\ UNCHANGED <<rigid, phase, held, ier, dlab, fifo, read_buffer, write, write_buffer,
                   pc, copy, user, history>>

handler == irq_start \/ irq_inb \/ irq_outb \/ irq_drain \/ irq_send \/ irq_ready

---------------------------------------------------------------------------
(* The processes. *)

(* Process p runs and moves from place `from' to place `to'.               *)
step(p, from, to) ==
    /\ phase = "open" /\ (smp \/ h.pc = "idle") /\ Active(p) /\ pc[p] = from
    /\ pc' = [pc EXCEPT ![p] = to]
    /\ UNCHANGED <<rigid, phase, held, h>>

alone(p) == use = "turns" => \A q \in Procs \ {p} : pc[q] = "idle"

(* The read-modify-write of ier that ends read() and write().              *)
inb(p) ==
    /\ step(p, "inb", "outb")
    /\ copy' = [copy EXCEPT ![p] = inb_IER]
    /\ UNCHANGED <<dev, user, history>>

outb(p, irq, to) ==
    /\ step(p, "outb", to)
    /\ ier' = outb_IER(copy[p] \cup {irq})
    /\ copy' = [copy EXCEPT ![p] = {}]
    /\ UNCHANGED <<dlab, fifo, read_buffer, read_ready, write, write_buffer, write_ready,
                   user, history>>

read_call ==
    /\ alone("reader") /\ step("reader", "idle", "wait")
    /\ UNCHANGED <<dev, copy, user, history>>

(* A Windows event is reset by the wait that it satisfies.                 *)
read_wait ==
    /\ read_ready /\ step("reader", "wait", "copy")
    /\ read_ready' = linux
    /\ UNCHANGED <<ier, dlab, fifo, read_buffer, write, write_buffer, write_ready, copy, user, history>>

(* -ERESTARTSYS, or a status other than STATUS_SUCCESS.                    *)
read_interrupted ==
    /\ step("reader", "wait", "idle")
    /\ UNCHANGED <<dev, copy, user, history>>

read_copy ==
    /\ step("reader", "copy", "reset")
    /\ user' = read_buffer
    /\ UNCHANGED <<dev, copy, history>>

(* copy_to_user fails: -EFAULT, and the bytes stay for the next read().    *)
read_fault ==
    /\ linux /\ step("reader", "copy", "idle")
    /\ UNCHANGED <<dev, copy, user, history>>

read_reset ==
    /\ step("reader", "reset", IF linux THEN "clear" ELSE "inb")
    /\ read_buffer' = <<>>
    /\ delivered' = delivered \o user /\ user' = <<>>
    /\ UNCHANGED <<ier, dlab, fifo, read_ready, write, write_buffer, write_ready,
                   copy, arrived, written, sent, interrupted>>

read_clear ==
    /\ step("reader", "clear", "inb")
    /\ read_ready' = FALSE
    /\ UNCHANGED <<ier, dlab, fifo, read_buffer, write, write_buffer, write_ready, copy, user, history>>

(* The end of read().                                                      *)
read_rearm_wrong_bit == outb("reader", "THREI", "idle")
read_rearm == outb("reader", "RDAI", "idle")

---------------------------------------------------------------------------
(* write() of n bytes accepts at most Fifo of them; Linux returns at once  *)
(* for none.                                                               *)
write_call ==
    /\ alone("writer")
    /\ \E n \in Sizes :
          LET result == IF n >= Fifo THEN Fifo ELSE n
          IN /\ linux => n # 0
             /\ written + result <= MaxWrite
             /\ write' = result
    /\ step("writer", "idle", "copy")
    /\ UNCHANGED <<ier, dlab, fifo, read_buffer, read_ready, write_buffer, write_ready, copy, user, history>>

write_copy ==
    /\ step("writer", "copy", IF linux THEN "ready" ELSE "wait")
    /\ write_buffer' = [i \in 1..Fifo |-> IF i <= write THEN written + i ELSE write_buffer[i]]
    /\ written' = written + write
    /\ UNCHANGED <<ier, dlab, fifo, read_buffer, read_ready, write, write_ready,
                   copy, user, arrived, delivered, sent, interrupted>>

(* copy_from_user fails after it has perhaps overwritten the buffer.       *)
write_fault ==
    /\ linux /\ step("writer", "copy", "idle")
    /\ write_buffer' = [i \in 1..Fifo |-> IF i <= write THEN Junk ELSE write_buffer[i]]
    /\ UNCHANGED <<ier, dlab, fifo, read_buffer, read_ready, write, write_ready, copy, user, history>>

write_set_ready ==
    /\ step("writer", "ready", "inb")
    /\ write_ready' = TRUE
    /\ UNCHANGED <<ier, dlab, fifo, read_buffer, read_ready, write, write_buffer, copy, user, history>>

(* Linux waits after it has enabled the interrupt, Windows before.         *)
write_rearm == outb("writer", "THREI", IF linux THEN "wait" ELSE "idle")

write_wait_not ==
    /\ step("writer", "wait", IF linux THEN "idle" ELSE "inb")
    /\ write_ready' = windows
    /\ UNCHANGED <<ier, dlab, fifo, read_buffer, read_ready, write, write_buffer, copy, user, history>>

write_wait ==
    /\ ~write_ready /\ step("writer", "wait", IF linux THEN "idle" ELSE "inb")
    /\ write_ready' = windows
    /\ UNCHANGED <<ier, dlab, fifo, read_buffer, read_ready, write, write_buffer, copy, user, history>>

(* A signal ends the wait; neither driver looks at the result.             *)
write_interrupted ==
    /\ step("writer", "wait", IF linux THEN "idle" ELSE "inb")
    /\ interrupted' = TRUE
    /\ UNCHANGED <<dev, copy, user, arrived, delivered, written, sent>>

---------------------------------------------------------------------------
(* ioctl: SET_LINE sets DLAB, writes the divisor and clears DLAB.          *)
SET_LINE_begin ==
    /\ step("setline", "idle", "copy")
    /\ dlab' = TRUE
    /\ UNCHANGED <<ier, fifo, read_buffer, read_ready, write, write_buffer, write_ready, copy, user, history>>

SET_LINE_end ==
    /\ step("setline", "copy", "idle")
    /\ dlab' = FALSE
    /\ UNCHANGED <<ier, fifo, read_buffer, read_ready, write, write_buffer, write_ready, copy, user, history>>

reading == read_wait \/ read_copy \/ read_reset \/ read_clear \/ inb("reader") \/ read_rearm
writing == write_copy \/ write_set_ready \/ inb("writer") \/ write_rearm \/ write_wait

Next ==
    \/ loading
    \/ arrive \/ handler
    \/ open \/ close
    \/ read_call \/ reading \/ read_interrupted \/ read_fault
    \/ write_call \/ writing \/ write_fault \/ write_interrupted
    \/ SET_LINE_begin \/ SET_LINE_end

(* The UART raises its interrupt line again and again, and a process that  *)
(* can run is scheduled; nobody has to call, and no byte has to arrive.    *)
Spec == Init /\ [][Next]_vars /\ WF_vars(handler) /\ WF_vars(reading) /\ WF_vars(writing)

---------------------------------------------------------------------------
(* Properties. *)

(* Every byte that arrives is given to a port that is only read exactly    *)
(* once and in order, whatever the interrupts hit: what the reader was     *)
(* given, what waits in dev->read_buffer and what is in the FIFO are, one  *)
(* after the other, the bytes that arrived (a read that is between its     *)
(* copy and its reset counts once).                                        *)
ReceivedOnce ==
    use = "reader" => delivered \o read_buffer \o fifo = [i \in 1..arrived |-> i]

(* The bytes that write() has accepted go out once and in order on Linux,  *)
(* and those of a write() that has returned have gone out: for one process *)
(* that writes, or that reads and writes in turns, while bytes arrive and  *)
(* until a signal interrupts a write().                                    *)
SentOnce ==
    (linux /\ use \in {"writer", "turns"} /\ ~interrupted) =>
        /\ sent \in 0..written
        /\ pc["writer"] = "idle" => sent = written

(* On one CPU a read() returns when a byte is there, and a write() returns *)
(* always, on both platforms, as long as one process at a time is in the   *)
(* driver: no wake-up is lost between the flags, the events and ier.       *)
TransfersReturn ==
    /\ (~smp /\ use \in {"reader", "turns"} /\ pc["reader"] = "wait" /\ fifo # <<>>)
          ~> (pc["reader"] # "wait")
    /\ (~smp /\ use \in {"writer", "turns"} /\ pc["writer"] # "idle")
          ~> (pc["writer"] = "idle")
=============================================================================
