-------------------------- MODULE SerialPortProofs --------------------------
(***************************************************************************)
(* The serial port drivers, for any FIFO size and any number of bytes, on  *)
(* one CPU and on several: the bytes that arrive are read once and in      *)
(* order, and the bytes written go out once and in order.                  *)
(*                                                                         *)
(* Nothing but the interrupt enable register keeps the handler away from   *)
(* the buffers.  Both invariants therefore say where the interrupt of the  *)
(* buffer can still come from: the register itself, the copy of it that    *)
(* the handler is about to write back, and those of the processes.         *)
(***************************************************************************)
EXTENDS SerialPort, SequenceTheorems, TLAPS

Irqs == {"RDAI", "THREI"}
Places == {"idle", "wait", "copy", "reset", "clear", "ready", "inb", "outb"}
HandlerPlaces == {"idle", "inb", "outb", "drain", "send", "ready"}
Handler == [pc : HandlerPlaces, cause : Irqs, ier : SUBSET Irqs, i : Nat]

ProcTypes == pc \in [Procs -> Places] /\ copy \in [Procs -> SUBSET Irqs] /\ ier \in SUBSET Irqs
HandlerTypes == h \in Handler
ReadTypes ==
    /\ fifo \in Seq(Nat) /\ read_buffer \in Seq(Nat) /\ user \in Seq(Nat) /\ delivered \in Seq(Nat)
    /\ arrived \in Nat
WriteTypes ==
    /\ write \in 0..Fifo /\ write_buffer \in [1..Fifo -> Int] /\ written \in Nat
    /\ platform \in {"linux", "windows"}
Types == ProcTypes /\ HandlerTypes /\ ReadTypes /\ WriteTypes

(* Before the driver is loaded nothing happens.                            *)
DownInv ==
    phase = "down" => /\ h = idle /\ pc = [p \in Procs |-> "idle"] /\ ~read_ready
                      /\ copy = [p \in Procs |-> {}]

(* The interrupt irq cannot come: it is disabled, it is not being handled, *)
(* and the handler is not about to enable it again.                        *)
Off(irq) ==
    /\ irq \notin ier
    /\ h.pc # "idle" => h.cause # irq
    /\ h.pc = "outb" => irq \notin h.ier

(* The handler is where its cause takes it.                                *)
HandlerInv ==
    /\ h.pc = "drain" => h.cause = "RDAI"
    /\ h.pc = "send" => h.cause = "THREI"
    /\ h.pc # "send" /\ ~(h.pc = "ready" /\ h.cause = "THREI") => h.i = 0

(* It has disabled the interrupt when it comes to the buffer.              *)
Masked(irq) == h.pc \in {"drain", "send", "ready"} /\ h.cause = irq => irq \notin ier

(* Nobody configures the line.                                             *)
LineInv == use # "setline" => ~dlab

---------------------------------------------------------------------------
(* A port that is only read. *)

(* Once the handler has signalled the buffer, and until read() enables the *)
(* interrupt again, no byte is added to it.                                *)
ReadPart ==
    /\ Masked("RDAI")
    /\ read_ready \/ pc["reader"] \in {"copy", "reset", "clear", "inb", "outb"} => Off("RDAI")
    /\ pc["reader"] = "outb" => "RDAI" \notin copy["reader"]
    /\ pc["reader"] \in {"inb", "outb"} => ~read_ready
    /\ windows /\ pc["reader"] \in {"copy", "reset"} => ~read_ready
    /\ user = IF pc["reader"] = "reset" THEN read_buffer ELSE <<>>

ReadInv == use = "reader" => ReadPart

---------------------------------------------------------------------------
(* A port that is written, and perhaps read in turns (Linux). *)

WriteUse == linux /\ use \in {"writer", "turns"} /\ ~interrupted

(* The bytes in write_buffer are those that write() has accepted last.     *)
Filled == \A i \in 1..write : write_buffer[i] = written - write + i

(* The handler is at the transmitter for the write() that waits.           *)
Sending == h.pc \in {"send", "ready"} /\ h.cause = "THREI"

(* The interrupt can come only to a write() that waits for it.             *)
WriteOff ==
    /\ Masked("THREI")
    /\ pc["writer"] # "wait" \/ ~write_ready => Off("THREI")
    /\ pc["writer"] \in {"inb", "outb"} => write_ready
    /\ \A p \in Procs : "THREI" \notin copy[p]

(* One process is in the driver.                                           *)
WriteAlone ==
    /\ pc["writer"] \in Places \ {"reset", "clear"}
    /\ pc["reader"] # "idle" => pc["writer"] = "idle" /\ use = "turns"

(* How far the bytes have gone out: those of the last write() are pending  *)
(* until the handler sends them.                                           *)
Pending == Filled /\ write <= written

WriteSent ==
    /\ pc["writer"] \in {"idle", "copy"} => sent = written
    /\ pc["writer"] \in {"ready", "inb", "outb"} => Pending /\ sent = written - write
    /\ pc["writer"] = "wait" /\ ~write_ready => sent = written
    /\ pc["writer"] = "wait" /\ write_ready =>
          /\ Pending /\ h.i <= write
          /\ Sending => sent = written - write + h.i
          /\ ~Sending => sent = written - write
          /\ h.pc = "ready" /\ h.cause = "THREI" => h.i = write
    /\ pc["writer"] = "wait" => write <= written

WriteInv == WriteUse => WriteOff /\ WriteAlone /\ WriteSent

Inv == Types /\ DownInv /\ HandlerInv /\ LineInv /\ ReadInv /\ WriteInv /\ ReceivedOnce

---------------------------------------------------------------------------
(* The steps of the handler and of the processes. *)

LEMMA IrqStart ==
  ASSUME HandlerTypes, irq_start
  PROVE  /\ h' \in Handler /\ h.pc = "idle" /\ h'.pc = "inb" /\ h'.cause \in ier /\ h'.ier = h.ier /\ h'.i = h.i
         /\ UNCHANGED <<rigid, phase, held, dev, pc, copy, user, history>>
<1>1. h \in Handler /\ h.pc = "idle" /\ UNCHANGED <<rigid, phase, held, dev, pc, copy, user, history>>
  BY DEF HandlerTypes, irq_start
<1>2. CASE received
  <2>1. h' = [h EXCEPT !.pc = "inb", !.cause = "RDAI"] /\ "RDAI" \in ier
    BY <1>2 DEF irq_start, received
  <2>2. QED
    BY <1>1, <2>1 DEF Handler, HandlerPlaces, Irqs
<1>3. CASE ~received
  <2>1. h' = [h EXCEPT !.pc = "inb", !.cause = "THREI"] /\ "THREI" \in ier
    BY <1>3 DEF irq_start, empty
  <2>2. QED
    BY <1>1, <2>1 DEF Handler, HandlerPlaces, Irqs
<1>4. QED
  BY <1>2, <1>3

LEMMA IrqInb ==
  ASSUME HandlerTypes, ier \in SUBSET Irqs, irq_inb
  PROVE  /\ h' \in Handler /\ h.pc = "inb" /\ h'.pc = "outb" /\ h'.cause = h.cause /\ h'.i = h.i
         /\ ~dlab => h'.ier = ier
         /\ UNCHANGED <<rigid, phase, held, dev, pc, copy, user, history>>
<1>1. h \in Handler /\ h' = [h EXCEPT !.pc = "outb", !.ier = inb_IER] /\ h.pc = "inb"
      /\ UNCHANGED <<rigid, phase, held, dev, pc, copy, user, history>>
  BY DEF HandlerTypes, irq_inb
<1>2. inb_IER \in SUBSET Irqs /\ (~dlab => inb_IER = ier)
  BY DEF inb_IER
<1>3. QED
  BY <1>1, <1>2 DEF Handler, HandlerPlaces

LEMMA IrqOutb ==
  ASSUME HandlerTypes, ier \in SUBSET Irqs, irq_outb
  PROVE  /\ h' \in Handler /\ h.pc = "outb" /\ h'.cause = h.cause /\ h'.i = h.i
         /\ h'.pc = IF h.cause = "RDAI" THEN "drain" ELSE "send"
         /\ ier' \in SUBSET Irqs
         /\ ~dlab => ier' = h.ier \ {h.cause}
         /\ UNCHANGED <<rigid, phase, held, dlab, fifo, read_buffer, read_ready, write, write_buffer,
                        write_ready, pc, copy, user, history>>
<1>1. /\ h \in Handler /\ h.pc = "outb" /\ ier' = outb_IER(irq_mask(h.ier))
      /\ h' = [h EXCEPT !.pc = IF h.cause = "RDAI" THEN "drain" ELSE "send", !.ier = {}]
      /\ UNCHANGED <<rigid, phase, held, dlab, fifo, read_buffer, read_ready, write, write_buffer,
                     write_ready, pc, copy, user, history>>
  BY DEF HandlerTypes, irq_outb
<1>2. h.ier \in SUBSET Irqs
  BY <1>1 DEF Handler
<1>3. ier' \in SUBSET Irqs /\ (~dlab => ier' = h.ier \ {h.cause})
  BY <1>1, <1>2 DEF outb_IER, irq_mask
<1>4. QED
  BY <1>1, <1>3 DEF Handler, HandlerPlaces

LEMMA IrqDrain ==
  ASSUME HandlerTypes, irq_drain
  PROVE  /\ h' \in Handler /\ h.pc = "drain" /\ h'.cause = h.cause /\ h'.i = h.i /\ h'.ier = h.ier
         /\ \/ fifo = <<>> /\ h'.pc = "ready" /\ UNCHANGED <<fifo, read_buffer>>
            \/ /\ fifo # <<>> /\ h' = h
               /\ read_buffer' = Append(read_buffer, IF dlab THEN Junk ELSE Head(fifo))
               /\ fifo' = IF dlab THEN fifo ELSE Tail(fifo)
         /\ UNCHANGED <<rigid, phase, held, ier, dlab, read_ready, write, write_buffer, write_ready,
                        pc, copy, user, history>>
<1>1. h \in Handler /\ h.pc = "drain"
      /\ UNCHANGED <<rigid, phase, held, ier, dlab, read_ready, write, write_buffer, write_ready,
                     pc, copy, user, history>>
  BY DEF HandlerTypes, irq_drain
<1>2. CASE fifo = <<>>
  <2>1. h' = [h EXCEPT !.pc = "ready"] /\ UNCHANGED <<fifo, read_buffer>>
    BY <1>2 DEF irq_drain
  <2>2. QED
    BY <1>1, <1>2, <2>1 DEF Handler, HandlerPlaces
<1>3. CASE fifo # <<>>
  BY <1>1, <1>3 DEF irq_drain
<1>4. QED
  BY <1>2, <1>3

LEMMA IrqSend ==
  ASSUME HandlerTypes, irq_send
  PROVE  /\ h' \in Handler /\ h.pc = "send" /\ h'.cause = h.cause /\ h'.ier = h.ier
         /\ \/ /\ h.i < write /\ h'.i = h.i + 1 /\ h'.pc = "send"
               /\ sent' = IF dlab THEN sent ELSE transmit(write_buffer[h.i + 1])
            \/ ~(h.i < write) /\ h'.i = h.i /\ h'.pc = "ready" /\ sent' = sent
         /\ UNCHANGED <<rigid, phase, held, dev, pc, copy, user, arrived, delivered, written, interrupted>>
<1>1. h \in Handler /\ h.pc = "send"
      /\ UNCHANGED <<rigid, phase, held, dev, pc, copy, user, arrived, delivered, written, interrupted>>
  BY DEF HandlerTypes, irq_send
<1>2. CASE h.i < write
  <2>1. h' = [h EXCEPT !.i = h.i + 1] /\ sent' = IF dlab THEN sent ELSE transmit(write_buffer[h.i + 1])
    BY <1>2 DEF irq_send
  <2>2. QED
    BY <1>1, <1>2, <2>1 DEF Handler, HandlerPlaces
<1>3. CASE ~(h.i < write)
  <2>1. h' = [h EXCEPT !.pc = "ready"] /\ sent' = sent
    BY <1>3 DEF irq_send
  <2>2. QED
    BY <1>1, <1>3, <2>1 DEF Handler, HandlerPlaces
<1>4. QED
  BY <1>2, <1>3

LEMMA IdleFacts == idle \in Handler /\ idle.pc = "idle" /\ idle.i = 0 /\ idle.ier = {}
BY DEF idle, Handler, HandlerPlaces, Irqs

LEMMA IrqReady ==
  ASSUME irq_ready
  PROVE  /\ h' \in Handler /\ h.pc = "ready" /\ h'.pc = "idle" /\ h'.i = 0
         /\ IF h.cause = "RDAI" THEN read_ready' = TRUE /\ UNCHANGED write_ready
                                ELSE write_ready' = FALSE /\ UNCHANGED read_ready
         /\ UNCHANGED <<rigid, phase, held, ier, dlab, fifo, read_buffer, write, write_buffer,
                        pc, copy, user, history>>
BY IdleFacts DEF irq_ready

(* A process that moves.                                                   *)
LEMMA Moves ==
  ASSUME ProcTypes, NEW p \in Procs, NEW from, NEW to \in Places, step(p, from, to)
  PROVE  /\ pc' \in [Procs -> Places] /\ pc[p] = from /\ pc'[p] = to
         /\ \A q \in Procs : q # p => pc'[q] = pc[q]
         /\ Active(p) /\ phase = "open" /\ UNCHANGED <<rigid, phase, held, h>>
BY DEF ProcTypes, step

(* Who uses the port.                                                      *)
LEMMA Users ==
  /\ Active("writer") <=> use \in {"writer", "turns", "together"}
  /\ Active("setline") <=> use = "setline"
  /\ Active("reader") <=> use # "writer"
BY DEF Active

---------------------------------------------------------------------------
(* Types. *)

ReadSteps == read_call \/ reading \/ read_interrupted \/ read_fault
WriteSteps == write_call \/ writing \/ write_fault \/ write_interrupted
LineSteps == SET_LINE_begin \/ SET_LINE_end

LEMMA ProcNames == "reader" \in Procs /\ "writer" \in Procs /\ "setline" \in Procs
BY DEF Procs

LEMMA ToPlaces ==
  /\ "idle" \in Places /\ "wait" \in Places /\ "copy" \in Places /\ "reset" \in Places /\ "clear" \in Places
  /\ "ready" \in Places /\ "inb" \in Places /\ "outb" \in Places
BY DEF Places

(* Reading and enabling an interrupt, by a process.                        *)
LEMMA Inb ==
  ASSUME ProcTypes, NEW p \in Procs, inb(p)
  PROVE  /\ ProcTypes' /\ step(p, "inb", "outb") /\ UNCHANGED <<dev, user, history>>
         /\ copy'[p] = inb_IER /\ \A q \in Procs : q # p => copy'[q] = copy[q]
<1>1. inb_IER \in SUBSET Irqs
  BY DEF inb_IER, ProcTypes
<1>2. step(p, "inb", "outb") /\ copy' = [copy EXCEPT ![p] = inb_IER] /\ UNCHANGED <<dev, user, history>>
  BY DEF inb
<1>3. pc' \in [Procs -> Places]
  BY <1>2, Moves, ToPlaces
<1>4. QED
  BY <1>1, <1>2, <1>3 DEF ProcTypes, dev

LEMMA Outb ==
  ASSUME ProcTypes, NEW p \in Procs, NEW irq \in Irqs, NEW to \in Places, outb(p, irq, to)
  PROVE  /\ ProcTypes' /\ step(p, "outb", to)
         /\ ~dlab => ier' = copy[p] \cup {irq}
         /\ copy'[p] = {} /\ \A q \in Procs : q # p => copy'[q] = copy[q]
         /\ UNCHANGED <<dlab, fifo, read_buffer, read_ready, write, write_buffer, write_ready, user, history>>
<1>1. /\ step(p, "outb", to) /\ ier' = outb_IER(copy[p] \cup {irq}) /\ copy' = [copy EXCEPT ![p] = {}]
      /\ UNCHANGED <<dlab, fifo, read_buffer, read_ready, write, write_buffer, write_ready, user, history>>
  BY DEF outb
<1>2. ier' \in SUBSET Irqs /\ (~dlab => ier' = copy[p] \cup {irq})
  BY <1>1 DEF outb_IER, ProcTypes
<1>3. pc' \in [Procs -> Places]
  BY <1>1, Moves
<1>4. QED
  BY <1>1, <1>2, <1>3 DEF ProcTypes

LEMMA ProcTypesKept ==
  ASSUME ProcTypes, NEW p \in Procs, NEW from, NEW to \in Places, step(p, from, to), UNCHANGED <<copy, ier>>
  PROVE  ProcTypes'
BY Moves DEF ProcTypes

LEMMA ProcTypesStep == Types /\ [Next]_vars => ProcTypes'
<1> SUFFICES ASSUME Types, [Next]_vars PROVE ProcTypes'
  OBVIOUS
<1>0. ProcTypes /\ HandlerTypes /\ ier \in SUBSET Irqs
  BY DEF Types, ProcTypes
<1> USE ProcNames, ToPlaces
<1>1. CASE loading
  <2>1. ier' \in SUBSET Irqs /\ UNCHANGED <<pc, copy>>
    BY <1>0, <1>1 DEF loading, do_requests, do_requests_fails, unload, release_all, Irqs
  <2>2. QED
    BY <1>0, <2>1 DEF ProcTypes
<1>2. CASE arrive \/ open \/ close \/ UNCHANGED vars
  <2>1. UNCHANGED <<pc, copy, ier>>
    BY <1>2 DEF arrive, open, close, vars, dev
  <2>2. QED
    BY <1>0, <2>1 DEF ProcTypes
<1>3. CASE handler
  <2>1. ier' \in SUBSET Irqs /\ UNCHANGED <<pc, copy>>
    BY <1>0, <1>3, IrqOutb DEF handler, irq_start, irq_inb, irq_drain, irq_send, irq_ready, irq_outb, dev
  <2>2. QED
    BY <1>0, <2>1 DEF ProcTypes
<1>4. CASE ReadSteps
  <2>1. CASE inb("reader")
    BY <1>0, <2>1, Inb
  <2>2. CASE read_rearm
    BY <1>0, <2>2, Outb DEF read_rearm, Irqs
  <2>3. CASE read_call \/ read_wait \/ read_interrupted \/ read_copy \/ read_fault \/ read_reset \/ read_clear
    <3>1. \E from, to \in Places : step("reader", from, to) /\ UNCHANGED <<copy, ier>>
      BY <2>3 DEF read_call, read_wait, read_interrupted, read_copy, read_fault, read_reset, read_clear, dev
    <3>2. QED
      BY <1>0, <3>1, ProcTypesKept
  <2>4. QED
    BY <1>4, <2>1, <2>2, <2>3 DEF ReadSteps, reading
<1>5. CASE WriteSteps
  <2>1. CASE inb("writer")
    BY <1>0, <2>1, Inb
  <2>2. CASE write_rearm
    BY <1>0, <2>2, Outb DEF write_rearm, Irqs
  <2>3. CASE write_call \/ write_copy \/ write_fault \/ write_set_ready \/ write_wait \/ write_interrupted
    <3>1. \E from, to \in Places : step("writer", from, to) /\ UNCHANGED <<copy, ier>>
      BY <2>3 DEF write_call, write_copy, write_fault, write_set_ready, write_wait, write_interrupted, dev
    <3>2. QED
      BY <1>0, <3>1, ProcTypesKept
  <2>4. QED
    BY <1>5, <2>1, <2>2, <2>3 DEF WriteSteps, writing
<1>6. CASE LineSteps
  <2>1. \E from, to \in Places : step("setline", from, to) /\ UNCHANGED <<copy, ier>>
    BY <1>6 DEF LineSteps, SET_LINE_begin, SET_LINE_end
  <2>2. QED
    BY <1>0, <2>1, ProcTypesKept
<1>7. QED
  BY <1>1, <1>2, <1>3, <1>4, <1>5, <1>6 DEF Next, ReadSteps, WriteSteps, LineSteps

(* What the steps of each actor leave alone.                               *)
LEMMA HandlerFrame ==
  ASSUME handler
  PROVE  UNCHANGED <<rigid, phase, held, dlab, write, write_buffer, pc, copy, user, arrived, delivered,
                     written, interrupted>>
<1>1. CASE irq_start \/ irq_inb
  BY <1>1 DEF irq_start, irq_inb, dev, history
<1>2. CASE irq_outb \/ irq_drain
  BY <1>2 DEF irq_outb, irq_drain, history
<1>3. CASE irq_send \/ irq_ready
  BY <1>3 DEF irq_send, irq_ready, dev, history
<1>4. QED
  BY <1>1, <1>2, <1>3 DEF handler

LEMMA ReadFrame ==
  ASSUME ReadSteps
  PROVE  UNCHANGED <<rigid, phase, held, h, dlab, fifo, write, write_buffer, write_ready, arrived, written,
                     sent, interrupted>>
<1>1. CASE read_call \/ read_wait \/ read_interrupted \/ read_copy \/ read_fault
  BY <1>1 DEF read_call, read_wait, read_interrupted, read_copy, read_fault, step, dev, history
<1>2. CASE read_reset \/ read_clear \/ inb("reader") \/ read_rearm
  BY <1>2 DEF read_reset, read_clear, inb, read_rearm, outb, step, dev, history
<1>3. QED
  BY <1>1, <1>2 DEF ReadSteps, reading

LEMMA WriteFrame ==
  ASSUME WriteSteps
  PROVE  UNCHANGED <<rigid, phase, held, h, dlab, fifo, read_buffer, read_ready, user, arrived, delivered, sent>>
<1>1. CASE write_call \/ write_copy \/ write_fault \/ write_set_ready
  BY <1>1 DEF write_call, write_copy, write_fault, write_set_ready, step, dev, history
<1>2. CASE write_wait \/ write_interrupted \/ inb("writer") \/ write_rearm
  BY <1>2 DEF write_wait, write_interrupted, inb, write_rearm, outb, step, dev, history
<1>3. QED
  BY <1>1, <1>2 DEF WriteSteps, writing

LEMMA LineFrame ==
  ASSUME LineSteps
  PROVE  UNCHANGED <<rigid, phase, held, h, ier, fifo, read_buffer, read_ready, write, write_buffer, write_ready,
                     copy, user, history>>
BY DEF LineSteps, SET_LINE_begin, SET_LINE_end, step

(* Loading, opening and the arrival of a byte.                             *)
LoadSteps == loading \/ open \/ close \/ arrive \/ UNCHANGED vars

LEMMA LoadFrame ==
  ASSUME LoadSteps
  PROVE  UNCHANGED <<rigid, h, dlab, read_buffer, read_ready, write, write_buffer, pc, copy, user, delivered,
                     written, sent, interrupted>>
<1>1. CASE loading
  BY <1>1 DEF loading, do_requests, do_requests_fails, unload, history
<1>2. CASE open \/ close \/ arrive
  BY <1>2 DEF open, close, arrive, dev, history
<1>3. CASE UNCHANGED vars
  BY <1>3 DEF vars, dev, history
<1>4. QED
  BY <1>1, <1>2, <1>3 DEF LoadSteps

LEMMA NextSteps ==
  ASSUME [Next]_vars
  PROVE  LoadSteps \/ handler \/ ReadSteps \/ WriteSteps \/ LineSteps
BY DEF Next, LoadSteps, ReadSteps, WriteSteps, LineSteps

LEMMA HandlerTypesStep == Types /\ [Next]_vars => HandlerTypes'
<1> SUFFICES ASSUME Types, [Next]_vars PROVE HandlerTypes'
  OBVIOUS
<1>0. HandlerTypes /\ ier \in SUBSET Irqs
  BY DEF Types, ProcTypes
<1>1. CASE handler
  <2>1. h' \in Handler
    BY <1>0, <1>1, IrqStart, IrqInb, IrqOutb, IrqDrain, IrqSend, IrqReady DEF handler
  <2>2. QED
    BY <2>1 DEF HandlerTypes
<1>2. CASE ~handler
  <2>1. h' = h
    BY <1>2, NextSteps, LoadFrame, ReadFrame, WriteFrame, LineFrame
  <2>2. QED
    BY <1>0, <2>1 DEF HandlerTypes
<1>3. QED
  BY <1>1, <1>2

LEMMA ReadTypesStep == Types /\ [Next]_vars => ReadTypes'
<1> SUFFICES ASSUME Types, [Next]_vars PROVE ReadTypes'
  OBVIOUS
<1>0. /\ fifo \in Seq(Nat) /\ read_buffer \in Seq(Nat) /\ user \in Seq(Nat) /\ delivered \in Seq(Nat)
      /\ arrived \in Nat /\ HandlerTypes
  BY DEF Types, ReadTypes
<1>1. CASE LoadSteps
  <2>1. \/ UNCHANGED <<fifo, arrived>>
        \/ arrived' = arrived + 1 /\ fifo' = Append(fifo, arrived + 1)
    BY <1>1 DEF LoadSteps, loading, open, close, arrive, do_requests, do_requests_fails, unload, vars, dev, history
  <2>2. \A v \in Nat : Append(fifo, v) \in Seq(Nat)
    BY <1>0, AppendProperties
  <2>a. arrived + 1 \in Nat
    BY <1>0
  <2>b. fifo' \in Seq(Nat) /\ arrived' \in Nat
    BY <1>0, <2>1, <2>2, <2>a, Zenon
  <2>3. QED
    BY <1>0, <1>1, <2>b, LoadFrame DEF ReadTypes
<1>2. CASE handler
  <2>1. CASE irq_drain
    <3>1. \/ UNCHANGED <<fifo, read_buffer>>
          \/ /\ fifo # <<>>
             /\ read_buffer' = Append(read_buffer, IF dlab THEN Junk ELSE Head(fifo))
             /\ fifo' = IF dlab THEN fifo ELSE Tail(fifo)
      BY <1>0, <2>1, IrqDrain
    <3>2. fifo # <<>> => Head(fifo) \in Nat /\ Tail(fifo) \in Seq(Nat)
      BY <1>0, HeadTailProperties
    <3>a. \A v \in Nat : Append(read_buffer, v) \in Seq(Nat)
      BY <1>0, AppendProperties
    <3>b. fifo # <<>> => (IF dlab THEN Junk ELSE Head(fifo)) \in Nat
      BY <3>2 DEF Junk
    <3>3. fifo' \in Seq(Nat) /\ read_buffer' \in Seq(Nat)
      BY <1>0, <3>1, <3>2, <3>a, <3>b, Zenon
    <3>4. QED
      BY <1>0, <1>2, <3>3, HandlerFrame DEF ReadTypes
  <2>2. CASE irq_start \/ irq_inb \/ irq_outb \/ irq_send \/ irq_ready
    <3>1. UNCHANGED <<fifo, read_buffer>>
      BY <2>2 DEF irq_start, irq_inb, irq_outb, irq_send, irq_ready, dev
    <3>2. QED
      BY <1>0, <1>2, <3>1, HandlerFrame DEF ReadTypes
  <2>3. QED
    BY <1>2, <2>1, <2>2 DEF handler
<1>3. CASE ReadSteps
  <2>1. CASE read_copy
    <3>1. user' = read_buffer /\ UNCHANGED <<read_buffer, delivered>>
      BY <2>1 DEF read_copy, dev, history
    <3>2. QED
      BY <1>0, <1>3, <3>1, ReadFrame DEF ReadTypes
  <2>2. CASE read_reset
    <3>1. user' = <<>> /\ read_buffer' = <<>> /\ delivered' = delivered \o user
      BY <2>2 DEF read_reset
    <3>2. delivered' \in Seq(Nat) /\ <<>> \in Seq(Nat)
      BY <1>0, <3>1, ConcatProperties, EmptySeq
    <3>3. QED
      BY <1>0, <1>3, <3>1, <3>2, ReadFrame DEF ReadTypes
  <2>3. CASE read_call \/ read_wait \/ read_interrupted \/ read_fault \/ read_clear \/ inb("reader") \/ read_rearm
    <3>1. UNCHANGED <<read_buffer, user, delivered>>
      BY <2>3 DEF read_call, read_wait, read_interrupted, read_fault, read_clear, inb, read_rearm, outb, dev, history
    <3>2. QED
      BY <1>0, <1>3, <3>1, ReadFrame DEF ReadTypes
  <2>4. QED
    BY <1>3, <2>1, <2>2, <2>3 DEF ReadSteps, reading
<1>4. CASE WriteSteps
  BY <1>0, <1>4, WriteFrame DEF ReadTypes
<1>5. CASE LineSteps
  BY <1>0, <1>5, LineFrame DEF ReadTypes, history
<1>6. QED
  BY <1>1, <1>2, <1>3, <1>4, <1>5, NextSteps

LEMMA WriteTypesStep == Types /\ [Next]_vars => WriteTypes'
<1> SUFFICES ASSUME Types, [Next]_vars PROVE WriteTypes'
  OBVIOUS
<1>0. /\ write \in 0..Fifo /\ write_buffer \in [1..Fifo -> Int] /\ written \in Nat
      /\ platform \in {"linux", "windows"} /\ Fifo \in Nat
  BY FifoAssumption DEF Types, WriteTypes
<1>1. CASE LoadSteps
  BY <1>0, <1>1, LoadFrame DEF WriteTypes, rigid
<1>2. CASE handler
  BY <1>0, <1>2, HandlerFrame DEF WriteTypes, rigid
<1>3. CASE ReadSteps
  BY <1>0, <1>3, ReadFrame DEF WriteTypes, rigid
<1>4. CASE WriteSteps
  <2>1. platform' = platform
    BY <1>4, WriteFrame DEF rigid
  <2>2. CASE write_call
    <3>1. PICK n \in Sizes : write' = IF n >= Fifo THEN Fifo ELSE n
      BY <2>2 DEF write_call
    <3>2. write' \in 0..Fifo
      BY <1>0, <3>1, SizesAssumption
    <3>3. UNCHANGED <<write_buffer, written>>
      BY <2>2 DEF write_call, history
    <3>4. QED
      BY <1>0, <2>1, <3>2, <3>3 DEF WriteTypes
  <2>3. CASE write_copy
    <3>1. /\ write_buffer' = [i \in 1..Fifo |-> IF i <= write THEN written + i ELSE write_buffer[i]]
          /\ written' = written + write /\ write' = write
      BY <2>3 DEF write_copy
    <3>2. write_buffer' \in [1..Fifo -> Int] /\ written' \in Nat
      BY <1>0, <3>1
    <3>3. QED
      BY <1>0, <2>1, <3>1, <3>2 DEF WriteTypes
  <2>4. CASE write_fault
    <3>1. /\ write_buffer' = [i \in 1..Fifo |-> IF i <= write THEN Junk ELSE write_buffer[i]]
          /\ written' = written /\ write' = write
      BY <2>4 DEF write_fault, history
    <3>2. write_buffer' \in [1..Fifo -> Int]
      BY <1>0, <3>1 DEF Junk
    <3>3. QED
      BY <1>0, <2>1, <3>1, <3>2 DEF WriteTypes
  <2>5. CASE write_set_ready \/ write_wait \/ write_interrupted \/ inb("writer") \/ write_rearm
    <3>1. UNCHANGED <<write, write_buffer, written>>
      BY <2>5 DEF write_set_ready, write_wait, write_interrupted, inb, write_rearm, outb, dev, history
    <3>2. QED
      BY <1>0, <2>1, <3>1 DEF WriteTypes
  <2>6. QED
    BY <1>4, <2>2, <2>3, <2>4, <2>5 DEF WriteSteps, writing
<1>5. CASE LineSteps
  BY <1>0, <1>5, LineFrame DEF WriteTypes, rigid, history
<1>6. QED
  BY <1>1, <1>2, <1>3, <1>4, <1>5, NextSteps

LEMMA TypesStep == Types /\ [Next]_vars => Types'
BY ProcTypesStep, HandlerTypesStep, ReadTypesStep, WriteTypesStep DEF Types

---------------------------------------------------------------------------
(* Loading, the handler and the line. *)

(* A process runs only while the port is open.                             *)
LEMMA OnlyWhenOpen ==
  ASSUME ReadSteps \/ WriteSteps \/ LineSteps
  PROVE  phase = "open"
<1>1. CASE ReadSteps
  BY <1>1 DEF ReadSteps, reading, read_call, read_wait, read_interrupted, read_copy, read_fault, read_reset,
              read_clear, inb, read_rearm, outb, step
<1>2. CASE WriteSteps
  BY <1>2 DEF WriteSteps, writing, write_call, write_copy, write_fault, write_set_ready, write_wait,
              write_interrupted, inb, write_rearm, outb, step
<1>3. CASE LineSteps
  BY <1>3 DEF LineSteps, SET_LINE_begin, SET_LINE_end, step
<1>4. QED
  BY <1>1, <1>2, <1>3

LEMMA DownStep == Types /\ DownInv /\ [Next]_vars => DownInv'
<1> SUFFICES ASSUME DownInv, [Next]_vars, phase' = "down"
             PROVE  phase = "down" /\ UNCHANGED <<h, pc, read_ready, copy>>
  BY DEF DownInv, idle
<1>1. CASE LoadSteps
  <2>1. phase = "down"
    BY <1>1 DEF LoadSteps, loading, do_requests, do_requests_fails, unload, open, close, arrive, vars
  <2>2. QED
    BY <1>1, <2>1, LoadFrame
<1>2. CASE handler
  <2>1. phase = "down"
    BY <1>2, HandlerFrame
  <2>2. h.pc = "idle"
    BY <2>1, IdleFacts DEF DownInv
  <2>3. QED
    BY <1>2, <2>1, <2>2 DEF handler, irq_start, irq_inb, irq_outb, irq_drain, irq_send, irq_ready
<1>3. CASE ReadSteps \/ WriteSteps \/ LineSteps
  BY <1>3, OnlyWhenOpen, ReadFrame, WriteFrame, LineFrame
<1>4. QED
  BY <1>1, <1>2, <1>3, NextSteps

LEMMA HandlerStep == Types /\ HandlerInv /\ [Next]_vars => HandlerInv'
<1> SUFFICES ASSUME Types, HandlerInv, [Next]_vars PROVE HandlerInv'
  OBVIOUS
<1>0. HandlerTypes /\ ier \in SUBSET Irqs /\ h.cause \in Irqs
  BY DEF Types, ProcTypes, HandlerTypes, Handler
<1>1. CASE irq_start
  BY <1>0, <1>1, IrqStart DEF HandlerInv
<1>2. CASE irq_inb
  BY <1>0, <1>2, IrqInb DEF HandlerInv
<1>3. CASE irq_outb
  BY <1>0, <1>3, IrqOutb DEF HandlerInv, Irqs
<1>4. CASE irq_drain
  BY <1>0, <1>4, IrqDrain DEF HandlerInv
<1>5. CASE irq_send
  BY <1>0, <1>5, IrqSend DEF HandlerInv
<1>6. CASE irq_ready
  BY <1>6, IrqReady DEF HandlerInv
<1>7. CASE ~handler
  <2>1. h' = h
    BY <1>7, NextSteps, LoadFrame, ReadFrame, WriteFrame, LineFrame
  <2>2. QED
    BY <2>1 DEF HandlerInv
<1>8. QED
  BY <1>1, <1>2, <1>3, <1>4, <1>5, <1>6, <1>7 DEF handler

LEMMA LineStep == Types /\ LineInv /\ [Next]_vars => LineInv'
<1> SUFFICES ASSUME LineInv, [Next]_vars, use' # "setline" PROVE ~dlab'
  BY DEF LineInv
<1>1. CASE LineSteps
  <2>1. Active("setline") /\ use' = use
    BY <1>1 DEF LineSteps, SET_LINE_begin, SET_LINE_end, step, rigid
  <2>2. QED
    BY <2>1, Users
<1>2. CASE ~LineSteps
  <2>1. dlab' = dlab /\ use' = use
    BY <1>2, NextSteps, LoadFrame, HandlerFrame, ReadFrame, WriteFrame DEF rigid
  <2>2. QED
    BY <2>1 DEF LineInv
<1>3. QED
  BY <1>1, <1>2

(* What the handler leaves disabled stays disabled.                        *)
LEMMA StaysOff ==
  ASSUME Types, NEW irq, ~dlab, handler, Off(irq)
  PROVE  Off(irq)'
<1>0. HandlerTypes /\ ier \in SUBSET Irqs
  BY DEF Types, ProcTypes
<1>1. CASE irq_start
  <2>1. h'.pc = "inb" /\ h'.cause \in ier /\ ier' = ier
    BY <1>0, <1>1, IrqStart DEF dev
  <2>2. QED
    BY <2>1 DEF Off
<1>2. CASE irq_inb
  <2>1. h.pc = "inb" /\ h'.pc = "outb" /\ h'.cause = h.cause /\ h'.ier = ier /\ ier' = ier
    BY <1>0, <1>2, IrqInb DEF dev
  <2>2. QED
    BY <2>1 DEF Off
<1>3. CASE irq_outb
  <2>1. h.pc = "outb" /\ h'.pc \in {"drain", "send"} /\ h'.cause = h.cause /\ ier' = h.ier \ {h.cause}
    BY <1>0, <1>3, IrqOutb
  <2>2. QED
    BY <2>1 DEF Off
<1>4. CASE irq_drain
  <2>1. h.pc = "drain" /\ h'.pc \in {"drain", "ready"} /\ h'.cause = h.cause /\ ier' = ier
    BY <1>0, <1>4, IrqDrain
  <2>2. QED
    BY <2>1 DEF Off
<1>5. CASE irq_send
  <2>1. h.pc = "send" /\ h'.pc \in {"send", "ready"} /\ h'.cause = h.cause /\ ier' = ier
    BY <1>0, <1>5, IrqSend DEF dev
  <2>2. QED
    BY <2>1 DEF Off
<1>6. CASE irq_ready
  <2>1. h'.pc = "idle" /\ ier' = ier
    BY <1>6, IrqReady
  <2>2. QED
    BY <2>1 DEF Off
<1>7. QED
  BY <1>1, <1>2, <1>3, <1>4, <1>5, <1>6 DEF handler

(* What it handles is disabled.                                            *)
LEMMA StaysMasked ==
  ASSUME Types, NEW irq, ~dlab, handler, Masked(irq)
  PROVE  Masked(irq)'
<1>0. HandlerTypes /\ ier \in SUBSET Irqs
  BY DEF Types, ProcTypes
<1>1. CASE irq_start
  <2>1. h'.pc = "inb"
    BY <1>0, <1>1, IrqStart
  <2>2. QED
    BY <2>1 DEF Masked
<1>2. CASE irq_inb
  <2>1. h'.pc = "outb"
    BY <1>0, <1>2, IrqInb
  <2>2. QED
    BY <2>1 DEF Masked
<1>3. CASE irq_outb
  <2>1. h'.cause = h.cause /\ ier' = h.ier \ {h.cause}
    BY <1>0, <1>3, IrqOutb
  <2>2. QED
    BY <2>1 DEF Masked
<1>4. CASE irq_drain
  <2>1. h.pc = "drain" /\ h'.cause = h.cause /\ ier' = ier
    BY <1>0, <1>4, IrqDrain
  <2>2. QED
    BY <2>1 DEF Masked
<1>5. CASE irq_send
  <2>1. h.pc = "send" /\ h'.cause = h.cause /\ ier' = ier
    BY <1>0, <1>5, IrqSend DEF dev
  <2>2. QED
    BY <2>1 DEF Masked
<1>6. CASE irq_ready
  <2>1. h'.pc = "idle"
    BY <1>6, IrqReady
  <2>2. QED
    BY <2>1 DEF Masked
<1>7. QED
  BY <1>1, <1>2, <1>3, <1>4, <1>5, <1>6 DEF handler

(* Loading alone enables an interrupt outside the handler and the          *)
(* processes, before any of them runs.                                     *)
LEMMA LoadEnables ==
  ASSUME LoadSteps, linux
  PROVE  \/ phase = "down" /\ ier' = {"RDAI"} /\ write_ready' = FALSE
         \/ ier' \subseteq ier /\ write_ready' = write_ready
<1>1. CASE do_requests
  BY <1>1 DEF do_requests, linux, windows
<1>2. CASE do_requests_fails \/ unload
  BY <1>2 DEF do_requests_fails, unload, release_all, linux, windows
<1>3. CASE open \/ close \/ arrive \/ UNCHANGED vars
  BY <1>3 DEF open, close, arrive, vars, dev
<1>4. QED
  BY <1>1, <1>2, <1>3 DEF LoadSteps, loading

LEMMA LoadsDown ==
  ASSUME LoadSteps
  PROVE  phase = "down" \/ ier' \subseteq ier
<1>1. CASE do_requests
  BY <1>1 DEF do_requests
<1>2. CASE do_requests_fails \/ unload
  BY <1>2 DEF do_requests_fails, unload, release_all
<1>3. CASE open \/ close \/ arrive \/ UNCHANGED vars
  BY <1>3 DEF open, close, arrive, vars, dev
<1>4. QED
  BY <1>1, <1>2, <1>3 DEF LoadSteps, loading

---------------------------------------------------------------------------
(* A port that is only read. *)

LEMMA ReadHandler ==
  ASSUME Types, HandlerInv, ~dlab, ReadPart, handler
  PROVE  ReadPart'
<1>0. HandlerTypes /\ ier \in SUBSET Irqs
  BY DEF Types, ProcTypes
<1>1. UNCHANGED <<pc, copy, user, platform>> /\ Masked("RDAI")'
  BY HandlerFrame, StaysMasked DEF rigid, ReadPart
<1>2. CASE irq_ready
  <2>1. /\ h.pc = "ready" /\ h'.pc = "idle" /\ ier' = ier /\ read_buffer' = read_buffer
        /\ h.cause # "RDAI" => read_ready' = read_ready
    BY <1>2, IrqReady
  <2>2. CASE h.cause = "RDAI"
    <3>1. Off("RDAI")'
      BY <2>1, <2>2 DEF ReadPart, Masked, Off
    <3>2. ~(pc["reader"] \in {"copy", "reset", "clear", "inb", "outb"})
      BY <2>1, <2>2 DEF ReadPart, Off
    <3>3. QED
      BY <1>1, <2>1, <3>1, <3>2 DEF ReadPart
  <2>3. CASE h.cause # "RDAI"
    <3>1. Off("RDAI") => Off("RDAI")'
      BY StaysOff
    <3>2. QED
      BY <1>1, <2>1, <2>3, <3>1 DEF ReadPart, windows
  <2>4. QED
    BY <2>2, <2>3
<1>3. CASE ~irq_ready
  <2>1. read_ready' = read_ready
    BY <1>3 DEF handler, irq_start, irq_inb, irq_outb, irq_drain, irq_send, dev
  <2>2. Off("RDAI") => Off("RDAI")'
    BY StaysOff
  <2>3. Off("RDAI") => read_buffer' = read_buffer
    <3>1. Off("RDAI") => ~irq_drain
      BY <1>0, IrqDrain DEF Off, HandlerInv
    <3>2. ~irq_drain => read_buffer' = read_buffer
      BY DEF handler, irq_start, irq_inb, irq_outb, irq_send, irq_ready, dev
    <3>3. QED
      BY <3>1, <3>2
  <2>4. QED
    BY <1>1, <2>1, <2>2, <2>3 DEF ReadPart, windows
<1>4. QED
  BY <1>2, <1>3

LEMMA ReadReader ==
  ASSUME Types, ~dlab, ReadPart, ReadSteps
  PROVE  ReadPart'
<1>0. ProcTypes /\ platform \in {"linux", "windows"} /\ UNCHANGED <<h, platform>>
  BY ReadFrame DEF Types, WriteTypes, rigid
<1> USE ProcNames, ToPlaces
<1>1. CASE read_call \/ read_interrupted
  <2>1. pc'["reader"] \in {"wait", "idle"} /\ pc["reader"] \in {"wait", "idle"} /\ UNCHANGED <<dev, copy, user>>
    BY <1>0, <1>1, Moves DEF read_call, read_interrupted
  <2>2. QED
    BY <1>0, <2>1 DEF ReadPart, Masked, Off, dev
<1>2. CASE read_wait
  <2>1. /\ read_ready /\ pc'["reader"] = "copy" /\ pc["reader"] = "wait" /\ read_ready' = linux
        /\ UNCHANGED <<ier, read_buffer, copy, user>>
    BY <1>0, <1>2, Moves DEF read_wait
  <2>2. QED
    BY <1>0, <2>1 DEF ReadPart, Masked, Off, linux, windows
<1>3. CASE read_copy
  <2>1. /\ pc'["reader"] = "reset" /\ pc["reader"] = "copy" /\ user' = read_buffer
        /\ UNCHANGED <<ier, read_ready, read_buffer, copy>>
    BY <1>0, <1>3, Moves DEF read_copy, dev
  <2>2. QED
    BY <1>0, <2>1 DEF ReadPart, Masked, Off, windows
<1>4. CASE read_fault
  <2>1. pc'["reader"] = "idle" /\ pc["reader"] = "copy" /\ UNCHANGED <<dev, copy, user>>
    BY <1>0, <1>4, Moves DEF read_fault
  <2>2. QED
    BY <1>0, <2>1 DEF ReadPart, Masked, Off, dev
<1>5. CASE read_reset
  <2>1. /\ pc["reader"] = "reset" /\ pc'["reader"] = (IF linux THEN "clear" ELSE "inb") /\ user' = <<>>
        /\ UNCHANGED <<ier, read_ready, copy>>
    BY <1>0, <1>5, Moves DEF read_reset
  <2>2. QED
    BY <1>0, <2>1 DEF ReadPart, Masked, Off, linux, windows
<1>6. CASE read_clear
  <2>1. /\ pc["reader"] = "clear" /\ pc'["reader"] = "inb" /\ read_ready' = FALSE
        /\ UNCHANGED <<ier, copy, user>>
    BY <1>0, <1>6, Moves DEF read_clear
  <2>2. QED
    BY <1>0, <2>1 DEF ReadPart, Masked, Off
<1>7. CASE inb("reader")
  <2>1. pc["reader"] = "inb" /\ pc'["reader"] = "outb" /\ copy'["reader"] = ier /\ UNCHANGED <<dev, user>>
    BY <1>0, <1>7, Inb, Moves DEF inb_IER
  <2>2. QED
    BY <1>0, <2>1 DEF ReadPart, Masked, Off, dev
<1>8. CASE read_rearm
  <2>1. /\ pc["reader"] = "outb" /\ pc'["reader"] = "idle" /\ ier' = copy["reader"] \cup {"RDAI"}
        /\ UNCHANGED <<read_ready, user>>
    BY <1>0, <1>8, Outb, Moves DEF read_rearm, Irqs
  <2>2. QED
    BY <1>0, <2>1 DEF ReadPart, Masked, Off
<1>9. QED
  BY <1>1, <1>2, <1>3, <1>4, <1>5, <1>6, <1>7, <1>8 DEF ReadSteps, reading

LEMMA OnlyReader ==
  ASSUME use = "reader", [Next]_vars
  PROVE  LoadSteps \/ handler \/ ReadSteps
<1>1. WriteSteps => Active("writer")
  BY DEF WriteSteps, writing, write_call, write_copy, write_fault, write_set_ready, write_wait,
         write_interrupted, inb, write_rearm, outb, step
<1>2. LineSteps => Active("setline")
  BY DEF LineSteps, SET_LINE_begin, SET_LINE_end, step
<1>3. QED
  BY <1>1, <1>2, Users, NextSteps

LEMMA ReadLoad ==
  ASSUME Types, DownInv, ReadPart, LoadSteps
  PROVE  ReadPart'
<1>1. UNCHANGED <<h, platform, read_buffer, read_ready, pc, copy, user>>
  BY LoadFrame DEF rigid
<1>2. CASE ier' \subseteq ier
  BY <1>1, <1>2 DEF ReadPart, Masked, Off, windows
<1>3. CASE phase = "down"
  <2>1. h.pc = "idle" /\ pc["reader"] = "idle" /\ ~read_ready
    BY <1>3, IdleFacts, ProcNames DEF DownInv
  <2>2. QED
    BY <1>1, <2>1 DEF ReadPart, Masked, Off
<1>4. QED
  BY <1>2, <1>3, LoadsDown

LEMMA ReadStep == Types /\ DownInv /\ HandlerInv /\ LineInv /\ ReadInv /\ [Next]_vars => ReadInv'
<1> SUFFICES ASSUME Types, DownInv, HandlerInv, LineInv, ReadInv, [Next]_vars PROVE ReadInv'
  OBVIOUS
<1>1. use' = use
  BY NextSteps, LoadFrame, HandlerFrame, ReadFrame, WriteFrame, LineFrame DEF rigid
<1>2. CASE use = "reader"
  <2>1. ~dlab /\ ReadPart
    BY <1>2 DEF LineInv, ReadInv
  <2>2. ReadPart'
    BY <1>2, <2>1, OnlyReader, ReadLoad, ReadHandler, ReadReader
  <2>3. QED
    BY <2>2 DEF ReadInv
<1>3. CASE use # "reader"
  BY <1>1, <1>3 DEF ReadInv
<1>4. QED
  BY <1>2, <1>3

(* Moving a byte from the front of one sequence to the end of another.     *)
LEMMA AppendToConcat ==
  ASSUME NEW a \in Seq(Nat), NEW b \in Seq(Nat), NEW v \in Nat
  PROVE  a \o Append(b, v) = Append(a \o b, v)
<1>1. <<v>> \in Seq(Nat) /\ a \o b \in Seq(Nat)
  BY ConcatProperties
<1>2. Append(b, v) = b \o <<v>> /\ Append(a \o b, v) = (a \o b) \o <<v>>
  BY <1>1, AppendIsConcat
<1>3. (a \o b) \o <<v>> = a \o (b \o <<v>>)
  BY <1>1, ConcatAssociative
<1>4. QED
  BY <1>2, <1>3

LEMMA HeadAndTail ==
  ASSUME NEW f \in Seq(Nat), f # <<>>
  PROVE  <<Head(f)>> \o Tail(f) = f
<1> DEFINE x == Head(f)
           t == Tail(f)
<1>1. x \in Nat /\ t \in Seq(Nat) /\ Len(t) = Len(f) - 1 /\ \A i \in 1..Len(t) : t[i] = f[i + 1]
  BY HeadTailProperties
<1>2. Len(f) \in Nat /\ Len(f) # 0 /\ x = f[1]
  BY EmptySeq
<1>3. <<x>> \in Seq(Nat) /\ Len(<<x>>) = 1 /\ <<x>>[1] = x
  BY <1>1
<1> HIDE DEF x, t
<1>4. /\ <<x>> \o t \in Seq(Nat) /\ Len(<<x>> \o t) = 1 + Len(t)
      /\ \A i \in 1..1 + Len(t) : (<<x>> \o t)[i] = IF i <= 1 THEN <<x>>[i] ELSE t[i - 1]
  BY <1>1, <1>3, ConcatProperties
<1>5. \A i \in 1..Len(f) : (<<x>> \o t)[i] = f[i]
  <2> TAKE i \in 1..Len(f)
  <2>1. CASE i = 1
    BY <1>1, <1>2, <1>3, <1>4, <2>1
  <2>2. CASE i # 1
    <3>1. i - 1 \in 1..Len(t) /\ (i - 1) + 1 = i
      BY <1>1, <1>2, <2>2
    <3>2. t[i - 1] = f[i]
      BY <1>1, <3>1
    <3>3. QED
      BY <1>1, <1>2, <1>4, <2>2, <3>2
  <2>3. QED
    BY <2>1, <2>2
<1> DEFINE g == <<x>> \o t
<1>a. g \in Seq(Nat) /\ Len(g) = 1 + Len(t) /\ \A i \in 1..Len(f) : g[i] = f[i]
  BY <1>4, <1>5
<1> HIDE DEF g
<1>b. Len(g) = Len(f) /\ \A i \in 1..Len(g) : g[i] = f[i]
  BY <1>1, <1>2, <1>a
<1>c. g = f
  BY <1>a, <1>b, SeqEqual, Zenon
<1>6. <<x>> \o t = f
  BY <1>c DEF g
<1>7. QED
  BY <1>6 DEF x, t

LEMMA AppendThenRest ==
  ASSUME NEW c \in Seq(Nat), NEW x \in Nat, NEW t \in Seq(Nat)
  PROVE  Append(c, x) \o t = c \o (<<x>> \o t)
<1>1. <<x>> \in Seq(Nat) /\ Append(c, x) = c \o <<x>>
  BY AppendIsConcat
<1>2. (c \o <<x>>) \o t = c \o (<<x>> \o t)
  BY <1>1, ConcatAssociative
<1>3. QED
  BY <1>1, <1>2

LEMMA MoveByte ==
  ASSUME NEW a \in Seq(Nat), NEW b \in Seq(Nat), NEW f \in Seq(Nat), f # <<>>
  PROVE  (a \o Append(b, Head(f))) \o Tail(f) = (a \o b) \o f
<1>1. Head(f) \in Nat /\ Tail(f) \in Seq(Nat) /\ a \o b \in Seq(Nat)
  BY HeadTailProperties, ConcatProperties
<1>2. a \o Append(b, Head(f)) = Append(a \o b, Head(f))
  BY <1>1, AppendToConcat
<1>3. Append(a \o b, Head(f)) \o Tail(f) = (a \o b) \o (<<Head(f)>> \o Tail(f))
  BY <1>1, AppendThenRest
<1>4. QED
  BY <1>2, <1>3, HeadAndTail

(* The first n bytes, and one more.                                        *)
FirstBytes(n) == [i \in 1..n |-> i]

LEMMA OneMoreByte ==
  ASSUME NEW n \in Nat
  PROVE  FirstBytes(n) \in Seq(Nat) /\ Append(FirstBytes(n), n + 1) = FirstBytes(n + 1)
<1>1. FirstBytes(n) \in Seq(Nat) /\ Len(FirstBytes(n)) = n /\ \A i \in 1..n : FirstBytes(n)[i] = i
  BY DEF FirstBytes
<1>2. FirstBytes(n + 1) \in Seq(Nat) /\ Len(FirstBytes(n + 1)) = n + 1
      /\ \A i \in 1..n + 1 : FirstBytes(n + 1)[i] = i
  BY DEF FirstBytes
<1> DEFINE s == Append(FirstBytes(n), n + 1)
<1>3. s \in Seq(Nat) /\ Len(s) = n + 1 /\ (\A i \in 1..n : s[i] = FirstBytes(n)[i]) /\ s[n + 1] = n + 1
  BY <1>1, AppendProperties
<1> HIDE DEF s
<1>4. \A i \in 1..n + 1 : s[i] = FirstBytes(n + 1)[i]
  BY <1>1, <1>2, <1>3
<1>5. s = FirstBytes(n + 1)
  BY <1>2, <1>3, <1>4, SeqEqual
<1>6. QED
  BY <1>1, <1>5 DEF s

LEMMA ReceivedStep ==
  Types /\ LineInv /\ ReadInv /\ ReceivedOnce /\ [Next]_vars => ReceivedOnce'
<1> SUFFICES ASSUME Types, LineInv, ReadInv, ReceivedOnce, [Next]_vars, use' = "reader"
             PROVE  ((delivered \o read_buffer) \o fifo)' = FirstBytes(arrived')
  BY DEF ReceivedOnce, FirstBytes
<1>0. /\ fifo \in Seq(Nat) /\ read_buffer \in Seq(Nat) /\ user \in Seq(Nat) /\ delivered \in Seq(Nat)
      /\ arrived \in Nat /\ HandlerTypes /\ ProcTypes
  BY DEF Types, ReadTypes
<1>a. use = "reader"
  BY NextSteps, LoadFrame, HandlerFrame, ReadFrame, WriteFrame, LineFrame DEF rigid
<1>b. (delivered \o read_buffer) \o fifo = FirstBytes(arrived) /\ ~dlab /\ ReadPart
  BY <1>a DEF ReceivedOnce, FirstBytes, LineInv, ReadInv
<1>c. delivered \o read_buffer \in Seq(Nat)
  BY <1>0, ConcatProperties
<1>1. CASE arrive
  <2>1. arrived' = arrived + 1 /\ fifo' = Append(fifo, arrived + 1) /\ UNCHANGED <<delivered, read_buffer>>
    BY <1>1 DEF arrive
  <2>2. arrived + 1 \in Nat
    BY <1>0
  <2>3. (delivered \o read_buffer) \o Append(fifo, arrived + 1)
           = Append((delivered \o read_buffer) \o fifo, arrived + 1)
    BY <1>0, <1>c, <2>2, AppendToConcat
  <2>4. QED
    BY <1>0, <1>b, <2>1, <2>3, OneMoreByte
<1>2. CASE irq_drain /\ fifo # <<>>
  <2>1. /\ read_buffer' = Append(read_buffer, Head(fifo)) /\ fifo' = Tail(fifo)
        /\ UNCHANGED <<delivered, arrived>>
    BY <1>0, <1>2, <1>b, IrqDrain DEF history
  <2>2. QED
    BY <1>0, <1>2, <1>b, <2>1, MoveByte
<1>3. CASE read_reset
  <2>1. /\ read_buffer' = <<>> /\ delivered' = delivered \o user /\ pc["reader"] = "reset"
        /\ UNCHANGED <<fifo, arrived>>
    BY <1>3 DEF read_reset, step
  <2>2. user = read_buffer
    BY <1>b, <2>1 DEF ReadPart
  <2>3. (delivered \o user) \o <<>> = delivered \o read_buffer
    BY <1>c, <2>2, ConcatEmptySeq
  <2>4. QED
    BY <1>b, <2>1, <2>3
<1>4. CASE ~arrive /\ ~(irq_drain /\ fifo # <<>>) /\ ~read_reset
  <2>1. UNCHANGED <<delivered, read_buffer, fifo, arrived>>
    <3>1. CASE LoadSteps
      BY <1>4, <3>1, LoadFrame DEF LoadSteps, loading, do_requests, do_requests_fails, unload, open, close, vars,
                                   dev, history
    <3>2. CASE irq_drain
      BY <1>0, <1>4, <3>2, IrqDrain DEF history
    <3>3. CASE irq_start \/ irq_inb \/ irq_outb \/ irq_send \/ irq_ready
      BY <3>3 DEF irq_start, irq_inb, irq_outb, irq_send, irq_ready, dev, history
    <3>4. CASE ReadSteps
      BY <1>4, <3>4 DEF ReadSteps, reading, read_call, read_wait, read_interrupted, read_copy, read_fault,
                        read_clear, inb, read_rearm, outb, dev, history
    <3>5. QED
      BY <1>a, <3>1, <3>2, <3>3, <3>4, OnlyReader DEF handler
  <2>2. QED
    BY <1>b, <2>1
<1>5. QED
  BY <1>1, <1>2, <1>3, <1>4

---------------------------------------------------------------------------
(* A port that is written. *)

WriteState == Types /\ HandlerInv /\ ~dlab /\ WriteUse /\ WriteOff /\ WriteAlone /\ WriteSent

LEMMA WriteHandler ==
  ASSUME WriteState, handler
  PROVE  WriteOff' /\ WriteAlone' /\ WriteSent'
<1>0. /\ Types /\ HandlerTypes /\ ier \in SUBSET Irqs /\ h.i \in Nat /\ h.cause \in Irqs /\ ~dlab
      /\ write \in 0..Fifo /\ written \in Nat /\ Fifo \in Nat
  BY FifoAssumption DEF WriteState, Types, ProcTypes, HandlerTypes, Handler, WriteTypes
<1>1. UNCHANGED <<pc, copy, use, write, write_buffer, written>> /\ Masked("THREI")'
  BY <1>0, HandlerFrame, StaysMasked DEF rigid, WriteState, WriteOff
<1>2. Off("THREI") => Off("THREI")'
  BY <1>0, StaysOff
<1>3. WriteAlone' /\ (Pending => Pending')
  BY <1>1 DEF WriteState, WriteAlone, Pending, Filled
<1>4. HandlerInv /\ WriteOff /\ WriteSent
  BY DEF WriteState
<1>5. CASE irq_ready /\ h.cause = "THREI"
  <2>1. /\ h.pc = "ready" /\ h'.pc = "idle" /\ ier' = ier /\ sent' = sent /\ write_ready' = FALSE
    BY <1>5, IrqReady DEF history
  <2>2. pc["writer"] = "wait" /\ write_ready
    BY <1>4, <1>5, <2>1 DEF WriteOff, Off
  <2>3. sent = written /\ write <= written
    BY <1>0, <1>4, <1>5, <2>1, <2>2 DEF WriteSent, Sending
  <2>4. Off("THREI")'
    BY <1>4, <1>5, <2>1 DEF WriteOff, Masked, Off
  <2>5. WriteOff'
    BY <1>1, <1>4, <2>1, <2>2, <2>4 DEF WriteOff
  <2>6. WriteSent'
    BY <1>1, <2>1, <2>2, <2>3 DEF WriteSent
  <2>7. QED
    BY <1>3, <2>5, <2>6
<1>6. CASE irq_send
  <2>1. /\ h.pc = "send" /\ h'.cause = h.cause /\ UNCHANGED write_ready
        /\ \/ /\ h.i < write /\ h'.i = h.i + 1 /\ h'.pc = "send"
              /\ sent' = transmit(write_buffer[h.i + 1])
           \/ ~(h.i < write) /\ h'.i = h.i /\ h'.pc = "ready" /\ sent' = sent
    BY <1>0, <1>6, IrqSend DEF dev
  <2>2. h.cause = "THREI" /\ Sending
    BY <1>4, <2>1 DEF HandlerInv, Sending
  <2>3. pc["writer"] = "wait" /\ write_ready
    BY <1>4, <2>1, <2>2 DEF WriteOff, Off
  <2>4. sent = written - write + h.i /\ write <= written /\ h.i <= write /\ Filled /\ Pending
    BY <1>4, <2>2, <2>3 DEF WriteSent, Pending
  <2>5. h.i < write => sent' = written - write + (h.i + 1)
    <3>1. SUFFICES ASSUME h.i < write PROVE sent' = written - write + (h.i + 1)
      OBVIOUS
    <3>2. h.i + 1 \in 1..write /\ sent # Disorder
      BY <1>0, <2>4, <3>1 DEF Disorder
    <3>3. write_buffer[h.i + 1] = written - write + (h.i + 1)
      BY <2>4, <3>2 DEF Filled
    <3>4. transmit(write_buffer[h.i + 1]) = write_buffer[h.i + 1]
      BY <1>0, <2>4, <3>2, <3>3 DEF transmit
    <3>5. QED
      BY <2>1, <3>1, <3>3, <3>4
  <2>6. Sending' /\ h'.i <= write /\ sent' = written - write + h'.i /\ (h'.pc = "ready" => h'.i = write)
    BY <1>0, <2>1, <2>2, <2>4, <2>5 DEF Sending
  <2>7. WriteSent'
    BY <1>1, <1>3, <2>1, <2>3, <2>4, <2>6 DEF WriteSent
  <2>8. WriteOff'
    BY <1>1, <1>2, <1>4, <2>1, <2>3 DEF WriteOff
  <2>9. QED
    BY <1>3, <2>7, <2>8
<1>7. CASE ~irq_send /\ ~(irq_ready /\ h.cause = "THREI")
  <2>1. UNCHANGED <<write_ready, sent>>
    <3>1. CASE irq_start \/ irq_inb
      BY <3>1 DEF irq_start, irq_inb, dev, history
    <3>2. CASE irq_outb \/ irq_drain
      BY <3>2 DEF irq_outb, irq_drain, history
    <3>3. CASE irq_ready
      BY <1>0, <1>7, <3>3, IrqReady DEF history, Irqs
    <3>4. QED
      BY <1>7, <3>1, <3>2, <3>3 DEF handler
  <2>2. WriteOff'
    BY <1>1, <1>2, <1>4, <2>1 DEF WriteOff
  <2>3. h.i = 0 /\ h'.i = 0 /\ (~Sending) /\ (h'.pc = "ready" => h'.cause # "THREI")
    <3>1. CASE irq_start
      BY <1>0, <1>4, <3>1, IrqStart DEF HandlerInv, Sending
    <3>2. CASE irq_inb
      BY <1>0, <1>4, <3>2, IrqInb DEF HandlerInv, Sending
    <3>3. CASE irq_outb
      BY <1>0, <1>4, <3>3, IrqOutb DEF HandlerInv, Sending
    <3>4. CASE irq_drain
      BY <1>0, <1>4, <3>4, IrqDrain DEF HandlerInv, Sending
    <3>5. CASE irq_ready
      BY <1>0, <1>4, <1>7, <3>5, IrqReady DEF HandlerInv, Sending
    <3>6. QED
      BY <1>7, <3>1, <3>2, <3>3, <3>4, <3>5 DEF handler
  <2>4. WriteSent'
    BY <1>0, <1>1, <1>3, <1>4, <2>1, <2>3 DEF WriteSent
  <2>5. QED
    BY <1>3, <2>2, <2>4
<1>8. QED
  BY <1>5, <1>6, <1>7

LEMMA WriteLoad ==
  ASSUME DownInv, WriteState, LoadSteps
  PROVE  WriteOff' /\ WriteAlone' /\ WriteSent'
<1>0. WriteOff /\ WriteAlone /\ WriteSent /\ linux
  BY DEF WriteState, WriteUse
<1>1. UNCHANGED <<h, use, write, write_buffer, pc, copy, written, sent>>
  BY LoadFrame DEF rigid
<1>2. WriteAlone' /\ (Pending' <=> Pending) /\ (Sending' <=> Sending)
  BY <1>0, <1>1 DEF WriteAlone, Pending, Filled, Sending
<1>3. CASE ier' \subseteq ier /\ write_ready' = write_ready
  <2>1. WriteOff'
    BY <1>0, <1>1, <1>3 DEF WriteOff, Masked, Off
  <2>2. WriteSent'
    BY <1>0, <1>1, <1>2, <1>3 DEF WriteSent
  <2>3. QED
    BY <1>2, <2>1, <2>2
<1>4. CASE phase = "down" /\ ier' = {"RDAI"} /\ write_ready' = FALSE
  <2>1. h.pc = "idle" /\ pc["writer"] = "idle"
    BY <1>4, IdleFacts, ProcNames DEF DownInv
  <2>2. WriteOff'
    BY <1>0, <1>1, <1>4, <2>1 DEF WriteOff, Masked, Off
  <2>3. WriteSent'
    BY <1>0, <1>1, <2>1 DEF WriteSent
  <2>4. QED
    BY <1>2, <2>2, <2>3
<1>5. QED
  BY <1>0, <1>3, <1>4, LoadEnables

(* read(), of the process that also writes.                                *)
LEMMA WriteReader ==
  ASSUME WriteState, ReadSteps
  PROVE  WriteOff' /\ WriteAlone' /\ WriteSent'
<1> USE ProcNames, ToPlaces
<1>0. WriteOff /\ WriteAlone /\ WriteSent /\ ProcTypes /\ ~dlab /\ use \in {"writer", "turns"}
  BY DEF WriteState, WriteUse, Types
<1>1. UNCHANGED <<h, use, write, write_buffer, write_ready, written, sent>>
  BY ReadFrame DEF rigid
<1>2. \E from, to \in Places : step("reader", from, to)
  BY DEF ReadSteps, reading, read_call, read_wait, read_interrupted, read_copy, read_fault, read_reset,
         read_clear, inb, read_rearm, outb
<1>3. pc'["writer"] = pc["writer"] /\ Active("reader") /\ "writer" # "reader"
  BY <1>0, <1>2, Moves
<1>4. use = "turns"
  BY <1>0, <1>3, Users
<1>5. pc["writer"] = "idle"
  <2>1. CASE read_call
    BY <1>4, <2>1 DEF read_call, alone, Procs
  <2>2. CASE ~read_call
    <3>1. pc["reader"] # "idle"
      BY <2>2 DEF ReadSteps, reading, read_wait, read_interrupted, read_copy, read_fault, read_reset,
                  read_clear, inb, read_rearm, outb, step
    <3>2. QED
      BY <1>0, <3>1 DEF WriteAlone
  <2>3. QED
    BY <2>1, <2>2
<1>6. WriteAlone' /\ WriteSent'
  BY <1>0, <1>1, <1>3, <1>4, <1>5 DEF WriteAlone, WriteSent
<1>7. Off("THREI")
  BY <1>0, <1>5 DEF WriteOff
<1>8. CASE inb("reader")
  <2>1. copy'["reader"] = ier /\ (\A q \in Procs : q # "reader" => copy'[q] = copy[q]) /\ ier' = ier
    BY <1>0, <1>8, Inb DEF inb_IER, dev
  <2>2. WriteOff'
    BY <1>0, <1>1, <1>3, <1>5, <1>7, <2>1 DEF WriteOff, Masked, Off
  <2>3. QED
    BY <1>6, <2>2
<1>9. CASE read_rearm
  <2>1. /\ copy'["reader"] = {} /\ (\A q \in Procs : q # "reader" => copy'[q] = copy[q])
        /\ ier' = copy["reader"] \cup {"RDAI"}
    BY <1>0, <1>9, Outb DEF read_rearm, Irqs
  <2>2. WriteOff'
    BY <1>0, <1>1, <1>3, <1>5, <1>7, <2>1 DEF WriteOff, Masked, Off
  <2>3. QED
    BY <1>6, <2>2
<1>10. CASE ~inb("reader") /\ ~read_rearm
  <2>1. UNCHANGED <<copy, ier>>
    BY <1>10 DEF ReadSteps, reading, read_call, read_wait, read_interrupted, read_copy, read_fault, read_reset,
         read_clear, dev
  <2>2. WriteOff'
    BY <1>0, <1>1, <1>3, <1>5, <1>7, <2>1 DEF WriteOff, Masked, Off
  <2>3. QED
    BY <1>6, <2>2
<1>11. QED
  BY <1>8, <1>9, <1>10

(* write() itself.                                                         *)
LEMMA WriteWriter ==
  ASSUME WriteState, WriteSteps, ~interrupted'
  PROVE  WriteOff' /\ WriteAlone' /\ WriteSent'
<1> USE ProcNames, ToPlaces
<1>0. /\ WriteOff /\ WriteAlone /\ WriteSent /\ ProcTypes /\ ~dlab /\ use \in {"writer", "turns"} /\ linux /\ ~windows
      /\ HandlerInv
  BY DEF WriteState, WriteUse, Types, linux, windows
<1>t. /\ write \in 0..Fifo /\ written \in Nat /\ Fifo \in Nat /\ h.i \in Nat /\ write_buffer \in [1..Fifo -> Int]
  BY FifoAssumption DEF WriteState, Types, WriteTypes, HandlerTypes, Handler
<1>1. UNCHANGED <<h, use, sent>>
  BY WriteFrame DEF rigid
<1>2. \E from, to \in Places : step("writer", from, to)
  BY DEF WriteSteps, writing, write_call, write_copy, write_fault, write_set_ready, write_wait,
         write_interrupted, inb, write_rearm, outb
<1>3. pc'["reader"] = pc["reader"]
  BY <1>0, <1>2, Moves
<1>4. pc["reader"] = "idle"
  <2>1. CASE write_call
    <3>1. use = "turns" => pc["reader"] = "idle"
      BY <2>1 DEF write_call, alone, Procs
    <3>2. QED
      BY <1>0, <3>1 DEF WriteAlone
  <2>2. CASE ~write_call
    <3>1. pc["writer"] # "idle"
      BY <2>2 DEF WriteSteps, writing, write_copy, write_fault, write_set_ready, write_wait,
                  write_interrupted, inb, write_rearm, outb, step
    <3>2. QED
      BY <1>0, <3>1 DEF WriteAlone
  <2>3. QED
    BY <2>1, <2>2
<1>5. ASSUME pc'["writer"] \in Places \ {"reset", "clear"} PROVE WriteAlone'
  BY <1>3, <1>4, <1>5 DEF WriteAlone
<1>6. CASE write_call
  <2>1. pc["writer"] = "idle" /\ pc'["writer"] = "copy" /\ UNCHANGED <<ier, write_ready, copy, written>>
    BY <1>0, <1>6, Moves DEF write_call, history
  <2>2. WriteOff'
    BY <1>0, <1>1, <2>1 DEF WriteOff, Masked, Off
  <2>3. WriteSent'
    BY <1>0, <1>1, <2>1 DEF WriteSent
  <2>4. QED
    BY <1>5, <2>1, <2>2, <2>3 DEF Places
<1>7. CASE write_copy
  <2>1. /\ pc["writer"] = "copy" /\ pc'["writer"] = "ready" /\ UNCHANGED <<ier, write, write_ready, copy>>
        /\ write_buffer' = [i \in 1..Fifo |-> IF i <= write THEN written + i ELSE write_buffer[i]]
        /\ written' = written + write
    BY <1>0, <1>7, Moves DEF write_copy
  <2>2. WriteOff'
    BY <1>0, <1>1, <2>1 DEF WriteOff, Masked, Off
  <2>3. \A i \in 1..write : write_buffer'[i] = written' - write' + i
    BY <1>t, <2>1
  <2>4. Pending' /\ sent' = written' - write'
    <3>1. sent = written
      BY <1>0, <2>1 DEF WriteSent
    <3>2. write' <= written' /\ written = written' - write'
      BY <1>t, <2>1
    <3>3. QED
      BY <1>1, <2>1, <2>3, <3>1, <3>2 DEF Pending, Filled
  <2>5. WriteSent'
    BY <2>1, <2>4 DEF WriteSent
  <2>6. QED
    BY <1>5, <2>1, <2>2, <2>5 DEF Places
<1>8. CASE write_fault
  <2>1. pc["writer"] = "copy" /\ pc'["writer"] = "idle" /\ UNCHANGED <<ier, write_ready, copy, written>>
    BY <1>0, <1>8, Moves DEF write_fault, history
  <2>2. WriteOff'
    BY <1>0, <1>1, <2>1 DEF WriteOff, Masked, Off
  <2>3. WriteSent'
    BY <1>0, <1>1, <2>1 DEF WriteSent
  <2>4. QED
    BY <1>5, <2>1, <2>2, <2>3 DEF Places
<1>9. CASE write_set_ready
  <2>1. /\ pc["writer"] = "ready" /\ pc'["writer"] = "inb" /\ write_ready' = TRUE
        /\ UNCHANGED <<ier, copy, written, write, write_buffer>>
    BY <1>0, <1>9, Moves DEF write_set_ready, history
  <2>2. WriteOff'
    BY <1>0, <1>1, <2>1 DEF WriteOff, Masked, Off
  <2>3. WriteSent'
    BY <1>0, <1>1, <2>1 DEF WriteSent, Pending, Filled
  <2>4. QED
    BY <1>5, <2>1, <2>2, <2>3 DEF Places
<1>10. CASE inb("writer")
  <2>1. /\ pc["writer"] = "inb" /\ pc'["writer"] = "outb" /\ copy'["writer"] = ier
        /\ (\A q \in Procs : q # "writer" => copy'[q] = copy[q])
        /\ UNCHANGED <<ier, written, write, write_buffer, write_ready>>
    BY <1>0, <1>10, Inb, Moves DEF inb_IER, dev, history
  <2>2. WriteOff'
    BY <1>0, <1>1, <2>1 DEF WriteOff, Masked, Off
  <2>3. WriteSent'
    BY <1>0, <1>1, <2>1 DEF WriteSent, Pending, Filled
  <2>4. QED
    BY <1>5, <2>1, <2>2, <2>3 DEF Places
<1>11. CASE write_rearm
  <2>1. /\ pc["writer"] = "outb" /\ pc'["writer"] = "wait" /\ ier' = copy["writer"] \cup {"THREI"}
        /\ copy'["writer"] = {} /\ (\A q \in Procs : q # "writer" => copy'[q] = copy[q])
        /\ UNCHANGED <<written, write, write_buffer, write_ready>>
    <3>1. outb("writer", "THREI", "wait")
      BY <1>0, <1>11 DEF write_rearm
    <3>2. QED
      BY <1>0, <3>1, Outb, Moves DEF history, Irqs
  <2>2. write_ready /\ Off("THREI") /\ Pending /\ sent = written - write
    BY <1>0, <2>1 DEF WriteOff, WriteSent
  <2>3. WriteOff'
    BY <1>0, <1>1, <2>1, <2>2 DEF WriteOff, Masked, Off
  <2>4. (~Sending)' /\ h.i = 0 /\ ~(h.pc = "ready" /\ h.cause = "THREI")
    BY <1>0, <1>1, <2>2 DEF Off, Sending, HandlerInv
  <2>5. WriteSent'
    <3>1. Pending' /\ h'.i <= write' /\ sent' = written' - write' /\ write' <= written'
      BY <1>1, <1>t, <2>1, <2>2, <2>4 DEF Pending, Filled
    <3>2. QED
      BY <1>1, <2>1, <2>2, <2>4, <3>1 DEF WriteSent
  <2>6. QED
    BY <1>5, <2>1, <2>3, <2>5 DEF Places
<1>12. CASE write_wait
  <2>1. /\ pc["writer"] = "wait" /\ pc'["writer"] = "idle" /\ ~write_ready /\ UNCHANGED <<ier, copy, written>>
    BY <1>0, <1>12, Moves DEF write_wait, history
  <2>2. WriteOff'
    BY <1>0, <1>1, <2>1 DEF WriteOff, Masked, Off
  <2>3. WriteSent'
    BY <1>0, <1>1, <2>1 DEF WriteSent
  <2>4. QED
    BY <1>5, <2>1, <2>2, <2>3 DEF Places
<1>13. ~write_interrupted
  BY DEF write_interrupted
<1>14. QED
  BY <1>6, <1>7, <1>8, <1>9, <1>10, <1>11, <1>12, <1>13 DEF WriteSteps, writing

LEMMA WriteStep == Types /\ DownInv /\ HandlerInv /\ LineInv /\ WriteInv /\ [Next]_vars => WriteInv'
<1> SUFFICES ASSUME Types, DownInv, HandlerInv, LineInv, WriteInv, [Next]_vars, WriteUse'
             PROVE  WriteOff' /\ WriteAlone' /\ WriteSent'
  BY DEF WriteInv
<1>1. /\ UNCHANGED <<use, platform>>
  BY NextSteps, LoadFrame, HandlerFrame, ReadFrame, WriteFrame, LineFrame DEF rigid
<1>2. interrupted' = interrupted
  <2>1. CASE WriteSteps
    BY <2>1 DEF WriteSteps, writing, write_call, write_copy, write_fault, write_set_ready, write_wait,
                write_interrupted, inb, write_rearm, outb, history, WriteUse
  <2>2. CASE ~WriteSteps
    BY <2>2, NextSteps, LoadFrame, HandlerFrame, ReadFrame, LineFrame DEF history
  <2>3. QED
    BY <2>1, <2>2
<1>3. WriteUse
  BY <1>1, <1>2 DEF WriteUse, linux
<1>4. WriteState
  BY <1>3 DEF WriteState, WriteInv, LineInv, WriteUse
<1>5. ~LineSteps
  <2>1. LineSteps => Active("setline")
    BY DEF LineSteps, SET_LINE_begin, SET_LINE_end, step
  <2>2. QED
    BY <1>3, <2>1, Users DEF WriteUse
<1>6. ~interrupted'
  BY DEF WriteUse
<1>7. QED
  BY <1>4, <1>5, <1>6, NextSteps, WriteLoad, WriteHandler, WriteReader, WriteWriter

---------------------------------------------------------------------------
(* The theorems. *)

LEMMA InitInv == Init => Inv
<1> SUFFICES ASSUME Init PROVE Inv
  OBVIOUS
<1>1. h.pc = "idle" /\ h.i = 0 /\ h \in Handler
  BY IdleFacts DEF Init
<1>2. Types
  <2>1. ProcTypes
    BY DEF Init, ProcTypes, Places, Irqs
  <2>2. ReadTypes
    BY DEF Init, ReadTypes
  <2>3. WriteTypes
    BY FifoAssumption DEF Init, WriteTypes, Junk
  <2>4. QED
    BY <1>1, <2>1, <2>2, <2>3 DEF Types, HandlerTypes
<1>3. DownInv /\ HandlerInv /\ LineInv
  BY <1>1 DEF Init, DownInv, HandlerInv, LineInv
<1>4. ReadInv
  BY <1>1, ProcNames DEF Init, ReadInv, ReadPart, Masked, Off
<1>5. WriteInv
  <2>1. WriteOff
    BY <1>1, ProcNames DEF Init, WriteOff, Masked, Off
  <2>2. WriteAlone
    BY ProcNames DEF Init, WriteAlone, Places
  <2>3. WriteSent
    BY ProcNames DEF Init, WriteSent
  <2>4. QED
    BY <2>1, <2>2, <2>3 DEF WriteInv
<1>6. ReceivedOnce
  <2>1. delivered = <<>> /\ read_buffer = <<>> /\ fifo = <<>> /\ arrived = 0
    BY DEF Init
  <2>2. (<<>> \o <<>>) \o <<>> = <<>>
    BY ConcatEmptySeq, EmptySeq
  <2>3. [i \in 1..0 |-> i] = <<>>
    OBVIOUS
  <2>4. QED
    BY <2>1, <2>2, <2>3 DEF ReceivedOnce
<1>7. QED
  BY <1>2, <1>3, <1>4, <1>5, <1>6 DEF Inv

LEMMA InvHolds == Spec => []Inv
<1>1. Inv /\ [Next]_vars => Inv'
  BY TypesStep, DownStep, HandlerStep, LineStep, ReadStep, WriteStep, ReceivedStep DEF Inv
<1>2. QED
  BY <1>1, InitInv, PTL DEF Spec

(* Whatever the handler and the reads interrupt each other at, on one CPU  *)
(* or on several: the bytes that read() has returned, those in             *)
(* dev->read_buffer and those in the FIFO are the bytes that arrived, once *)
(* and in order.                                                           *)
THEOREM ReadsAreComplete == Spec => []ReceivedOnce
BY InvHolds, PTL DEF Inv

LEMMA SentFromInv == Inv => SentOnce
<1> SUFFICES ASSUME Inv, WriteUse
             PROVE  sent \in 0..written /\ (pc["writer"] = "idle" => sent = written)
  BY DEF SentOnce, WriteUse
<1>1. WriteAlone /\ WriteSent /\ write \in 0..Fifo /\ written \in Nat /\ Fifo \in Nat /\ h.i \in Nat
  BY FifoAssumption DEF Inv, WriteInv, Types, WriteTypes, HandlerTypes, Handler
<1>2. pc["writer"] \in {"idle", "copy", "ready", "inb", "outb", "wait"}
  BY <1>1 DEF WriteAlone, Places
<1>3. sent \in 0..written
  <2>1. CASE pc["writer"] \in {"idle", "copy"} \/ (pc["writer"] = "wait" /\ ~write_ready)
    BY <1>1, <2>1 DEF WriteSent
  <2>2. CASE pc["writer"] \in {"ready", "inb", "outb"}
    BY <1>1, <2>2 DEF WriteSent, Pending
  <2>3. CASE pc["writer"] = "wait" /\ write_ready
    <3>1. write <= written /\ h.i <= write /\ (sent = written - write + h.i \/ sent = written - write)
      BY <1>1, <2>3 DEF WriteSent, Pending
    <3>2. QED
      BY <1>1, <3>1
  <2>4. QED
    BY <1>2, <2>1, <2>2, <2>3
<1>4. QED
  BY <1>1, <1>3 DEF WriteSent

(* The bytes of every write() of the Linux driver go out once, in order    *)
(* and before it returns, for a process that writes or that reads and      *)
(* writes in turns, on one CPU or on several, until a signal ends a wait.  *)
THEOREM WritesGoOut == Spec => []SentOnce
BY InvHolds, SentFromInv, PTL
=============================================================================
