----------------------------- MODULE SimpleRAID -----------------------------
(***************************************************************************)
(* SimpleRAIDDriverWindows/ssr.c: a logical disk kept on two physical      *)
(* disks, each with the CRC of every sector. A write goes to both disks, a *)
(* read compares them and repairs the one that is wrong. The buffers and   *)
(* the status block of a disk are shared by all requests, and the driver   *)
(* has no lock: a request is a sequence of disk transfers, of which another*)
(* request's may come in between. The sectors are those whose CRCs are in  *)
(* one CRC sector (128 of them in the code).                               *)
(***************************************************************************)
EXTENDS Integers

CONSTANTS
  Requests,  \* threads that call MyRead() and MyWrite()
  Sectors,
  Data,      \* contents of a sector
  Zero,      \* a sector of zeroes
  NoData,    \* not the contents of a sector
  Sums,      \* values of a CRC
  CRC,       \* update_crc(0, data, KERNEL_SECTOR_SIZE)
  Ops,       \* the requests made: "read", "write"
  MaxFaults  \* bound: failed transfers, power failures and damaged sectors

ASSUME RAIDAssumption ==
  /\ Zero \in Data /\ NoData \notin Data /\ CRC \in [Data -> Sums]
  /\ Ops \subseteq {"read", "write"} /\ Sectors # {} /\ MaxFaults \in Nat

VARIABLES
  disk,         \* per disk: the data and the CRC of every sector
  ioStatus,     \* per disk: the status of the last transfer to complete
  crcBuffer, readBuffer, writeBuffer,
  req,          \* per request: its step and its local variables, its outcome, and
                \* for a write (history) what was in the sector when it began
  faults

vars == <<disk, ioStatus, crcBuffer, readBuffer, writeBuffer, req, faults>>
buffers == <<crcBuffer, readBuffer, writeBuffer>>

Disks == {0, 1}

(* A transfer, and the step that looks at its status.                      *)
Transfers == {"readData", "readCRC", "putData", "oldCRC", "putCRC"}
After == [readData |-> "gotData", readCRC |-> "gotCRC", putData |-> "putDone",
          oldCRC |-> "patch", putCRC |-> "crcDone"]
-----------------------------------------------------------------------------
Good(d, s) == disk[d].crc[s] = CRC[disk[d].data[s]]
Agree(s) == Good(0, s) /\ Good(1, s) /\ disk[0].data[s] = disk[1].data[s]

(* What a read finds in a sector: the copy on the first disk if its CRC is
   right, else the other copy.                                             *)
Readable(s) == IF Good(0, s) THEN disk[0].data[s]
               ELSE IF Good(1, s) THEN disk[1].data[s] ELSE NoData

NoRequest == [pc |-> "done", op |-> "read", s |-> CHOOSE s \in Sectors : TRUE,
              v |-> Zero, i |-> 0, crc |-> [d \in Disks |-> CRC[Zero]],
              from |-> 0, sum |-> CRC[Zero], status |-> "fail", got |-> NoData,
              was |-> NoData]

(* DriverEntry(): the logical disk is created over two disks that agree.   *)
Init ==
  /\ \E data \in [Sectors -> Data] :
       disk = [d \in Disks |-> [data |-> data,
                                crc |-> [s \in Sectors |-> CRC[data[s]]]]]
  /\ ioStatus = [d \in Disks |-> "ok"]
  /\ crcBuffer = [s \in Sectors |-> CRC[Zero]]
  /\ readBuffer = [d \in Disks |-> Zero] /\ writeBuffer = Zero
  /\ req = [r \in Requests |-> NoRequest] /\ faults = 0

Go(r, pc) == req' = [req EXCEPT ![r].pc = pc]

(* The IRP is completed.                                                   *)
Complete(r, status, got) ==
  req' = [req EXCEPT ![r].pc = "done", ![r].status = status, ![r].got = got]
-----------------------------------------------------------------------------
(* A request at an offset outside the disk is refused and changes nothing; one
   of more than a sector is cut to the first.                              *)

StartRead(r, s) ==
  /\ req[r].pc = "done" /\ "read" \in Ops
  /\ req' = [req EXCEPT ![r] = [NoRequest EXCEPT !.pc = "readData", !.s = s]]
  /\ UNCHANGED <<disk, ioStatus, buffers, faults>>

StartWrite(r, s, v) ==
  /\ req[r].pc = "done" /\ "write" \in Ops
  /\ writeBuffer' = v
  /\ req' = [req EXCEPT ![r] = [NoRequest EXCEPT !.pc = "sum", !.op = "write",
                                                 !.s = s, !.v = v,
                                                 !.was = Readable(s)]]
  /\ UNCHANGED <<disk, ioStatus, crcBuffer, readBuffer, faults>>

Sum(r) ==
  /\ req[r].pc = "sum"
  /\ req' = [req EXCEPT ![r].sum = CRC[writeBuffer], ![r].pc = "putData"]
  /\ UNCHANGED <<disk, ioStatus, buffers, faults>>
-----------------------------------------------------------------------------
(* SendIrp() and SendCRCIrp(): the disk does the transfer, and its status is
   stored in the status block of the disk.                                 *)

Buffer(r) == IF req[r].op = "write" THEN writeBuffer ELSE readBuffer[req[r].from]

Transfer(r) ==
  LET i == req[r].i
      s == req[r].s
  IN  /\ req[r].pc \in Transfers
      /\ \/ /\ req[r].pc = "readData"
            /\ readBuffer' = [readBuffer EXCEPT ![i] = disk[i].data[s]]
            /\ UNCHANGED <<disk, crcBuffer>>
         \/ /\ req[r].pc \in {"readCRC", "oldCRC"}
            /\ crcBuffer' = disk[i].crc
            /\ UNCHANGED <<disk, readBuffer>>
         \/ /\ req[r].pc = "putData"
            /\ disk' = [disk EXCEPT ![i].data[s] = Buffer(r)]
            /\ UNCHANGED <<crcBuffer, readBuffer>>
         \/ /\ req[r].pc = "putCRC"
            /\ disk' = [disk EXCEPT ![i].crc = crcBuffer]
            /\ UNCHANGED <<crcBuffer, readBuffer>>
      /\ ioStatus' = [ioStatus EXCEPT ![i] = "ok"]
      /\ Go(r, After[req[r].pc])
      /\ UNCHANGED <<writeBuffer, faults>>

TransferFails(r) ==
  /\ req[r].pc \in Transfers /\ faults < MaxFaults
  /\ ioStatus' = [ioStatus EXCEPT ![req[r].i] = "fail"]
  /\ Go(r, After[req[r].pc])
  /\ faults' = faults + 1
  /\ UNCHANGED <<disk, buffers>>

(* IoBuildSynchronousFsdRequest() returns NULL.                            *)
NoIrp(r) ==
  /\ req[r].pc \in Transfers /\ faults < MaxFaults
  /\ Complete(r, "fail", NoData)
  /\ faults' = faults + 1
  /\ UNCHANGED <<disk, ioStatus, buffers>>

(* Back from a transfer that failed, the request ends.                     *)
GiveUp(r) ==
  /\ \E t \in Transfers : req[r].pc = After[t]
  /\ ioStatus[req[r].i] = "fail"
  /\ Complete(r, "fail", NoData)
  /\ UNCHANGED <<disk, ioStatus, buffers, faults>>

Back(r, pc) == req[r].pc = pc /\ ioStatus[req[r].i] = "ok"
-----------------------------------------------------------------------------
(* MyRead(): both disks, data and CRC, then the comparison.                *)

GotData(r) ==
  /\ Back(r, "gotData") /\ Go(r, "readCRC")
  /\ UNCHANGED <<disk, ioStatus, buffers, faults>>

GotCRC(r) ==
  /\ Back(r, "gotCRC")
  /\ req' = [req EXCEPT ![r].crc[req[r].i] = crcBuffer[req[r].s],
                        ![r].pc = IF req[r].i = 0 THEN "readData" ELSE "compare",
                        ![r].i = 1]
  /\ UNCHANGED <<disk, ioStatus, buffers, faults>>

Right(r, d) == req[r].crc[d] = CRC[readBuffer[d]]

Repair_from_wrong_disk(r, d) ==
  req' = [req EXCEPT ![r].pc = "putData", ![r].i = d, ![r].from = 1 - d,
                     ![r].sum = req[r].crc[1 - d]]

(* The disk other than d is written with the data and the CRC of disk d.   *)
Repair(r, d) ==
  req' = [req EXCEPT ![r].pc = "putData", ![r].i = 1 - d, ![r].from = d,
                     ![r].sum = req[r].crc[d]]

Compare_no_equality(r) ==
  /\ req[r].pc = "compare"
  /\ \/ Right(r, 0) /\ Right(r, 1) /\ Complete(r, "ok", readBuffer[0])
     \/ Right(r, 0) /\ ~Right(r, 1) /\ Repair(r, 0)
     \/ ~Right(r, 0) /\ Right(r, 1) /\ Repair(r, 1)
     \/ ~Right(r, 0) /\ ~Right(r, 1) /\ Complete(r, "fail", NoData)
  /\ UNCHANGED <<disk, ioStatus, buffers, faults>>

Compare(r) ==
  LET same == Right(r, 0) /\ Right(r, 1) /\ CRC[readBuffer[0]] = CRC[readBuffer[1]]
  IN  /\ req[r].pc = "compare"
      /\ \/ same /\ Complete(r, "ok", readBuffer[0])
         \/ ~same /\ Right(r, 0) /\ Repair(r, 0)
         \/ ~Right(r, 0) /\ Right(r, 1) /\ Repair(r, 1)
         \/ ~Right(r, 0) /\ ~Right(r, 1) /\ Complete(r, "fail", NoData)
      /\ UNCHANGED <<disk, ioStatus, buffers, faults>>
-----------------------------------------------------------------------------
(* The data and then the CRC are written, for one disk when a read repairs it
   and for both in MyWrite().                                              *)

PutDone(r) ==
  /\ Back(r, "putDone") /\ Go(r, "oldCRC")
  /\ UNCHANGED <<disk, ioStatus, buffers, faults>>

Patch_nothing(r) ==
  /\ Back(r, "patch") /\ Go(r, "putCRC")
  /\ UNCHANGED <<disk, ioStatus, buffers, faults>>

Patch(r) ==
  /\ Back(r, "patch")
  /\ crcBuffer' = [crcBuffer EXCEPT ![req[r].s] = req[r].sum]
  /\ Go(r, "putCRC")
  /\ UNCHANGED <<disk, ioStatus, readBuffer, writeBuffer, faults>>

CRCDone_first_disk_only(r) ==
  /\ Back(r, "crcDone")
  /\ Complete(r, "ok", NoData)
  /\ UNCHANGED <<disk, ioStatus, buffers, faults>>

(* A read that has repaired a disk ends here, with nothing copied to the user. *)
CRCDone(r) ==
  /\ Back(r, "crcDone")
  /\ IF req[r].op = "write" /\ req[r].i = 0
       THEN req' = [req EXCEPT ![r].i = 1, ![r].pc = "putData"]
       ELSE Complete(r, "ok", NoData)
  /\ UNCHANGED <<disk, ioStatus, buffers, faults>>
-----------------------------------------------------------------------------
Idle == \A r \in Requests : req[r].pc = "done"

(* The environment: power fails in the middle of a request, and the driver is
   loaded again; one copy of a sector goes bad while nothing is going on.   *)
PowerFailure ==
  /\ ~Idle /\ faults < MaxFaults
  /\ req' = [r \in Requests |-> NoRequest]
  /\ ioStatus' = [d \in Disks |-> "ok"]
  /\ crcBuffer' = [s \in Sectors |-> CRC[Zero]]
  /\ readBuffer' = [d \in Disks |-> Zero] /\ writeBuffer' = Zero
  /\ faults' = faults + 1
  /\ UNCHANGED disk

Damage(d, s) ==
  /\ Idle /\ faults < MaxFaults
  /\ \/ \E v \in Data \ {disk[d].data[s]} : disk' = [disk EXCEPT ![d].data[s] = v]
     \/ \E c \in Sums \ {disk[d].crc[s]} : disk' = [disk EXCEPT ![d].crc[s] = c]
  /\ faults' = faults + 1
  /\ UNCHANGED <<ioStatus, buffers, req>>

Step(r) == \/ Sum(r) \/ Transfer(r) \/ TransferFails(r) \/ NoIrp(r) \/ GiveUp(r)
           \/ GotData(r) \/ GotCRC(r) \/ Compare(r)
           \/ PutDone(r) \/ Patch(r) \/ CRCDone(r)

Next == \/ \E r \in Requests : Step(r)
        \/ \E r \in Requests, s \in Sectors : StartRead(r, s)
        \/ \E r \in Requests, s \in Sectors, v \in Data : StartWrite(r, s, v)
        \/ PowerFailure
        \/ \E d \in Disks, s \in Sectors : Damage(d, s)

Spec == Init /\ [][Next]_vars
-----------------------------------------------------------------------------
(* Disks, buffers and requests hold sectors and CRCs.                      *)
TypeOK ==
  /\ disk \in [Disks -> [data : [Sectors -> Data], crc : [Sectors -> Sums]]]
  /\ ioStatus \in [Disks -> {"ok", "fail"}]
  /\ crcBuffer \in [Sectors -> Sums]
  /\ readBuffer \in [Disks -> Data] /\ writeBuffer \in Data
  /\ req \in [Requests ->
       [pc : Transfers \cup {After[t] : t \in Transfers}
             \cup {"done", "sum", "compare"},
        op : {"read", "write"}, s : Sectors, v : Data, i : Disks,
        crc : [Disks -> Sums], from : Disks, sum : Sums,
        status : {"ok", "fail"}, got : Data \cup {NoData}, was : Data \cup {NoData}]]
  /\ faults \in 0 .. MaxFaults

(* One fault, a power failure or a failed transfer in the middle of a write
   or a damaged copy, never costs a sector: when no request is under way one
   of the copies has the right CRC.                                        *)
KeepsReadable == Idle /\ faults <= 1 => \A s \in Sectors : Readable(s) # NoData

Under(r, s) == req[r].pc # "done" /\ req[r].s = s

(* What is read from a sector changes only while a MyWrite() to that sector is
   under way: neither a repair by MyRead(), nor a fault, nor a request for
   another sector with its CRC in the same CRC sector changes it. Two faults
   can, of one sector's two copies.                                        *)
OnlyWritesChange ==
  [][\A s \in Sectors : Readable(s)' # Readable(s) /\ faults' <= 1 =>
       \E r \in Requests : Under(r, s) /\ req[r].op = "write"]_vars

(* However a MyWrite() ends, with success, with an error or by a power failure,
   its sector then reads as it did before or as the new data, if that was the
   only fault.                                                             *)
WriteIsAtomic ==
  [][\A r \in Requests, s \in Sectors :
       Under(r, s) /\ req[r].op = "write" /\ req'[r].pc = "done" /\ faults' <= 1
         => Readable(s)' \in {req[r].was, req[r].v}]_vars

(* What a sector reads as changes by writes to it only, and by each of them
   entirely or not at all, through one fault anywhere.                     *)
WritesTakeEffect == OnlyWritesChange /\ WriteIsAtomic

(* A read or a write that ends with success leaves the two disks with the same
   data and its CRC, whatever faults it began with.                        *)
SuccessMirrors ==
  [][\A r \in Requests, s \in Sectors :
       Under(r, s) /\ req'[r].pc = "done" /\ req'[r].status = "ok"
         => Agree(s)']_vars

-----------------------------------------------------------------------------
(* What the documentation of the program promises and the code does not keep:
   none of the following holds.                                            *)

(* A read that ends with success gives the user the data of the sector: of one
   of the partitions, or of the right one when they differ.                *)
ReadDelivers ==
  \A r \in Requests :
    req[r].pc = "done" /\ req[r].op = "read" /\ req[r].status = "ok"
      => req[r].got # NoData

(* When no request is under way and nothing has failed, every sector of both
   disks is stored with its CRC.                                           *)
StoredWithCRC == Idle /\ faults = 0 => \A d \in Disks, s \in Sectors : Good(d, s)
=============================================================================
