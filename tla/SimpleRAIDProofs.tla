-------------------------- MODULE SimpleRAIDProofs --------------------------
(***************************************************************************)
(* The logical disk, for any sectors, contents and CRC and for any number  *)
(* of faults, when one request at a time is in the driver: through one     *)
(* fault anywhere every sector stays readable, what it reads as changes by *)
(* whole writes only, and a request that succeeds leaves the two disks     *)
(* equal.                                                                  *)
(*                                                                         *)
(* The invariant says, for every step of MyRead() and MyWrite(), what of   *)
(* the disks is already in the buffers and in the request's variables, and *)
(* which copy of the sector is right while the other one is being written. *)
(***************************************************************************)
EXTENDS SimpleRAID, TLAPS

(* One request at a time is in the driver.                                 *)
Sole == \E r : Requests = {r}

(* The CRC tells the contents of sectors apart.                            *)
Injective == \A v, w \in Data : CRC[v] = CRC[w] => v = w

Reading == {"readData", "gotData", "readCRC", "gotCRC", "compare"}
Putting == {"putData", "putDone", "oldCRC", "patch", "putCRC", "crcDone"}
Returned == {"gotData", "gotCRC", "putDone", "patch", "crcDone"}

(* The request has come back from a transfer that failed.                  *)
Failed(r) == req[r].pc \in Returned /\ ioStatus[req[r].i] = "fail"

DataOf(r, d) == disk[d].data[req[r].s]
CrcOf(r, d) == disk[d].crc[req[r].s]

-----------------------------------------------------------------------------
(* MyRead() until it has compared the disks.                               *)

(* The data and the CRC of disk d have been read.                          *)
Fetched(r, d) == readBuffer[d] = DataOf(r, d) /\ req[r].crc[d] = CrcOf(r, d)

ReadPart(r) ==
  req[r].pc \in Reading =>
    /\ req[r].op = "read"
    /\ req[r].i = 1 => Fetched(r, 0)
    /\ req[r].pc \in {"gotData", "readCRC", "gotCRC"} /\ ~Failed(r) => readBuffer[req[r].i] = DataOf(r, req[r].i)
    /\ req[r].pc = "gotCRC" /\ ~Failed(r) => crcBuffer = disk[req[r].i].crc
    /\ req[r].pc = "compare" => Fetched(r, 0) /\ Fetched(r, 1)

(* A repair: the copy on the disk it reads from is right.                  *)
RepairPart(r) ==
  req[r].pc \in Putting /\ req[r].op = "read" =>
    /\ req[r].from = 1 - req[r].i
    /\ readBuffer[req[r].from] = DataOf(r, req[r].from)
    /\ Good(req[r].from, req[r].s)
    /\ Good(0, req[r].s) => DataOf(r, 0) = readBuffer[req[r].from]

(* MyWrite(): when it writes the second disk the first one is done.        *)
WritePart(r) ==
  /\ req[r].pc = "sum" => req[r].op = "write" /\ req[r].i = 0
  /\ req[r].pc # "done" /\ req[r].op = "write" => writeBuffer = req[r].v
  /\ req[r].pc \in Putting /\ req[r].op = "write" /\ req[r].i = 1 =>
        Good(0, req[r].s) /\ DataOf(r, 0) = req[r].v

(* The data and then the CRC of one disk are written.                      *)
PutPart(r) ==
  req[r].pc \in Putting =>
    /\ req[r].sum = CRC[Buffer(r)]
    /\ req[r].pc # "putData" /\ (req[r].pc = "putDone" => ~Failed(r)) => DataOf(r, req[r].i) = Buffer(r)
    /\ req[r].pc = "patch" /\ ~Failed(r) => crcBuffer = disk[req[r].i].crc
    /\ req[r].pc = "putCRC" => crcBuffer = [disk[req[r].i].crc EXCEPT ![req[r].s] = req[r].sum]
    /\ req[r].pc = "crcDone" /\ ~Failed(r) => CrcOf(r, req[r].i) = req[r].sum

(* Sectors that the request is not about to change.                        *)
Quiet(r, t) == req[r].pc \in Putting => t # req[r].s

(* Nothing has failed: the disks agree but where a write is under way.     *)
CleanPart(r) ==
  faults = 0 =>
    /\ ~Failed(r)
    /\ \A t \in Sectors : Quiet(r, t) => Agree(t)
    /\ req[r].pc \in Putting => req[r].op = "write"

(* One fault: of every other sector one copy is right.                     *)
FaultPart(r) == faults <= 1 => \A t \in Sectors : Quiet(r, t) => Good(0, t) \/ Good(1, t)

(* The first disk is being written and nothing has failed before: it has   *)
(* the old or the new data, and the second one the old data and its CRC.   *)
AtomicPart(r) ==
  (faults = 0 \/ (faults = 1 /\ Failed(r))) /\ req[r].op = "write" /\ req[r].i = 0
      /\ req[r].pc \in {"sum"} \cup Putting =>
    /\ DataOf(r, 0) \in {req[r].was, req[r].v}
    /\ Good(1, req[r].s) /\ DataOf(r, 1) = req[r].was

Parts(r) == /\ ReadPart(r) /\ RepairPart(r) /\ WritePart(r) /\ PutPart(r)
            /\ CleanPart(r) /\ FaultPart(r) /\ AtomicPart(r)

Disk == [data : [Sectors -> Data], crc : [Sectors -> Sums]]
Places == Reading \cup Putting \cup {"done", "sum"}
Req == [pc : Places, op : {"read", "write"}, s : Sectors, v : Data, i : Disks,
        crc : [Disks -> Sums], from : Disks, sum : Sums,
        status : {"ok", "fail"}, got : Data \cup {NoData}, was : Data \cup {NoData}]

Types ==
  /\ disk \in [Disks -> Disk]
  /\ ioStatus \in [Disks -> {"ok", "fail"}]
  /\ crcBuffer \in [Sectors -> Sums]
  /\ readBuffer \in [Disks -> Data] /\ writeBuffer \in Data
  /\ req \in [Requests -> Req]
  /\ faults \in Nat

Inv == Types /\ \A r \in Requests : Parts(r)

-----------------------------------------------------------------------------
(* What is written on a disk.                                              *)

(* The data of a sector of one disk.                                       *)
LEMMA DataWritten ==
  ASSUME disk \in [Disks -> Disk], NEW d \in Disks, NEW s \in Sectors, NEW v \in Data,
         disk' = [disk EXCEPT ![d].data[s] = v]
  PROVE  /\ disk' \in [Disks -> Disk] /\ disk'[d].data[s] = v /\ disk'[d].crc = disk[d].crc
         /\ \A t \in Sectors : t # s => disk'[d].data[t] = disk[d].data[t]
         /\ \A e \in Disks : e # d => disk'[e] = disk[e]
<1>1. disk[d] \in Disk /\ disk[d].data \in [Sectors -> Data]
  BY DEF Disk
<1>2. [disk[d] EXCEPT !.data[s] = v] \in Disk
  BY <1>1 DEF Disk
<1>3. disk'[d] = [disk[d] EXCEPT !.data[s] = v] /\ disk' \in [Disks -> Disk]
  BY <1>2
<1>4. QED
  BY <1>1, <1>3 DEF Disk

(* All CRCs of one disk.                                                   *)
LEMMA CrcWritten ==
  ASSUME disk \in [Disks -> Disk], NEW d \in Disks, NEW c \in [Sectors -> Sums],
         disk' = [disk EXCEPT ![d].crc = c]
  PROVE  /\ disk' \in [Disks -> Disk] /\ disk'[d].crc = c /\ disk'[d].data = disk[d].data
         /\ \A e \in Disks : e # d => disk'[e] = disk[e]
<1>1. disk[d] \in Disk
  OBVIOUS
<1>2. [disk[d] EXCEPT !.crc = c] \in Disk
  BY <1>1 DEF Disk
<1>3. disk'[d] = [disk[d] EXCEPT !.crc = c] /\ disk' \in [Disks -> Disk]
  BY <1>2
<1>4. QED
  BY <1>1, <1>3 DEF Disk

(* One CRC goes bad.                                                       *)
LEMMA CrcDamaged ==
  ASSUME disk \in [Disks -> Disk], NEW d \in Disks, NEW s \in Sectors, NEW c \in Sums,
         disk' = [disk EXCEPT ![d].crc[s] = c]
  PROVE  /\ disk' \in [Disks -> Disk] /\ disk'[d].crc[s] = c /\ disk'[d].data = disk[d].data
         /\ \A t \in Sectors : t # s => disk'[d].crc[t] = disk[d].crc[t]
         /\ \A e \in Disks : e # d => disk'[e] = disk[e]
<1>1. disk[d] \in Disk /\ disk[d].crc \in [Sectors -> Sums]
  BY DEF Disk
<1>2. [disk[d] EXCEPT !.crc[s] = c] \in Disk
  BY <1>1 DEF Disk
<1>3. disk'[d] = [disk[d] EXCEPT !.crc[s] = c] /\ disk' \in [Disks -> Disk]
  BY <1>2
<1>4. QED
  BY <1>1, <1>3 DEF Disk

-----------------------------------------------------------------------------
(* What happens to the variables of the request.                           *)

(* All but its place, the CRCs it has read and what a repair sets.         *)
Same(r) ==
  /\ req'[r].op = req[r].op /\ req'[r].s = req[r].s /\ req'[r].v = req[r].v /\ req'[r].was = req[r].was

Still(r) == Same(r) /\ req'[r].i = req[r].i /\ req'[r].crc = req[r].crc
            /\ req'[r].from = req[r].from /\ req'[r].sum = req[r].sum

LEMMA GoEffect ==
  ASSUME NEW r \in Requests, req \in [Requests -> Req], NEW pc \in Places, Go(r, pc)
  PROVE  req' \in [Requests -> Req] /\ req'[r].pc = pc /\ Still(r)
<1>1. req[r] \in Req /\ req'[r] = [req[r] EXCEPT !.pc = pc]
  BY DEF Go
<1>2. [req[r] EXCEPT !.pc = pc] \in Req
  BY <1>1 DEF Req
<1>3. req' \in [Requests -> Req]
  BY <1>2 DEF Go
<1>4. QED
  BY <1>1, <1>3 DEF Req, Still, Same

LEMMA CompleteEffect ==
  ASSUME NEW r \in Requests, req \in [Requests -> Req], NEW status \in {"ok", "fail"},
         NEW got \in Data \cup {NoData}, Complete(r, status, got)
  PROVE  req' \in [Requests -> Req] /\ req'[r].pc = "done" /\ req'[r].status = status
<1>1. req[r] \in Req /\ req'[r] = [req[r] EXCEPT !.pc = "done", !.status = status, !.got = got]
  BY DEF Complete
<1>2. [req[r] EXCEPT !.pc = "done", !.status = status, !.got = got] \in Req
  BY <1>1 DEF Req, Places
<1>3. req' \in [Requests -> Req]
  BY <1>2 DEF Complete
<1>4. QED
  BY <1>1, <1>3 DEF Req

LEMMA NoRequestType == NoRequest \in Req /\ NoRequest.pc = "done" /\ NoRequest.status = "fail" /\ NoRequest.i = 0
<1>1. (CHOOSE s \in Sectors : TRUE) \in Sectors
  BY RAIDAssumption
<1>2. CRC[Zero] \in Sums /\ Zero \in Data /\ [d \in Disks |-> CRC[Zero]] \in [Disks -> Sums]
  BY RAIDAssumption
<1>3. QED
  BY <1>1, <1>2 DEF NoRequest, Req, Places, Disks

LEMMA StartReadEffect ==
  ASSUME NEW r \in Requests, req \in [Requests -> Req], NEW s \in Sectors, StartRead(r, s)
  PROVE  /\ req' \in [Requests -> Req] /\ req'[r].pc = "readData" /\ req'[r].s = s
         /\ req'[r].op = "read" /\ req'[r].i = 0
<1> DEFINE q == [NoRequest EXCEPT !.pc = "readData", !.s = s]
<1>1. q \in Req /\ q.pc = "readData" /\ q.s = s /\ q.op = "read" /\ q.i = 0
  <2>1. NoRequest.op = "read"
    BY DEF NoRequest
  <2>2. QED
    BY <2>1, NoRequestType DEF Req, Places, Reading
<1>2. req' = [req EXCEPT ![r] = q]
  BY DEF StartRead
<1> HIDE DEF q
<1>3. QED
  BY <1>1, <1>2

LEMMA StartWriteEffect ==
  ASSUME NEW r \in Requests, req \in [Requests -> Req], NEW s \in Sectors, NEW v \in Data,
         Readable(s) \in Data \cup {NoData}, StartWrite(r, s, v)
  PROVE  /\ req' \in [Requests -> Req] /\ req'[r].pc = "sum" /\ req'[r].s = s /\ req'[r].v = v
         /\ req'[r].op = "write" /\ req'[r].i = 0 /\ req'[r].was = Readable(s)
<1> DEFINE w == Readable(s)
           q == [NoRequest EXCEPT !.pc = "sum", !.op = "write", !.s = s, !.v = v, !.was = w]
<1>1. req' = [req EXCEPT ![r] = q] /\ w \in Data \cup {NoData}
  BY DEF StartWrite
<1> HIDE DEF w
<1>2. q \in Req /\ q.pc = "sum" /\ q.s = s /\ q.op = "write" /\ q.i = 0 /\ q.v = v /\ q.was = w
  BY <1>1, NoRequestType DEF Req, Places
<1> HIDE DEF q
<1>3. QED
  BY <1>1, <1>2 DEF w

LEMMA SumEffect ==
  ASSUME NEW r \in Requests, req \in [Requests -> Req], writeBuffer \in Data, Sum(r)
  PROVE  /\ req' \in [Requests -> Req] /\ req'[r].pc = "putData" /\ req'[r].sum = CRC[writeBuffer]
         /\ Same(r) /\ req'[r].i = req[r].i
<1> DEFINE c == CRC[writeBuffer]
           q == [req[r] EXCEPT !.sum = c, !.pc = "putData"]
<1>1. c \in Sums /\ req[r] \in Req
  BY RAIDAssumption
<1>2. req'[r] = q /\ req' = [req EXCEPT ![r] = q]
  BY DEF Sum
<1> HIDE DEF c
<1>3. q \in Req /\ q.pc = "putData" /\ q.sum = c /\ q.op = req[r].op /\ q.s = req[r].s /\ q.v = req[r].v
      /\ q.was = req[r].was /\ q.i = req[r].i
  BY <1>1 DEF Req, Places, Putting
<1> HIDE DEF q
<1>4. QED
  BY <1>2, <1>3 DEF Same, c

LEMMA GotCRCEffect ==
  ASSUME NEW r \in Requests, req \in [Requests -> Req], crcBuffer \in [Sectors -> Sums], GotCRC(r)
  PROVE  /\ req' \in [Requests -> Req] /\ Same(r) /\ req'[r].i = 1
         /\ req'[r].pc = IF req[r].i = 0 THEN "readData" ELSE "compare"
         /\ req'[r].crc = [req[r].crc EXCEPT ![req[r].i] = crcBuffer[req[r].s]]
<1> DEFINE c == [req[r].crc EXCEPT ![req[r].i] = crcBuffer[req[r].s]]
           p == IF req[r].i = 0 THEN "readData" ELSE "compare"
           q == [req[r] EXCEPT !.crc = c, !.pc = p, !.i = 1]
<1>1. req[r] \in Req /\ req[r].s \in Sectors /\ req[r].crc \in [Disks -> Sums]
  BY DEF Req
<1>2. c \in [Disks -> Sums] /\ p \in Places
  BY <1>1 DEF Places, Reading
<1>3. req' = [req EXCEPT ![r] = q]
  BY <1>1 DEF GotCRC, Req
<1> HIDE DEF c, p
<1>4. q \in Req /\ q.pc = p /\ q.crc = c /\ q.i = 1 /\ q.op = req[r].op /\ q.s = req[r].s /\ q.v = req[r].v
      /\ q.was = req[r].was
  BY <1>1, <1>2 DEF Req, Disks
<1> HIDE DEF q
<1>5. QED
  BY <1>3, <1>4 DEF Same, c, p

LEMMA RepairEffect ==
  ASSUME NEW r \in Requests, req \in [Requests -> Req], NEW d \in Disks, Repair(r, d)
  PROVE  /\ req' \in [Requests -> Req] /\ Same(r) /\ req'[r].i = 1 - d /\ req'[r].from = d
         /\ req'[r].pc = "putData" /\ req'[r].sum = req[r].crc[d]
<1> DEFINE c == req[r].crc[d]
           q == [req[r] EXCEPT !.pc = "putData", !.i = 1 - d, !.from = d, !.sum = c]
<1>1. req[r] \in Req /\ c \in Sums /\ 1 - d \in Disks
  BY DEF Req, Disks
<1>2. req' = [req EXCEPT ![r] = q]
  BY <1>1 DEF Repair
<1> HIDE DEF c
<1>3. q \in Req /\ q.pc = "putData" /\ q.i = 1 - d /\ q.from = d /\ q.sum = c /\ q.op = req[r].op
      /\ q.s = req[r].s /\ q.v = req[r].v /\ q.was = req[r].was
  BY <1>1 DEF Req, Places, Putting
<1> HIDE DEF q
<1>4. QED
  BY <1>2, <1>3 DEF Same, c

LEMMA SecondDiskEffect ==
  ASSUME NEW r \in Requests, req \in [Requests -> Req],
         req' = [req EXCEPT ![r].i = 1, ![r].pc = "putData"]
  PROVE  /\ req' \in [Requests -> Req] /\ Same(r) /\ req'[r].i = 1
         /\ req'[r].pc = "putData" /\ req'[r].sum = req[r].sum
<1> DEFINE q == [req[r] EXCEPT !.i = 1, !.pc = "putData"]
<1>1. req[r] \in Req /\ req' = [req EXCEPT ![r] = q]
  OBVIOUS
<1>2. q \in Req /\ q.pc = "putData" /\ q.i = 1 /\ q.sum = req[r].sum /\ q.op = req[r].op
      /\ q.s = req[r].s /\ q.v = req[r].v /\ q.was = req[r].was
  BY <1>1 DEF Req, Places, Putting, Disks
<1> HIDE DEF q
<1>3. QED
  BY <1>1, <1>2 DEF Same

-----------------------------------------------------------------------------
(* The end of a request.                                                   *)

(* A disk that has been written completely equals the other one.           *)
LEMMA Mirrored ==
  ASSUME NEW r \in Requests, Types, Parts(r), req[r].pc = "crcDone", ~Failed(r),
         req[r].op = "read" \/ req[r].i = 1
  PROVE  Agree(req[r].s)
<1>0. req[r] \in Req /\ req[r].op \in {"read", "write"} /\ req[r].i \in {0, 1} /\ req[r].from \in {0, 1}
  BY DEF Types, Req, Disks
<1>1. req[r].sum = CRC[Buffer(r)] /\ DataOf(r, req[r].i) = Buffer(r) /\ CrcOf(r, req[r].i) = req[r].sum
  BY DEF Parts, PutPart, Putting
<1>2. CASE req[r].op = "read"
  <2>1. req[r].from = 1 - req[r].i /\ Buffer(r) = DataOf(r, req[r].from) /\ Good(req[r].from, req[r].s)
    BY <1>2 DEF Parts, RepairPart, Putting, Buffer
  <2>2. CASE req[r].i = 0
    BY <1>1, <2>1, <2>2 DEF Agree, Good, DataOf, CrcOf
  <2>3. CASE req[r].i = 1
    BY <1>1, <2>1, <2>3 DEF Agree, Good, DataOf, CrcOf
  <2>4. QED
    BY <1>0, <2>2, <2>3
<1>3. CASE req[r].op = "write"
  <2>1. req[r].i = 1 /\ Good(0, req[r].s) /\ DataOf(r, 0) = req[r].v /\ Buffer(r) = req[r].v
    BY <1>3 DEF Parts, WritePart, Putting, Buffer
  <2>2. QED
    BY <1>1, <2>1 DEF Agree, Good, DataOf, CrcOf
<1>4. QED
  BY <1>0, <1>2, <1>3

(* One fault at most, and it came, if at all, before the first disk was    *)
(* written or by the transfer that has just ended: every sector is right   *)
(* on one of the disks.                                                    *)
LEMMA OneCopyRight ==
  ASSUME NEW r \in Requests, Types, Parts(r), faults <= 1,
         \/ faults = 0 \/ Failed(r) \/ req[r].pc \notin Putting
         \/ req[r].op = "read" \/ req[r].i = 1,
         NEW t \in Sectors
  PROVE  Good(0, t) \/ Good(1, t)
<1>0. req[r].op \in {"read", "write"} /\ req[r].i \in {0, 1} /\ req[r].from \in {0, 1} /\ faults \in Nat
  BY DEF Types, Req, Disks
<1>1. CASE Quiet(r, t)
  BY <1>1 DEF Parts, FaultPart
<1>2. CASE ~Quiet(r, t)
  <2>1. req[r].pc \in Putting /\ t = req[r].s
    BY <1>2 DEF Quiet
  <2>2. CASE req[r].op = "read"
    BY <1>0, <2>1, <2>2 DEF Parts, RepairPart
  <2>3. CASE req[r].op = "write" /\ req[r].i = 1
    BY <2>1, <2>3 DEF Parts, WritePart
  <2>4. CASE req[r].op = "write" /\ req[r].i = 0
    <3>1. faults = 0 \/ (faults = 1 /\ Failed(r))
      BY <1>0, <2>1, <2>4
    <3>2. QED
      BY <2>1, <2>4, <3>1 DEF Parts, AtomicPart
  <2>5. QED
    BY <1>0, <2>2, <2>3, <2>4
<1>3. QED
  BY <1>1, <1>2

(* Once it has ended, only the disks count.                                *)
LEMMA Ended ==
  ASSUME NEW r \in Requests, req'[r].pc = "done", UNCHANGED disk,
         faults' = 0 => \A t \in Sectors : Agree(t),
         faults' <= 1 => \A t \in Sectors : Good(0, t) \/ Good(1, t)
  PROVE  Parts(r)'
<1>1. /\ req'[r].pc \notin Putting /\ req'[r].pc \notin Reading /\ req'[r].pc \notin Returned
      /\ req'[r].pc # "sum"
  BY DEF Putting, Reading, Returned
<1>2. ReadPart(r)' /\ RepairPart(r)' /\ WritePart(r)' /\ PutPart(r)' /\ AtomicPart(r)'
  BY <1>1 DEF ReadPart, RepairPart, WritePart, PutPart, AtomicPart
<1>3. \A t \in Sectors : (Agree(t)' <=> Agree(t)) /\ (Good(0, t)' <=> Good(0, t)) /\ (Good(1, t)' <=> Good(1, t))
  BY DEF Agree, Good
<1>4. CleanPart(r)' /\ FaultPart(r)'
  BY <1>1, <1>3 DEF CleanPart, FaultPart, Failed
<1>5. QED
  BY <1>2, <1>4 DEF Parts

(* A step that leaves the disks alone.                                     *)
LEMMA Steady ==
  ASSUME NEW r \in Requests, Parts(r), UNCHANGED <<disk, faults>>, ~Failed(r)',
         \A t \in Sectors : Quiet(r, t)' => Quiet(r, t),
         faults = 0 /\ req'[r].pc \in Putting => req'[r].op = "write"
  PROVE  CleanPart(r)' /\ FaultPart(r)'
<1>1. \A t \in Sectors : (Agree(t)' <=> Agree(t)) /\ (Good(0, t)' <=> Good(0, t)) /\ (Good(1, t)' <=> Good(1, t))
  BY DEF Agree, Good
<1>2. QED
  BY <1>1 DEF Parts, CleanPart, FaultPart

-----------------------------------------------------------------------------
(* Each step of a request preserves the invariant.                         *)

LEMMA StartReadInv ==
  ASSUME NEW r \in Requests, Types, Parts(r), NEW s \in Sectors, StartRead(r, s)
  PROVE  Types' /\ Parts(r)'
<1>1. /\ req' \in [Requests -> Req] /\ req'[r].pc = "readData" /\ req'[r].s = s
      /\ req'[r].op = "read" /\ req'[r].i = 0
  BY StartReadEffect DEF Types
<1>2. Types' /\ req[r].pc = "done" /\ UNCHANGED <<disk, faults>>
  BY <1>1 DEF StartRead, Types, buffers
<1>3. ReadPart(r)' /\ RepairPart(r)' /\ WritePart(r)' /\ PutPart(r)' /\ AtomicPart(r)'
  BY <1>1 DEF ReadPart, RepairPart, WritePart, PutPart, AtomicPart, Putting
<1>4. CleanPart(r)' /\ FaultPart(r)'
  BY <1>1, <1>2, Steady DEF Quiet, Putting, Failed, Returned
<1>5. QED
  BY <1>2, <1>3, <1>4 DEF Parts

(* What a sector reads as is the contents of a sector.                     *)
LEMMA ReadableType ==
  ASSUME Types, NEW s \in Sectors
  PROVE  Readable(s) \in Data \cup {NoData}
<1>1. disk[0].data[s] \in Data /\ disk[1].data[s] \in Data
  BY DEF Types, Disk, Disks
<1>2. QED
  BY <1>1 DEF Readable

LEMMA StartWriteInv ==
  ASSUME NEW r \in Requests, Types, Parts(r), NEW s \in Sectors, NEW v \in Data, StartWrite(r, s, v)
  PROVE  Types' /\ Parts(r)'
<1>1. /\ req' \in [Requests -> Req] /\ req'[r].pc = "sum" /\ req'[r].s = s /\ req'[r].v = v
      /\ req'[r].op = "write" /\ req'[r].i = 0 /\ req'[r].was = Readable(s)
  BY StartWriteEffect, ReadableType DEF Types
<1>2. Types' /\ req[r].pc = "done" /\ UNCHANGED <<disk, faults>> /\ writeBuffer' = v
  BY <1>1 DEF StartWrite, Types
<1>3. ReadPart(r)' /\ RepairPart(r)' /\ WritePart(r)' /\ PutPart(r)'
  BY <1>1, <1>2 DEF ReadPart, RepairPart, WritePart, PutPart, Putting, Reading
<1>4. CleanPart(r)' /\ FaultPart(r)'
  BY <1>1, <1>2, Steady DEF Quiet, Putting, Failed, Returned
<1>5. AtomicPart(r)'
  <2>1. ~Failed(r)'
    BY <1>1 DEF Failed, Returned
  <2>2. CASE faults = 0
    <3>1. Agree(s)
      BY <1>2, <2>2 DEF Parts, CleanPart, Quiet, Putting
    <3>2. disk[0].data[s] = Readable(s) /\ disk[1].data[s] = Readable(s) /\ Good(1, s)
      BY <3>1 DEF Agree, Readable
    <3>3. QED
      BY <1>1, <1>2, <3>2 DEF AtomicPart, DataOf, Good
  <2>3. CASE faults # 0
    BY <1>2, <2>1, <2>3 DEF AtomicPart
  <2>4. QED
    BY <2>2, <2>3
<1>6. QED
  BY <1>2, <1>3, <1>4, <1>5 DEF Parts

LEMMA SumInv ==
  ASSUME NEW r \in Requests, Types, Parts(r), Sum(r)
  PROVE  Types' /\ Parts(r)'
<1>1. /\ req' \in [Requests -> Req] /\ req'[r].pc = "putData" /\ req'[r].sum = CRC[writeBuffer]
      /\ Same(r) /\ req'[r].i = req[r].i
  BY SumEffect DEF Types
<1>2. Types' /\ req[r].pc = "sum" /\ UNCHANGED <<disk, faults, writeBuffer, readBuffer, crcBuffer>>
  BY <1>1 DEF Sum, Types, buffers
<1>3. req[r].op = "write" /\ req[r].i = 0 /\ writeBuffer = req[r].v
  BY <1>2 DEF Parts, WritePart
<1>4. ReadPart(r)' /\ RepairPart(r)' /\ WritePart(r)' /\ PutPart(r)'
  BY <1>1, <1>2, <1>3 DEF Same, ReadPart, RepairPart, WritePart, PutPart, Reading, Buffer
<1>5. ~Failed(r) /\ ~Failed(r)'
  BY <1>1, <1>2 DEF Failed, Returned
<1>6. CleanPart(r)' /\ FaultPart(r)'
  BY <1>1, <1>2, <1>3, <1>5, Steady DEF Same, Quiet, Putting
<1>7. AtomicPart(r)'
  BY <1>1, <1>2, <1>3, <1>5 DEF Parts, AtomicPart, Same, DataOf, Good
<1>8. QED
  BY <1>2, <1>4, <1>6, <1>7 DEF Parts

LEMMA GotDataInv ==
  ASSUME NEW r \in Requests, Types, Parts(r), GotData(r)
  PROVE  Types' /\ Parts(r)'
<1>1. req' \in [Requests -> Req] /\ req'[r].pc = "readCRC" /\ Still(r)
  BY GoEffect DEF GotData, Types, Places, Reading
<1>2. Types' /\ req[r].pc = "gotData" /\ ~Failed(r) /\ UNCHANGED <<disk, faults, writeBuffer, readBuffer, crcBuffer>>
  BY <1>1 DEF GotData, Types, buffers, Back, Failed
<1>3. ReadPart(r)'
  BY <1>1, <1>2 DEF Parts, ReadPart, Reading, Fetched, DataOf, CrcOf, Still, Same
<1>4. RepairPart(r)' /\ WritePart(r)' /\ PutPart(r)' /\ AtomicPart(r)'
  <2>1. req'[r].op = "read"
    BY <1>1, <1>2 DEF Parts, ReadPart, Reading, Still, Same
  <2>2. QED
    BY <1>1, <2>1 DEF RepairPart, WritePart, PutPart, AtomicPart, Putting
<1>5. CleanPart(r)' /\ FaultPart(r)'
  BY <1>1, <1>2, Steady DEF Quiet, Putting, Failed, Returned
<1>6. QED
  BY <1>2, <1>3, <1>4, <1>5 DEF Parts

LEMMA GotCRCInv ==
  ASSUME NEW r \in Requests, Types, Parts(r), GotCRC(r)
  PROVE  Types' /\ Parts(r)'
<1>0. req[r].i \in {0, 1} /\ req[r].crc \in [Disks -> Sums] /\ Disks = {0, 1}
  BY DEF Types, Req, Disks
<1>1. /\ req' \in [Requests -> Req] /\ Same(r) /\ req'[r].i = 1
      /\ req'[r].pc = IF req[r].i = 0 THEN "readData" ELSE "compare"
      /\ req'[r].crc = [req[r].crc EXCEPT ![req[r].i] = crcBuffer[req[r].s]]
  BY GotCRCEffect DEF Types
<1>2. Types' /\ req[r].pc = "gotCRC" /\ ~Failed(r) /\ UNCHANGED <<disk, faults, writeBuffer, readBuffer, crcBuffer>>
  BY <1>1 DEF GotCRC, Types, buffers, Back, Failed
<1>3. /\ req[r].op = "read" /\ (req[r].i = 1 => Fetched(r, 0)) /\ readBuffer[req[r].i] = DataOf(r, req[r].i)
      /\ crcBuffer = disk[req[r].i].crc
  BY <1>2 DEF Parts, ReadPart, Reading
<1>4. Fetched(r, 0)' /\ (req[r].i = 1 => Fetched(r, 1)')
  <2>1. CASE req[r].i = 0
    BY <1>0, <1>1, <1>2, <1>3, <2>1 DEF Fetched, DataOf, CrcOf, Same
  <2>2. CASE req[r].i = 1
    BY <1>0, <1>1, <1>2, <1>3, <2>2 DEF Fetched, DataOf, CrcOf, Same
  <2>3. QED
    BY <1>0, <2>1, <2>2
<1>5. ReadPart(r)'
  BY <1>0, <1>1, <1>3, <1>4 DEF ReadPart, Same
<1>6. RepairPart(r)' /\ WritePart(r)' /\ PutPart(r)' /\ AtomicPart(r)'
  BY <1>0, <1>1, <1>3 DEF Same, RepairPart, WritePart, PutPart, AtomicPart, Putting
<1>7. CleanPart(r)' /\ FaultPart(r)'
  BY <1>0, <1>1, <1>2, Steady DEF Quiet, Putting, Failed, Returned
<1>8. QED
  BY <1>2, <1>5, <1>6, <1>7 DEF Parts

(* Compare finds out which copies on the disks are right.                  *)
LEMMA RightIsGood ==
  ASSUME NEW r \in Requests, Parts(r), req[r].pc = "compare", NEW d \in Disks
  PROVE  (Right(r, d) <=> Good(d, req[r].s)) /\ readBuffer[d] = DataOf(r, d) /\ req[r].crc[d] = CrcOf(r, d)
<1>1. Fetched(r, d)
  BY DEF Parts, ReadPart, Reading, Disks
<1>2. QED
  BY <1>1 DEF Fetched, Right, Good, DataOf, CrcOf

(* Only disks that differ are repaired.                                    *)
LEMMA SameIfAgree ==
  ASSUME NEW r \in Requests, Parts(r), req[r].pc = "compare", Agree(req[r].s)
  PROVE  Right(r, 0) /\ Right(r, 1) /\ CRC[readBuffer[0]] = CRC[readBuffer[1]]
BY RightIsGood DEF Agree, DataOf, Disks

LEMMA RepairInv ==
  ASSUME NEW r \in Requests, Types, Parts(r), req[r].pc = "compare", NEW d \in Disks, Repair(r, d),
         Right(r, d), d = 0 \/ ~Right(r, 0), ~Agree(req[r].s),
         UNCHANGED <<disk, ioStatus, buffers, faults>>
  PROVE  Types' /\ Parts(r)'
<1>0. d \in {0, 1} /\ Disks = {0, 1} /\ req[r].s \in Sectors
  BY DEF Disks, Types, Req
<1>1. /\ req' \in [Requests -> Req] /\ Same(r) /\ req'[r].i = 1 - d /\ req'[r].from = d
      /\ req'[r].pc = "putData" /\ req'[r].sum = req[r].crc[d]
  BY RepairEffect DEF Types
<1>2. Types' /\ UNCHANGED <<disk, faults, writeBuffer, readBuffer, crcBuffer>>
  BY <1>1 DEF Types, buffers
<1>3. req[r].op = "read" /\ faults # 0
  BY <1>0 DEF Parts, ReadPart, Reading, CleanPart, Quiet, Putting
<1>4. /\ Good(d, req[r].s) /\ readBuffer[d] = DataOf(r, d) /\ req[r].crc[d] = CRC[readBuffer[d]]
      /\ Good(0, req[r].s) => d = 0
  BY <1>0, RightIsGood DEF Right
<1>5. RepairPart(r)'
  <2>1. req'[r].from = 1 - req'[r].i
    BY <1>0, <1>1
  <2>2. readBuffer'[req'[r].from] = DataOf(r, req[r].from)'
    BY <1>1, <1>2, <1>4 DEF DataOf, Same
  <2>3. Good(req[r].from, req[r].s)' /\ (Good(0, req[r].s)' => d = 0)
    BY <1>1, <1>2, <1>4 DEF Good, Same
  <2>4. d = 0 => DataOf(r, 0)' = readBuffer'[req'[r].from]
    BY <1>1, <1>2, <1>4 DEF DataOf, Same
  <2>5. QED
    BY <2>1, <2>2, <2>3, <2>4 DEF RepairPart
<1>6. ReadPart(r)' /\ WritePart(r)' /\ AtomicPart(r)'
  BY <1>1, <1>3 DEF ReadPart, WritePart, AtomicPart, Reading, Same
<1>7. PutPart(r)'
  BY <1>1, <1>2, <1>3, <1>4 DEF PutPart, Buffer, Same
<1>8. CleanPart(r)' /\ FaultPart(r)'
  BY <1>1, <1>2, <1>3, Steady DEF Same, Quiet, Putting, Failed, Returned
<1>9. QED
  BY <1>2, <1>5, <1>6, <1>7, <1>8 DEF Parts

LEMMA CompareInv ==
  ASSUME NEW r \in Requests, Types, Parts(r), Compare(r)
  PROVE  Types' /\ Parts(r)'
<1>0. /\ req[r].pc = "compare" /\ req[r].s \in Sectors /\ 0 \in Disks /\ 1 \in Disks
      /\ UNCHANGED <<disk, ioStatus, buffers, faults>>
  BY DEF Compare, Types, Req, Disks
<1>1. ASSUME NEW status \in {"ok", "fail"}, NEW got \in Data \cup {NoData}, Complete(r, status, got)
      PROVE  Types' /\ Parts(r)'
  <2>1. req' \in [Requests -> Req] /\ req'[r].pc = "done"
    BY <1>1, CompleteEffect DEF Types
  <2>2. Types'
    BY <1>0, <2>1 DEF Types, buffers
  <2>3. \A t \in Sectors : Quiet(r, t)
    BY <1>0 DEF Quiet, Putting
  <2>4. QED
    BY <1>0, <2>1, <2>2, <2>3, Ended DEF Parts, CleanPart, FaultPart
<1>2. readBuffer[0] \in Data
  BY <1>0 DEF Types
<1> DEFINE same == Right(r, 0) /\ Right(r, 1) /\ CRC[readBuffer[0]] = CRC[readBuffer[1]]
<1>3. CASE same /\ Complete(r, "ok", readBuffer[0])
  BY <1>1, <1>2, <1>3
<1>4. CASE ~same /\ Right(r, 0) /\ Repair(r, 0)
  <2>1. ~Agree(req[r].s)
    BY <1>0, <1>4, SameIfAgree
  <2>2. QED
    BY <1>0, <1>4, <2>1, RepairInv
<1>5. CASE ~Right(r, 0) /\ Right(r, 1) /\ Repair(r, 1)
  <2>1. ~Agree(req[r].s)
    BY <1>0, <1>5, SameIfAgree
  <2>2. QED
    BY <1>0, <1>5, <2>1, RepairInv
<1>6. CASE ~Right(r, 0) /\ ~Right(r, 1) /\ Complete(r, "fail", NoData)
  BY <1>1, <1>6
<1>7. QED
  BY <1>3, <1>4, <1>5, <1>6 DEF Compare

(* The parts that a step between two transfers to the same disk keeps.     *)
LEMMA StillPutting ==
  ASSUME NEW r \in Requests, Types, Parts(r), Still(r), UNCHANGED <<disk, readBuffer, writeBuffer, faults>>,
         req[r].pc \in Putting, req'[r].pc \in Putting, ~Failed(r)'
  PROVE  /\ ReadPart(r)' /\ RepairPart(r)' /\ WritePart(r)' /\ CleanPart(r)' /\ FaultPart(r)'
         /\ AtomicPart(r)' /\ Buffer(r)' = Buffer(r)
<1>1. req[r].pc \notin Reading /\ req'[r].pc \notin Reading /\ req[r].pc # "sum" /\ req'[r].pc # "sum"
      /\ req[r].pc # "done" /\ req'[r].pc # "done"
  BY DEF Putting, Reading
<1>2. ReadPart(r)' /\ WritePart(r)'
  BY <1>1 DEF ReadPart, Parts, WritePart, Still, Same, Good, DataOf
<1>3. RepairPart(r)'
  BY DEF Parts, RepairPart, Still, Same, Good, DataOf
<1>4. CleanPart(r)' /\ FaultPart(r)'
  <2>1. faults = 0 => req'[r].op = "write"
    BY DEF Parts, CleanPart, Still, Same
  <2>2. \A t \in Sectors : Quiet(r, t)' => Quiet(r, t)
    BY DEF Quiet, Still, Same
  <2>3. QED
    BY <2>1, <2>2, Steady
<1>5. AtomicPart(r)'
  BY DEF Parts, AtomicPart, Still, Same, Good, DataOf
<1>6. QED
  BY <1>2, <1>3, <1>4, <1>5 DEF Buffer, Still, Same

LEMMA PutDoneInv ==
  ASSUME NEW r \in Requests, Types, Parts(r), PutDone(r)
  PROVE  Types' /\ Parts(r)'
<1>1. req' \in [Requests -> Req] /\ req'[r].pc = "oldCRC" /\ Still(r)
  BY GoEffect DEF PutDone, Types, Places, Putting
<1>2. Types' /\ req[r].pc = "putDone" /\ ~Failed(r) /\ UNCHANGED <<disk, faults, writeBuffer, readBuffer, crcBuffer>>
  BY <1>1 DEF PutDone, Types, buffers, Back, Failed
<1>3. ~Failed(r)' /\ req[r].pc \in Putting /\ req'[r].pc \in Putting
  BY <1>1, <1>2 DEF Failed, Returned, Putting
<1>4. PutPart(r)'
  BY <1>1, <1>2, <1>3, StillPutting DEF Parts, PutPart, Still, Same, DataOf
<1>5. QED
  BY <1>1, <1>2, <1>3, <1>4, StillPutting DEF Parts

LEMMA PatchInv ==
  ASSUME NEW r \in Requests, Types, Parts(r), Patch(r)
  PROVE  Types' /\ Parts(r)'
<1>0. req[r].s \in Sectors /\ req[r].sum \in Sums
  BY DEF Types, Req
<1>1. req' \in [Requests -> Req] /\ req'[r].pc = "putCRC" /\ Still(r)
  BY GoEffect DEF Patch, Types, Places, Putting
<1>2. /\ req[r].pc = "patch" /\ ~Failed(r) /\ UNCHANGED <<disk, ioStatus, faults, writeBuffer, readBuffer>>
      /\ crcBuffer' = [crcBuffer EXCEPT ![req[r].s] = req[r].sum]
  BY <1>1 DEF Patch, Back, Failed
<1>3. Types'
  BY <1>0, <1>1, <1>2 DEF Types
<1>4. ~Failed(r)' /\ req[r].pc \in Putting /\ req'[r].pc \in Putting
  BY <1>1, <1>2 DEF Failed, Returned, Putting
<1>5. PutPart(r)'
  BY <1>1, <1>2, <1>4, StillPutting DEF Parts, PutPart, Still, Same, DataOf
<1>6. QED
  BY <1>1, <1>2, <1>3, <1>4, <1>5, StillPutting DEF Parts

LEMMA CRCDoneInv ==
  ASSUME NEW r \in Requests, Types, Parts(r), CRCDone(r)
  PROVE  Types' /\ Parts(r)'
<1>0. /\ req[r].i \in {0, 1} /\ req[r].op \in {"read", "write"} /\ req[r].s \in Sectors /\ faults \in Nat
      /\ req[r].pc = "crcDone" /\ req[r].pc \in Putting /\ ~Failed(r)
      /\ UNCHANGED <<disk, ioStatus, buffers, faults>>
  BY DEF Types, Req, Disks, CRCDone, Back, Failed, Putting
<1>1. CASE req[r].op = "write" /\ req[r].i = 0
  <2>1. /\ req' \in [Requests -> Req] /\ Same(r) /\ req'[r].i = 1
        /\ req'[r].pc = "putData" /\ req'[r].sum = req[r].sum
    BY <1>1, SecondDiskEffect DEF CRCDone, Types
  <2>2. Types' /\ UNCHANGED <<disk, faults, writeBuffer, readBuffer, crcBuffer>> /\ ~Failed(r)'
    BY <1>0, <2>1 DEF Types, buffers, Failed, Returned
  <2>3. Buffer(r) = req[r].v /\ writeBuffer = req[r].v
    BY <1>0, <1>1 DEF Parts, WritePart, Buffer
  <2>4. Good(0, req[r].s) /\ DataOf(r, 0) = req[r].v /\ req[r].sum = CRC[req[r].v]
    BY <1>0, <1>1, <2>3 DEF Parts, PutPart, Good, DataOf, CrcOf
  <2>5. ReadPart(r)' /\ RepairPart(r)' /\ AtomicPart(r)'
    BY <1>1, <2>1 DEF ReadPart, RepairPart, AtomicPart, Reading, Same
  <2>6. WritePart(r)' /\ PutPart(r)'
    <3>1. writeBuffer' = req'[r].v /\ req'[r].op = "write" /\ Buffer(r)' = req'[r].v
      BY <1>1, <2>1, <2>2, <2>3 DEF Same, Buffer
    <3>2. Good(0, req[r].s)' /\ DataOf(r, 0)' = req'[r].v
      BY <2>1, <2>2, <2>4 DEF Same, Good, DataOf
    <3>3. req'[r].sum = CRC[Buffer(r)']
      BY <2>1, <2>4, <3>1 DEF Same
    <3>4. QED
      BY <2>1, <3>1, <3>2, <3>3 DEF WritePart, PutPart
  <2>7. CleanPart(r)' /\ FaultPart(r)'
    <3>1. \A t \in Sectors : Quiet(r, t)' => Quiet(r, t)
      BY <1>0, <2>1 DEF Same, Quiet, Putting
    <3>2. req'[r].op = "write"
      BY <1>1, <2>1 DEF Same
    <3>3. QED
      BY <2>2, <3>1, <3>2, Steady
  <2>8. QED
    BY <2>2, <2>5, <2>6, <2>7 DEF Parts
<1>2. CASE ~(req[r].op = "write" /\ req[r].i = 0)
  <2>1. req' \in [Requests -> Req] /\ req'[r].pc = "done"
    BY <1>2, CompleteEffect DEF CRCDone, Types
  <2>2. Types'
    BY <1>0, <2>1 DEF Types, buffers
  <2>3. req[r].op = "read" \/ req[r].i = 1
    BY <1>0, <1>2
  <2>4. Agree(req[r].s)
    BY <1>0, <2>3, Mirrored
  <2>5. faults = 0 => \A t \in Sectors : Agree(t)
    BY <2>4 DEF Parts, CleanPart, Quiet
  <2>6. faults <= 1 => \A t \in Sectors : Good(0, t) \/ Good(1, t)
    BY <2>3, OneCopyRight
  <2>7. QED
    BY <1>0, <2>1, <2>2, <2>5, <2>6, Ended
<1>3. QED
  BY <1>1, <1>2

LEMMA GiveUpInv ==
  ASSUME NEW r \in Requests, Types, Parts(r), GiveUp(r)
  PROVE  Types' /\ Parts(r)'
<1>1. Failed(r) /\ Complete(r, "fail", NoData) /\ UNCHANGED <<disk, ioStatus, buffers, faults>>
  BY DEF GiveUp, Failed, Returned, Transfers, After
<1>2. req' \in [Requests -> Req] /\ req'[r].pc = "done"
  BY <1>1, CompleteEffect DEF Types
<1>3. Types'
  BY <1>1, <1>2 DEF Types, buffers
<1>4. faults # 0
  BY <1>1 DEF Parts, CleanPart
<1>5. faults <= 1 => \A t \in Sectors : Good(0, t) \/ Good(1, t)
  BY <1>1, OneCopyRight
<1>6. QED
  BY <1>1, <1>2, <1>3, <1>4, <1>5, Ended

(* A fault that ends the request.                                          *)
LEMMA FaultEnds ==
  ASSUME NEW r \in Requests, Types, Parts(r), req'[r].pc = "done", UNCHANGED disk, faults' = faults + 1
  PROVE  Parts(r)'
<1>1. faults' # 0 /\ (faults' <= 1 => faults = 0 /\ faults <= 1)
  BY DEF Types
<1>2. faults' <= 1 => \A t \in Sectors : Good(0, t) \/ Good(1, t)
  BY <1>1, OneCopyRight
<1>3. QED
  BY <1>1, <1>2, Ended

LEMMA NoIrpInv ==
  ASSUME NEW r \in Requests, Types, Parts(r), NoIrp(r)
  PROVE  Types' /\ Parts(r)'
<1>1. Complete(r, "fail", NoData) /\ UNCHANGED <<disk, ioStatus, buffers>> /\ faults' = faults + 1
  BY DEF NoIrp
<1>2. req' \in [Requests -> Req] /\ req'[r].pc = "done"
  BY <1>1, CompleteEffect DEF Types
<1>3. Types'
  BY <1>1, <1>2 DEF Types, buffers
<1>4. QED
  BY <1>1, <1>2, <1>3, FaultEnds

LEMMA TransferFailsInv ==
  ASSUME NEW r \in Requests, Types, Parts(r), TransferFails(r)
  PROVE  Types' /\ Parts(r)'
<1>0. req[r].i \in Disks /\ req[r].pc \in Transfers /\ faults \in Nat /\ After[req[r].pc] \in Places
      /\ After[req[r].pc] \in Returned /\ (After[req[r].pc] \in Putting <=> req[r].pc \in Putting)
      /\ (After[req[r].pc] \in Reading <=> req[r].pc \in Reading)
  BY DEF TransferFails, Types, Req, Transfers, After, Places, Reading, Putting, Returned
<1>1. req' \in [Requests -> Req] /\ req'[r].pc = After[req[r].pc] /\ Still(r)
  BY <1>0, GoEffect DEF TransferFails, Types
<1>2. /\ UNCHANGED <<disk, crcBuffer, readBuffer, writeBuffer>> /\ faults' = faults + 1
      /\ ioStatus' = [ioStatus EXCEPT ![req[r].i] = "fail"]
  BY DEF TransferFails, buffers
<1>3. Types' /\ Failed(r)' /\ faults' # 0
  <2>1. ioStatus' \in [Disks -> {"ok", "fail"}] /\ ioStatus'[req[r].i] = "fail"
    BY <1>0, <1>2 DEF Types
  <2>2. QED
    BY <1>0, <1>1, <1>2, <2>1 DEF Types, Failed, Still
<1>4. req'[r].pc \notin {"done", "sum", "compare", "readCRC", "putData", "oldCRC", "putCRC"}
      /\ req[r].pc \notin {"done", "sum"}
  BY <1>0, <1>1 DEF Returned, Transfers
<1>5. ReadPart(r)'
  BY <1>0, <1>1, <1>2, <1>3, <1>4 DEF Parts, ReadPart, Fetched, DataOf, CrcOf, Still, Same
<1>6. RepairPart(r)'
  BY <1>0, <1>1, <1>2 DEF Parts, RepairPart, DataOf, Good, Still, Same
<1>7. WritePart(r)'
  BY <1>0, <1>1, <1>2, <1>4 DEF Parts, WritePart, DataOf, Good, Still, Same
<1>8. PutPart(r)'
  <2>1. CASE req[r].pc \in Putting
    <3>1. Buffer(r)' = Buffer(r) /\ req'[r].sum = CRC[Buffer(r)']
      BY <1>1, <1>2, <2>1 DEF Parts, PutPart, Buffer, Still, Same
    <3>2. req[r].pc # "putData" => DataOf(r, req[r].i)' = Buffer(r)
      BY <1>0, <1>1, <1>2, <2>1 DEF Parts, PutPart, DataOf, Still, Same, Transfers
    <3>3. req[r].pc = "putData" => req'[r].pc = "putDone"
      BY <1>1 DEF After
    <3>4. QED
      BY <1>3, <1>4, <3>1, <3>2, <3>3 DEF PutPart
  <2>2. CASE req[r].pc \notin Putting
    BY <1>0, <1>1, <2>2 DEF PutPart
  <2>3. QED
    BY <2>1, <2>2
<1>9. CleanPart(r)' /\ FaultPart(r)'
  <2>1. CleanPart(r)'
    BY <1>3 DEF CleanPart
  <2>2. \A t \in Sectors : (Quiet(r, t)' <=> Quiet(r, t)) /\ (Good(0, t)' <=> Good(0, t)) /\ (Good(1, t)' <=> Good(1, t))
    BY <1>0, <1>1, <1>2 DEF Quiet, Good, Still, Same
  <2>3. faults' <= 1 => faults <= 1
    BY <1>0, <1>2
  <2>4. QED
    BY <2>1, <2>2, <2>3 DEF FaultPart, Parts
<1>10. AtomicPart(r)'
  <2>1. faults' = 0 \/ faults' = 1 => faults = 0
    BY <1>0, <1>2
  <2>2. QED
    BY <1>0, <1>1, <1>2, <1>4, <2>1 DEF AtomicPart, Parts, Still, Same, DataOf, Good
<1>11. QED
  BY <1>3, <1>5, <1>6, <1>7, <1>8, <1>9, <1>10 DEF Parts

(* What a transfer to a disk leaves as it was.                             *)
LEMMA OtherSectors ==
  ASSUME NEW r \in Requests, Parts(r), UNCHANGED faults, Still(r), ~Failed(r)',
         req[r].pc \in Putting, req'[r].pc \in Putting,
         \A t \in Sectors : t # req[r].s =>
             \A d \in Disks : disk'[d].data[t] = disk[d].data[t] /\ disk'[d].crc[t] = disk[d].crc[t]
  PROVE  CleanPart(r)' /\ FaultPart(r)'
<1>1. \A t \in Sectors : Quiet(r, t)' => Quiet(r, t) /\ t # req[r].s
  BY DEF Quiet, Still, Same
<1>2. \A t \in Sectors : Quiet(r, t)' =>
          (Agree(t)' <=> Agree(t)) /\ (Good(0, t)' <=> Good(0, t)) /\ (Good(1, t)' <=> Good(1, t))
  BY <1>1 DEF Agree, Good, Disks
<1>3. faults = 0 => req'[r].op = "write"
  BY DEF Parts, CleanPart, Still, Same
<1>4. QED
  BY <1>1, <1>2, <1>3 DEF Parts, CleanPart, FaultPart

(* A transfer that writes disk i and leaves the other one as it was.       *)
LEMMA OneDiskWritten ==
  ASSUME NEW r \in Requests, Types, Parts(r), UNCHANGED <<readBuffer, writeBuffer, faults>>, Still(r), ~Failed(r)',
         req[r].pc \in Putting, req'[r].pc \in Putting, ~Failed(r),
         \A d \in Disks : d # req[r].i => disk'[d] = disk[d],
         DataOf(r, req[r].i)' = Buffer(r)
  PROVE  RepairPart(r)' /\ WritePart(r)' /\ AtomicPart(r)' /\ ReadPart(r)' /\ Buffer(r)' = Buffer(r)
<1>0. /\ req[r].i \in {0, 1} /\ req[r].from \in {0, 1} /\ Disks = {0, 1} /\ req[r].op \in {"read", "write"}
      /\ req[r].pc \notin {"done", "sum"} /\ req'[r].pc \notin {"done", "sum"} /\ req'[r].pc \notin Reading
  BY DEF Types, Req, Disks, Putting, Reading
<1>1. Buffer(r)' = Buffer(r)
  BY DEF Buffer, Still, Same
<1>2. CASE req[r].op = "read"
  <2>1. /\ req[r].from = 1 - req[r].i /\ Buffer(r) = readBuffer[req[r].from]
        /\ readBuffer[req[r].from] = DataOf(r, req[r].from) /\ Good(req[r].from, req[r].s)
    BY <1>2 DEF Parts, RepairPart, Buffer
  <2>2. req[r].from # req[r].i /\ req[r].from \in Disks
    BY <1>0, <2>1
  <2>3. disk'[req[r].from] = disk[req[r].from]
    BY <2>2
  <2>4. DataOf(r, 0)' = readBuffer[req[r].from]
    <3>1. CASE req[r].i = 0
      BY <2>1, <3>1 DEF DataOf, Still, Same
    <3>2. CASE req[r].i = 1
      BY <2>1, <2>3, <3>2 DEF DataOf, Still, Same
    <3>3. QED
      BY <1>0, <3>1, <3>2
  <2>5. RepairPart(r)'
    BY <2>1, <2>3, <2>4 DEF RepairPart, DataOf, Good, Still, Same
  <2>6. QED
    BY <1>0, <1>1, <1>2, <2>5 DEF WritePart, AtomicPart, ReadPart, Still, Same
<1>3. CASE req[r].op = "write"
  <2>1. writeBuffer = req[r].v /\ Buffer(r) = req[r].v /\ (req[r].i = 1 => Good(0, req[r].s) /\ DataOf(r, 0) = req[r].v)
    BY <1>0, <1>3 DEF Parts, WritePart, Buffer
  <2>2. WritePart(r)'
    BY <1>0, <1>3, <2>1 DEF WritePart, Good, DataOf, Still, Same
  <2>3. AtomicPart(r)'
    <3> SUFFICES ASSUME faults = 0, req[r].i = 0
                 PROVE  DataOf(r, 0)' = req'[r].v /\ Good(1, req[r].s)' /\ DataOf(r, 1)' = req'[r].was
      BY DEF AtomicPart, Still
    <3>1. Good(1, req[r].s) /\ DataOf(r, 1) = req[r].was /\ disk'[1] = disk[1]
      BY <1>0, <1>3 DEF Parts, AtomicPart
    <3>2. QED
      BY <2>1, <3>1 DEF Good, DataOf, Still, Same
  <2>4. QED
    BY <1>0, <1>1, <1>3, <2>2, <2>3 DEF RepairPart, ReadPart, Still, Same
<1>4. QED
  BY <1>0, <1>2, <1>3

LEMMA TransferPuts ==
  ASSUME NEW r \in Requests, Types, Parts(r), Transfer(r), req[r].pc \in {"putData", "putCRC"}
  PROVE  Types' /\ Parts(r)'
<1>0. /\ req[r].i \in Disks /\ req[r].i \in {0, 1} /\ req[r].s \in Sectors /\ req[r].from \in Disks
      /\ faults \in Nat /\ Disks = {0, 1} /\ Buffer(r) \in Data /\ disk \in [Disks -> Disk]
  BY DEF Types, Req, Disks, Buffer
<1>1. After[req[r].pc] \in Places /\ After[req[r].pc] \in Putting /\ req[r].pc \in Putting
      /\ req[r].pc \notin Returned
  BY DEF After, Places, Putting, Returned
<1>2. req' \in [Requests -> Req] /\ req'[r].pc = After[req[r].pc] /\ Still(r)
  BY <1>1, GoEffect DEF Transfer, Types
<1>3. /\ UNCHANGED <<writeBuffer, readBuffer, crcBuffer, faults>>
      /\ ioStatus' = [ioStatus EXCEPT ![req[r].i] = "ok"]
  BY DEF Transfer
<1>4. ioStatus' \in [Disks -> {"ok", "fail"}] /\ ~Failed(r)' /\ ~Failed(r)
  <2>1. ioStatus' \in [Disks -> {"ok", "fail"}] /\ ioStatus'[req[r].i] = "ok"
    BY <1>0, <1>3 DEF Types
  <2>2. QED
    BY <1>1, <1>2, <2>1 DEF Failed, Still
<1>5. req[r].sum = CRC[Buffer(r)]
  BY <1>1 DEF Parts, PutPart
<1>6. CASE req[r].pc = "putData"
  <2>1. req'[r].pc = "putDone" /\ disk' = [disk EXCEPT ![req[r].i].data[req[r].s] = Buffer(r)]
    BY <1>2, <1>6 DEF Transfer, After
  <2>2. /\ disk' \in [Disks -> Disk] /\ disk'[req[r].i].data[req[r].s] = Buffer(r)
        /\ disk'[req[r].i].crc = disk[req[r].i].crc
        /\ \A t \in Sectors : t # req[r].s => disk'[req[r].i].data[t] = disk[req[r].i].data[t]
        /\ \A e \in Disks : e # req[r].i => disk'[e] = disk[e]
    <3>1. PICK d \in Disks, t \in Sectors, v \in Data : d = req[r].i /\ t = req[r].s /\ v = Buffer(r)
      BY <1>0
    <3>2. disk' = [disk EXCEPT ![d].data[t] = v]
      BY <2>1, <3>1
    <3>3. disk \in [Disks -> Disk]
      BY <1>0
    <3>4. /\ disk' \in [Disks -> Disk] /\ disk'[d].data[t] = v /\ disk'[d].crc = disk[d].crc
          /\ \A u \in Sectors : u # t => disk'[d].data[u] = disk[d].data[u]
          /\ \A e \in Disks : e # d => disk'[e] = disk[e]
      BY <3>2, <3>3, DataWritten
    <3>5. QED
      BY <3>1, <3>4
  <2>3. DataOf(r, req[r].i)' = Buffer(r)
    BY <1>2, <2>2 DEF DataOf, Still, Same
  <2>4. RepairPart(r)' /\ WritePart(r)' /\ AtomicPart(r)' /\ ReadPart(r)' /\ Buffer(r)' = Buffer(r)
    BY <1>1, <1>2, <1>3, <1>4, <2>2, <2>3, OneDiskWritten
  <2>5. PutPart(r)'
    BY <1>2, <1>5, <2>1, <2>3, <2>4 DEF PutPart, Still
  <2>6. CleanPart(r)' /\ FaultPart(r)'
    BY <1>1, <1>2, <1>3, <1>4, <2>2, OtherSectors
  <2>7. QED
    BY <1>2, <1>3, <1>4, <2>2, <2>4, <2>5, <2>6 DEF Types, Parts
<1>7. CASE req[r].pc = "putCRC"
  <2>1. req'[r].pc = "crcDone" /\ disk' = [disk EXCEPT ![req[r].i].crc = crcBuffer]
    BY <1>2, <1>7 DEF Transfer, After
  <2>2. /\ disk' \in [Disks -> Disk] /\ disk'[req[r].i].crc = crcBuffer
        /\ disk'[req[r].i].data = disk[req[r].i].data
        /\ \A e \in Disks : e # req[r].i => disk'[e] = disk[e]
    BY <1>0, <2>1, CrcWritten DEF Types
  <2>3. DataOf(r, req[r].i) = Buffer(r) /\ crcBuffer = [disk[req[r].i].crc EXCEPT ![req[r].s] = req[r].sum]
    BY <1>1, <1>7 DEF Parts, PutPart
  <2>4. crcBuffer[req[r].s] = req[r].sum /\ \A t \in Sectors : t # req[r].s => crcBuffer[t] = disk[req[r].i].crc[t]
    BY <1>0, <2>3 DEF Disk
  <2>5. DataOf(r, req[r].i)' = Buffer(r) /\ CrcOf(r, req[r].i)' = req[r].sum
    BY <1>2, <2>2, <2>3, <2>4 DEF DataOf, CrcOf, Still, Same
  <2>6. RepairPart(r)' /\ WritePart(r)' /\ AtomicPart(r)' /\ ReadPart(r)' /\ Buffer(r)' = Buffer(r)
    BY <1>1, <1>2, <1>3, <1>4, <2>2, <2>5, OneDiskWritten
  <2>7. PutPart(r)'
    BY <1>2, <1>5, <2>1, <2>5, <2>6 DEF PutPart, Still
  <2>8. CleanPart(r)' /\ FaultPart(r)'
    BY <1>1, <1>2, <1>3, <1>4, <2>2, <2>4, OtherSectors
  <2>9. QED
    BY <1>2, <1>3, <1>4, <2>2, <2>6, <2>7, <2>8 DEF Types, Parts
<1>8. QED
  BY <1>6, <1>7

LEMMA TransferInv ==
  ASSUME NEW r \in Requests, Types, Parts(r), Transfer(r)
  PROVE  Types' /\ Parts(r)'
<1>0. /\ req[r].i \in Disks /\ req[r].i \in {0, 1} /\ req[r].s \in Sectors /\ req[r].from \in {0, 1}
      /\ req[r].pc \in Transfers /\ faults \in Nat /\ Disks = {0, 1}
  BY DEF Transfer, Types, Req, Disks
<1>1. After[req[r].pc] \in Places
  BY <1>0 DEF Transfers, After, Places, Reading, Putting
<1>2. req' \in [Requests -> Req] /\ req'[r].pc = After[req[r].pc] /\ Still(r)
  BY <1>1, GoEffect DEF Transfer, Types
<1>3. UNCHANGED <<writeBuffer, faults>> /\ ioStatus' = [ioStatus EXCEPT ![req[r].i] = "ok"]
  BY DEF Transfer
<1>4. ioStatus' \in [Disks -> {"ok", "fail"}] /\ ~Failed(r)'
  <2>1. ioStatus' \in [Disks -> {"ok", "fail"}] /\ ioStatus'[req[r].i] = "ok"
    BY <1>0, <1>3 DEF Types
  <2>2. QED
    BY <1>2, <2>1 DEF Failed, Still
<1>5. CASE req[r].pc = "readData"
  <2>1. req'[r].pc = "gotData" /\ readBuffer' = [readBuffer EXCEPT ![req[r].i] = DataOf(r, req[r].i)]
        /\ UNCHANGED <<disk, crcBuffer>>
    BY <1>2, <1>5 DEF Transfer, After, DataOf
  <2>2. Types'
    BY <1>0, <1>2, <1>3, <1>4, <2>1 DEF Types, Disk, DataOf
  <2>3. req[r].op = "read" /\ (req[r].i = 1 => Fetched(r, 0))
    BY <1>5 DEF Parts, ReadPart, Reading
  <2>4. ReadPart(r)'
    <3>1. readBuffer'[req[r].i] = DataOf(r, req[r].i) /\ (req[r].i = 1 => readBuffer'[0] = readBuffer[0])
      BY <1>0, <2>1 DEF Types
    <3>2. QED
      BY <1>2, <2>1, <2>3, <3>1 DEF ReadPart, Fetched, DataOf, CrcOf, Still, Same
  <2>5. RepairPart(r)' /\ WritePart(r)' /\ PutPart(r)' /\ AtomicPart(r)'
    BY <1>2, <2>1, <2>3 DEF Still, Same, RepairPart, WritePart, PutPart, AtomicPart, Putting
  <2>6. CleanPart(r)' /\ FaultPart(r)'
    BY <1>3, <1>4, <1>5, <2>1, Steady DEF Quiet, Putting
  <2>7. QED
    BY <2>2, <2>4, <2>5, <2>6 DEF Parts
<1>6. CASE req[r].pc = "readCRC"
  <2>1. req'[r].pc = "gotCRC" /\ crcBuffer' = disk[req[r].i].crc /\ UNCHANGED <<disk, readBuffer>>
    BY <1>2, <1>6 DEF Transfer, After
  <2>2. Types'
    BY <1>0, <1>2, <1>3, <1>4, <2>1 DEF Types, Disk
  <2>3. req[r].op = "read" /\ (req[r].i = 1 => Fetched(r, 0)) /\ readBuffer[req[r].i] = DataOf(r, req[r].i)
    BY <1>6 DEF Parts, ReadPart, Reading, Failed, Returned
  <2>4. ReadPart(r)'
    BY <1>2, <2>1, <2>3 DEF ReadPart, Fetched, DataOf, CrcOf, Still, Same
  <2>5. RepairPart(r)' /\ WritePart(r)' /\ PutPart(r)' /\ AtomicPart(r)'
    BY <1>2, <2>1, <2>3 DEF Still, Same, RepairPart, WritePart, PutPart, AtomicPart, Putting
  <2>6. CleanPart(r)' /\ FaultPart(r)'
    BY <1>3, <1>4, <1>6, <2>1, Steady DEF Quiet, Putting
  <2>7. QED
    BY <2>2, <2>4, <2>5, <2>6 DEF Parts
<1>7. CASE req[r].pc = "oldCRC"
  <2>1. req'[r].pc = "patch" /\ crcBuffer' = disk[req[r].i].crc /\ UNCHANGED <<disk, readBuffer>>
    BY <1>2, <1>7 DEF Transfer, After
  <2>2. Types'
    BY <1>0, <1>2, <1>3, <1>4, <2>1 DEF Types, Disk
  <2>3. req[r].pc \in Putting /\ req'[r].pc \in Putting
    BY <1>7, <2>1 DEF Putting
  <2>4. /\ ReadPart(r)' /\ RepairPart(r)' /\ WritePart(r)' /\ CleanPart(r)' /\ FaultPart(r)'
        /\ AtomicPart(r)' /\ Buffer(r)' = Buffer(r)
    BY <1>2, <1>3, <1>4, <2>1, <2>3, StillPutting
  <2>5. req[r].sum = CRC[Buffer(r)] /\ DataOf(r, req[r].i) = Buffer(r)
    BY <1>7, <2>3 DEF Parts, PutPart
  <2>6. PutPart(r)'
    BY <1>2, <2>1, <2>4, <2>5 DEF PutPart, DataOf, Still, Same
  <2>7. QED
    BY <2>2, <2>4, <2>6 DEF Parts
<1>8. CASE req[r].pc \in {"putData", "putCRC"}
  BY <1>8, TransferPuts
<1>9. QED
  BY <1>0, <1>5, <1>6, <1>7, <1>8 DEF Transfers

-----------------------------------------------------------------------------
(* The environment.                                                        *)

LEMMA PowerFailureInv ==
  ASSUME NEW r \in Requests, Types, Parts(r), PowerFailure
  PROVE  Types' /\ Parts(r)'
<1>1. req' = [q \in Requests |-> NoRequest] /\ UNCHANGED disk /\ faults' = faults + 1
  BY DEF PowerFailure
<1>2. req' \in [Requests -> Req] /\ req'[r].pc = "done"
  BY <1>1, NoRequestType
<1>3. CRC[Zero] \in Sums /\ Zero \in Data
  BY RAIDAssumption
<1>4. Types'
  BY <1>1, <1>2, <1>3 DEF PowerFailure, Types
<1>5. QED
  BY <1>1, <1>2, <1>4, FaultEnds

(* Only one copy of one sector is damaged.                                 *)
LEMMA DamageDisk ==
  ASSUME Types, NEW d \in Disks, NEW s \in Sectors, Damage(d, s)
  PROVE  /\ disk' \in [Disks -> Disk]
         /\ \A e \in Disks, t \in Sectors : e # d \/ t # s =>
                disk'[e].data[t] = disk[e].data[t] /\ disk'[e].crc[t] = disk[e].crc[t]
         /\ \/ disk'[d].data[s] \in Data \ {disk[d].data[s]} /\ disk'[d].crc[s] = disk[d].crc[s]
            \/ disk'[d].data[s] = disk[d].data[s] /\ disk'[d].crc[s] \in Sums \ {disk[d].crc[s]}
<1>0. disk \in [Disks -> Disk]
  BY DEF Types
<1>1. ASSUME NEW v \in Data \ {disk[d].data[s]}, disk' = [disk EXCEPT ![d].data[s] = v]
      PROVE  /\ disk' \in [Disks -> Disk]
             /\ \A e \in Disks, t \in Sectors : e # d \/ t # s =>
                   disk'[e].data[t] = disk[e].data[t] /\ disk'[e].crc[t] = disk[e].crc[t]
             /\ disk'[d].data[s] = v /\ disk'[d].crc[s] = disk[d].crc[s]
  <2>1. /\ disk' \in [Disks -> Disk] /\ disk'[d].data[s] = v /\ disk'[d].crc = disk[d].crc
        /\ \A t \in Sectors : t # s => disk'[d].data[t] = disk[d].data[t]
        /\ \A e \in Disks : e # d => disk'[e] = disk[e]
    BY <1>0, <1>1, DataWritten
  <2>2. QED
    BY <2>1
<1>2. ASSUME NEW c \in Sums \ {disk[d].crc[s]}, disk' = [disk EXCEPT ![d].crc[s] = c]
      PROVE  /\ disk' \in [Disks -> Disk]
             /\ \A e \in Disks, t \in Sectors : e # d \/ t # s =>
                   disk'[e].data[t] = disk[e].data[t] /\ disk'[e].crc[t] = disk[e].crc[t]
             /\ disk'[d].data[s] = disk[d].data[s] /\ disk'[d].crc[s] = c
  <2>1. /\ disk' \in [Disks -> Disk] /\ disk'[d].crc[s] = c /\ disk'[d].data = disk[d].data
        /\ \A t \in Sectors : t # s => disk'[d].crc[t] = disk[d].crc[t]
        /\ \A e \in Disks : e # d => disk'[e] = disk[e]
    BY <1>0, <1>2, CrcDamaged
  <2>2. QED
    BY <2>1
<1>3. QED
  BY <1>1, <1>2 DEF Damage

LEMMA DamageInv ==
  ASSUME NEW r \in Requests, Types, Parts(r), NEW d \in Disks, NEW s \in Sectors, Damage(d, s)
  PROVE  Types' /\ Parts(r)'
<1>0. /\ req[r].pc = "done" /\ UNCHANGED <<ioStatus, crcBuffer, readBuffer, writeBuffer, req>>
      /\ faults' = faults + 1 /\ faults \in Nat /\ faults' # 0 /\ faults' \in Nat
  BY DEF Damage, Idle, buffers, Types
<1>1. /\ disk' \in [Disks -> Disk]
      /\ \A e \in Disks, t \in Sectors : e # d \/ t # s =>
            disk'[e].data[t] = disk[e].data[t] /\ disk'[e].crc[t] = disk[e].crc[t]
  BY DamageDisk
<1>2. Types'
  BY <1>0, <1>1 DEF Types
<1>3. /\ req'[r].pc \notin Putting /\ req'[r].pc \notin Reading /\ req'[r].pc \notin Returned
      /\ req'[r].pc # "sum" /\ req'[r].pc = "done"
  BY <1>0 DEF Putting, Reading, Returned
<1>4. ReadPart(r)' /\ RepairPart(r)' /\ WritePart(r)' /\ PutPart(r)' /\ AtomicPart(r)' /\ CleanPart(r)'
  BY <1>0, <1>3 DEF ReadPart, RepairPart, WritePart, PutPart, AtomicPart, CleanPart
<1>5. FaultPart(r)'
  <2> SUFFICES ASSUME faults' <= 1, NEW t \in Sectors PROVE Good(0, t)' \/ Good(1, t)'
    BY DEF FaultPart
  <2>1. Agree(t)
    BY <1>0, <1>3 DEF Parts, CleanPart, Quiet
  <2>2. CASE d = 0
    BY <1>1, <2>1, <2>2 DEF Agree, Good, Disks
  <2>3. CASE d = 1
    BY <1>1, <2>1, <2>3 DEF Agree, Good, Disks
  <2>4. QED
    BY <2>2, <2>3 DEF Disks
<1>6. QED
  BY <1>2, <1>4, <1>5 DEF Parts

-----------------------------------------------------------------------------
(* The invariant.                                                          *)

LEMMA InitInv == Init => Inv
<1> SUFFICES ASSUME Init PROVE Inv
  OBVIOUS
<1>1. PICK data \in [Sectors -> Data] :
         disk = [d \in Disks |-> [data |-> data, crc |-> [s \in Sectors |-> CRC[data[s]]]]]
  BY DEF Init
<1>2. CRC[Zero] \in Sums /\ Zero \in Data /\ [s \in Sectors |-> CRC[data[s]]] \in [Sectors -> Sums]
  BY RAIDAssumption
<1>3. disk \in [Disks -> Disk]
  BY <1>1, <1>2 DEF Disk
<1>4. Types
  BY <1>2, <1>3, NoRequestType DEF Init, Types
<1>5. \A t \in Sectors : Agree(t)
  BY <1>1 DEF Agree, Good, Disks
<1>6. ASSUME NEW r \in Requests PROVE Parts(r)
  <2>1. req[r] = NoRequest /\ req[r].pc = "done"
    BY NoRequestType DEF Init
  <2>2. req[r].pc \notin Putting /\ req[r].pc \notin Reading /\ req[r].pc \notin Returned /\ req[r].pc # "sum"
    BY <2>1 DEF Putting, Reading, Returned
  <2>3. ReadPart(r) /\ RepairPart(r) /\ WritePart(r) /\ PutPart(r) /\ AtomicPart(r)
    BY <2>1, <2>2 DEF ReadPart, RepairPart, WritePart, PutPart, AtomicPart
  <2>4. CleanPart(r) /\ FaultPart(r)
    BY <1>5, <2>2 DEF CleanPart, FaultPart, Failed, Agree
  <2>5. QED
    BY <2>3, <2>4 DEF Parts
<1>7. QED
  BY <1>4, <1>6 DEF Inv

LEMMA NextInv ==
  ASSUME Sole
  PROVE  Inv /\ [Next]_vars => Inv'
<1> SUFFICES ASSUME Inv, [Next]_vars PROVE Inv'
  OBVIOUS
<1>0. PICK r : Requests = {r}
  BY DEF Sole
<1>1. r \in Requests /\ Types /\ Parts(r)
  BY <1>0 DEF Inv
<1>2. Types' /\ Parts(r)'
  <2>1. CASE Step(r)
    BY <1>1, <2>1, SumInv, TransferInv, TransferFailsInv, NoIrpInv, GiveUpInv, GotDataInv, GotCRCInv,
       CompareInv, PutDoneInv, PatchInv, CRCDoneInv DEF Step
  <2>2. ASSUME NEW s \in Sectors, StartRead(r, s) PROVE Types' /\ Parts(r)'
    BY <1>1, <2>2, StartReadInv
  <2>3. ASSUME NEW s \in Sectors, NEW v \in Data, StartWrite(r, s, v) PROVE Types' /\ Parts(r)'
    BY <1>1, <2>3, StartWriteInv
  <2>4. CASE PowerFailure
    BY <1>1, <2>4, PowerFailureInv
  <2>5. ASSUME NEW d \in Disks, NEW s \in Sectors, Damage(d, s) PROVE Types' /\ Parts(r)'
    BY <1>1, <2>5, DamageInv
  <2>6. CASE UNCHANGED vars
    <3>1. UNCHANGED <<disk, ioStatus, crcBuffer, readBuffer, writeBuffer, req, faults>>
      BY <2>6 DEF vars
    <3>2. Types'
      BY <1>1, <3>1 DEF Types
    <3>3. ReadPart(r)' /\ RepairPart(r)' /\ WritePart(r)'
      BY <1>1, <3>1 DEF Parts, ReadPart, RepairPart, WritePart, Failed, Fetched, DataOf, CrcOf, Good
    <3>4. PutPart(r)' /\ AtomicPart(r)'
      BY <1>1, <3>1 DEF Parts, PutPart, AtomicPart, Failed, DataOf, CrcOf, Good, Buffer
    <3>5. CleanPart(r)' /\ FaultPart(r)'
      BY <1>1, <3>1 DEF Parts, CleanPart, FaultPart, Failed, Quiet, Agree, Good
    <3>6. QED
      BY <3>2, <3>3, <3>4, <3>5 DEF Parts
  <2>7. QED
    BY <1>0, <2>1, <2>2, <2>3, <2>4, <2>5, <2>6 DEF Next
<1>3. QED
  BY <1>0, <1>2 DEF Inv

LEMMA InvHolds ==
  ASSUME Sole
  PROVE  Spec => []Inv
<1>1. QED
  BY InitInv, NextInv, PTL DEF Spec

-----------------------------------------------------------------------------
(* The theorems.                                                           *)

(* For one request at a time, any sectors, contents and CRC: one failed    *)
(* transfer, power failure or damaged copy never makes a sector unreadable.*)
THEOREM SectorsStayReadable == Sole => (Spec => []KeepsReadable)
<1> SUFFICES ASSUME Sole PROVE Spec => []KeepsReadable
  OBVIOUS
<1>1. Inv => KeepsReadable
  <2> SUFFICES ASSUME Inv, Idle, faults <= 1, NEW s \in Sectors PROVE Readable(s) # NoData
    BY DEF KeepsReadable
  <2>1. PICK r : Requests = {r}
    BY DEF Sole
  <2>2. r \in Requests /\ Types /\ Parts(r) /\ req[r].pc = "done"
    BY <2>1 DEF Inv, Idle
  <2>3. Good(0, s) \/ Good(1, s)
    BY <2>2 DEF Parts, FaultPart, Quiet, Putting
  <2>4. disk[0].data[s] \in Data /\ disk[1].data[s] \in Data /\ NoData \notin Data
    BY <2>2, RAIDAssumption DEF Types, Disk, Disks
  <2>5. QED
    BY <2>3, <2>4 DEF Readable
<1>2. QED
  BY <1>1, InvHolds, PTL

(* The steps with which a request can end.                                 *)
LEMMA DoneBy ==
  ASSUME NEW r, Requests = {r}, Types, [Next]_vars, req[r].pc # "done", req'[r].pc = "done"
  PROVE  Compare(r) \/ CRCDone(r) \/ GiveUp(r) \/ NoIrp(r) \/ PowerFailure
<1>0. r \in Requests /\ req \in [Requests -> Req] /\ writeBuffer \in Data /\ crcBuffer \in [Sectors -> Sums]
  BY DEF Types
<1>1. CASE Step(r)
  <2>1. ~Sum(r)
    BY <1>0, SumEffect
  <2>2. ASSUME NEW pc \in Places, Go(r, pc) PROVE pc = "done"
    BY <1>0, <2>2, GoEffect
  <2>3. /\ "readCRC" \in Places /\ "oldCRC" \in Places /\ "putCRC" \in Places
        /\ \A t \in Transfers : After[t] \in Places /\ After[t] # "done"
    BY DEF Places, Reading, Putting, Transfers, After
  <2>4. ~Transfer(r) /\ ~TransferFails(r)
    BY <2>2, <2>3 DEF Transfer, TransferFails
  <2>5. ~GotData(r) /\ ~PutDone(r) /\ ~Patch(r)
    BY <2>2, <2>3 DEF GotData, PutDone, Patch
  <2>6. ~GotCRC(r)
    <3>1. GotCRC(r) => req'[r].pc = IF req[r].i = 0 THEN "readData" ELSE "compare"
      BY <1>0, GotCRCEffect
    <3>2. QED
      BY <3>1
  <2>7. QED
    BY <1>1, <2>1, <2>4, <2>5, <2>6 DEF Step
<1>2. CASE \E s \in Sectors : StartRead(r, s)
  BY <1>2 DEF StartRead
<1>3. CASE \E s \in Sectors, v \in Data : StartWrite(r, s, v)
  BY <1>3 DEF StartWrite
<1>4. CASE \E d \in Disks, s \in Sectors : Damage(d, s)
  BY <1>0, <1>4 DEF Damage, Idle
<1>5. CASE UNCHANGED vars
  BY <1>5 DEF vars
<1>6. QED
  BY <1>1, <1>2, <1>3, <1>4, <1>5 DEF Next

(* A request that succeeds leaves its sector the same on both disks.       *)
LEMMA SuccessStep ==
  ASSUME Injective, NEW r, Requests = {r}, Types, Parts(r), [Next]_vars, NEW s \in Sectors,
         Under(r, s), req'[r].pc = "done", req'[r].status = "ok"
  PROVE  Agree(s)'
<1>0. /\ r \in Requests /\ req \in [Requests -> Req] /\ req[r].pc # "done" /\ req[r].s = s
      /\ req[r].op \in {"read", "write"} /\ req[r].i \in {0, 1}
  BY DEF Types, Under, Req, Disks
<1>1. ~Complete(r, "fail", NoData)
  BY <1>0, CompleteEffect
<1>2. ~GiveUp(r) /\ ~NoIrp(r)
  BY <1>1 DEF GiveUp, NoIrp
<1>3. ~PowerFailure
  BY <1>0, NoRequestType DEF PowerFailure
<1>4. ASSUME UNCHANGED disk, Agree(s) PROVE Agree(s)'
  BY <1>4 DEF Agree, Good
<1>5. CASE Compare(r)
  <2>1. req[r].pc = "compare" /\ UNCHANGED disk /\ 0 \in Disks /\ 1 \in Disks
    BY <1>5 DEF Compare, Disks
  <2>2. ~Repair(r, 0) /\ ~Repair(r, 1)
    BY <1>0, <2>1, RepairEffect
  <2>3. Right(r, 0) /\ Right(r, 1) /\ CRC[readBuffer[0]] = CRC[readBuffer[1]]
    BY <1>1, <1>5, <2>2 DEF Compare
  <2>4. /\ Good(0, s) /\ Good(1, s) /\ readBuffer[0] = disk[0].data[s] /\ readBuffer[1] = disk[1].data[s]
    BY <1>0, <2>1, <2>3, RightIsGood DEF DataOf
  <2>5. readBuffer[0] = readBuffer[1]
    BY <2>1, <2>3 DEF Injective, Types
  <2>6. QED
    BY <1>4, <2>1, <2>4, <2>5 DEF Agree
<1>6. CASE CRCDone(r)
  <2>1. req[r].pc = "crcDone" /\ ~Failed(r) /\ UNCHANGED disk
    BY <1>6 DEF CRCDone, Back, Failed
  <2>2. ~(req[r].op = "write" /\ req[r].i = 0)
    BY <1>0, <1>6, SecondDiskEffect DEF CRCDone
  <2>3. Agree(s)
    BY <1>0, <2>1, <2>2, Mirrored
  <2>4. QED
    BY <1>4, <2>1, <2>3
<1>7. QED
  BY <1>0, <1>2, <1>3, <1>5, <1>6, DoneBy

(* For one request at a time, any sectors and contents, any number of      *)
(* faults, and a CRC that tells the contents apart: a MyRead() or          *)
(* MyWrite() that ends with success leaves both disks with the same data   *)
(* and its CRC.                                                            *)
THEOREM SuccessMeansMirrored == Sole /\ Injective => (Spec => SuccessMirrors)
<1> SUFFICES ASSUME Sole, Injective PROVE Spec => SuccessMirrors
  OBVIOUS
<1>1. Inv /\ [Next]_vars =>
        [\A r \in Requests, s \in Sectors :
            Under(r, s) /\ req'[r].pc = "done" /\ req'[r].status = "ok" => Agree(s)']_vars
  <2> SUFFICES ASSUME Inv, [Next]_vars, NEW r \in Requests, NEW s \in Sectors,
                      Under(r, s), req'[r].pc = "done", req'[r].status = "ok"
               PROVE  Agree(s)'
    OBVIOUS
  <2>1. Requests = {r} /\ Types /\ Parts(r)
    BY DEF Sole, Inv
  <2>2. QED
    BY <2>1, SuccessStep
<1>2. QED
  BY <1>1, InvHolds, PTL DEF Spec, SuccessMirrors

-----------------------------------------------------------------------------
(* What a sector reads as.                                                 *)

LEMMA ReadableSame ==
  ASSUME NEW s, \A d \in Disks : disk'[d].data[s] = disk[d].data[s] /\ disk'[d].crc[s] = disk[d].crc[s]
  PROVE  Readable(s)' = Readable(s)
BY DEF Readable, Good, Disks

(* While a read repairs a disk the sector reads as the right copy.         *)
RepairReads ==
  \A r \in Requests : Types /\ RepairPart(r) /\ req[r].pc \in Putting /\ req[r].op = "read" =>
     Readable(req[r].s) = readBuffer[req[r].from]

LEMMA RepairReadsHolds == RepairReads
<1> SUFFICES ASSUME NEW r \in Requests, Types, RepairPart(r), req[r].pc \in Putting, req[r].op = "read"
             PROVE  Readable(req[r].s) = readBuffer[req[r].from]
  BY DEF RepairReads
<1>1. req[r].from \in {0, 1}
  BY DEF Types, Req, Disks
<1>2. /\ readBuffer[req[r].from] = DataOf(r, req[r].from) /\ Good(req[r].from, req[r].s)
      /\ Good(0, req[r].s) => DataOf(r, 0) = readBuffer[req[r].from]
  BY DEF RepairPart
<1>3. CASE Good(0, req[r].s)
  BY <1>2, <1>3 DEF Readable, DataOf
<1>4. CASE ~Good(0, req[r].s)
  <2>1. req[r].from = 1
    BY <1>1, <1>2, <1>4
  <2>2. QED
    BY <1>2, <1>4, <2>1 DEF Readable, DataOf
<1>5. QED
  BY <1>3, <1>4

(* A transfer to a disk changes the sector of the request only: the CRCs   *)
(* of the others are written as they were read.                            *)
LEMMA TransferSector ==
  ASSUME NEW r \in Requests, Types, Parts(r), Transfer(r), NEW s \in Sectors, s # req[r].s, NEW e \in Disks
  PROVE  disk'[e].data[s] = disk[e].data[s] /\ disk'[e].crc[s] = disk[e].crc[s]
<1>0. req[r].i \in Disks /\ req[r].s \in Sectors /\ Buffer(r) \in Data /\ disk \in [Disks -> Disk]
  BY DEF Types, Req, Buffer
<1>1. CASE req[r].pc = "putData"
  <2>1. PICK d \in Disks, t \in Sectors, v \in Data : d = req[r].i /\ t = req[r].s /\ v = Buffer(r)
    BY <1>0
  <2>2. disk' = [disk EXCEPT ![d].data[t] = v]
    BY <1>1, <2>1 DEF Transfer
  <2>3. disk \in [Disks -> Disk]
    BY <1>0
  <2>4. /\ disk'[d].crc = disk[d].crc
        /\ \A u \in Sectors : u # t => disk'[d].data[u] = disk[d].data[u]
        /\ \A f \in Disks : f # d => disk'[f] = disk[f]
    BY <2>2, <2>3, DataWritten
  <2>5. QED
    BY <2>1, <2>4
<1>2. CASE req[r].pc = "putCRC"
  <2>1. disk' = [disk EXCEPT ![req[r].i].crc = crcBuffer] /\ crcBuffer \in [Sectors -> Sums]
    BY <1>2 DEF Transfer, Types
  <2>2. /\ disk'[req[r].i].crc = crcBuffer /\ disk'[req[r].i].data = disk[req[r].i].data
        /\ \A f \in Disks : f # req[r].i => disk'[f] = disk[f]
    BY <1>0, <2>1, CrcWritten
  <2>3. crcBuffer = [disk[req[r].i].crc EXCEPT ![req[r].s] = req[r].sum]
    BY <1>2 DEF Parts, PutPart, Putting
  <2>4. crcBuffer[s] = disk[req[r].i].crc[s]
    BY <1>0, <2>3 DEF Disk
  <2>5. QED
    BY <2>2, <2>4
<1>3. CASE req[r].pc \notin {"putData", "putCRC"}
  BY <1>3 DEF Transfer
<1>4. QED
  BY <1>1, <1>2, <1>3

(* Damage to one of two equal copies does not show.                        *)
LEMMA DamageUnseen ==
  ASSUME Injective, Types, NEW d \in Disks, NEW s \in Sectors, Agree(s), Damage(d, s)
  PROVE  Readable(s)' = Readable(s)
<1>1. disk[0].data[s] \in Data /\ disk[1].data[s] \in Data
  BY DEF Types, Disk, Disks
<1>2. /\ \A e \in Disks : e # d => disk'[e].data[s] = disk[e].data[s] /\ disk'[e].crc[s] = disk[e].crc[s]
      /\ \/ disk'[d].data[s] \in Data \ {disk[d].data[s]} /\ disk'[d].crc[s] = disk[d].crc[s]
         \/ disk'[d].data[s] = disk[d].data[s] /\ disk'[d].crc[s] \in Sums \ {disk[d].crc[s]}
  BY DamageDisk
<1>3. disk[d].data[s] \in Data /\ disk[d].crc[s] = CRC[disk[d].data[s]]
  BY <1>1 DEF Agree, Good, Disks
<1>4. ~Good(d, s)'
  BY <1>2, <1>3 DEF Good, Injective
<1>5. CASE d = 0
  <2>1. Good(1, s)' /\ disk'[1].data[s] = disk[1].data[s]
    BY <1>2, <1>5 DEF Agree, Good, Disks
  <2>2. QED
    BY <1>4, <1>5, <2>1 DEF Readable, Agree
<1>6. CASE d = 1
  <2>1. Good(0, s)' /\ disk'[0].data[s] = disk[0].data[s]
    BY <1>2, <1>6 DEF Agree, Good, Disks
  <2>2. QED
    BY <2>1 DEF Readable, Agree
<1>7. QED
  BY <1>5, <1>6 DEF Disks

LEMMA OnlyWritesStep ==
  ASSUME Injective, NEW r, Requests = {r}, Inv, Inv', [Next]_vars, NEW s \in Sectors,
         ~(Under(r, s) /\ req[r].op = "write"), faults' <= 1
  PROVE  Readable(s)' = Readable(s)
<1>0. r \in Requests /\ Types /\ Parts(r) /\ Types' /\ Parts(r)' /\ req[r].op \in {"read", "write"}
  BY DEF Inv, Types, Req
<1>1. CASE UNCHANGED disk
  BY <1>1, ReadableSame
<1>2. CASE Transfer(r)
  <2>1. CASE s # req[r].s
    BY <1>0, <1>2, <2>1, TransferSector, ReadableSame
  <2>2. CASE s = req[r].s
    <3>1. req[r].op = "read"
      BY <1>0, <1>2, <2>2 DEF Under, Transfer, Transfers
    <3>2. CASE req[r].pc \in {"putData", "putCRC"}
      <4>1. req[r].pc \in Putting /\ After[req[r].pc] \in Putting /\ After[req[r].pc] \in Places
        BY <3>2 DEF Putting, After, Places
      <4>2. req'[r].pc = After[req[r].pc] /\ Still(r)
        BY <1>0, <1>2, <4>1, GoEffect DEF Transfer, Types
      <4>3. readBuffer' = readBuffer
        BY <1>2, <3>2 DEF Transfer
      <4>4. Readable(s) = readBuffer[req[r].from]
        BY <1>0, <2>2, <3>1, <4>1, RepairReadsHolds DEF RepairReads, Parts
      <4>5. RepairReads'
        BY RepairReadsHolds, PTL
      <4>6. req'[r].s = s /\ req'[r].op = "read" /\ req'[r].from = req[r].from /\ req'[r].pc \in Putting
        BY <2>2, <3>1, <4>1, <4>2 DEF Still, Same
      <4>7. Readable(req[r].s)' = readBuffer'[req'[r].from]
        BY <1>0, <4>5, <4>6 DEF RepairReads, Parts
      <4>8. Readable(req[r].s)' = Readable(s)'
        BY <4>6 DEF Readable, Good
      <4>9. QED
        BY <4>3, <4>4, <4>6, <4>7, <4>8
    <3>3. CASE req[r].pc \notin {"putData", "putCRC"}
      BY <1>1, <1>2, <3>3 DEF Transfer
    <3>4. QED
      BY <3>2, <3>3
  <2>3. QED
    BY <2>1, <2>2
<1>3. ASSUME NEW d \in Disks, NEW t \in Sectors, Damage(d, t) PROVE Readable(s)' = Readable(s)
  <2>1. faults = 0 /\ req[r].pc = "done"
    BY <1>0, <1>3 DEF Damage, Idle, Types
  <2>2. Agree(s)
    BY <1>0, <2>1 DEF Parts, CleanPart, Quiet, Putting
  <2>3. CASE s = t
    BY <1>0, <1>3, <2>2, <2>3, DamageUnseen
  <2>4. CASE s # t
    BY <1>0, <1>3, <2>4, DamageDisk, ReadableSame
  <2>5. QED
    BY <2>3, <2>4
<1>4. CASE Step(r) /\ ~Transfer(r)
  <2>1. UNCHANGED disk
    BY <1>4 DEF Step, Sum, TransferFails, NoIrp, GiveUp, GotData, GotCRC, Compare, PutDone, Patch, CRCDone
  <2>2. QED
    BY <1>1, <2>1
<1>5. CASE \/ \E t \in Sectors : StartRead(r, t)
           \/ \E t \in Sectors, v \in Data : StartWrite(r, t, v)
           \/ PowerFailure \/ UNCHANGED vars
  <2>1. UNCHANGED disk
    BY <1>5 DEF StartRead, StartWrite, PowerFailure, vars
  <2>2. QED
    BY <1>1, <2>1
<1>6. QED
  BY <1>2, <1>3, <1>4, <1>5 DEF Next

(* A write that ends, with one fault at most, has taken place or not.      *)
LEMMA WriteReads ==
  ASSUME NEW r \in Requests, Types, Parts(r), req[r].op = "write", req[r].pc # "done",
         faults = 0 \/ (faults = 1 /\ Failed(r)) \/ (req[r].pc \in Putting /\ req[r].i = 1)
  PROVE  Readable(req[r].s) \in {req[r].was, req[r].v}
<1>0. req[r].i \in {0, 1} /\ req[r].pc \in Places
  BY DEF Types, Req, Disks
<1>1. req[r].pc \in {"sum"} \cup Putting
  BY <1>0 DEF Parts, ReadPart, Places
<1>2. CASE req[r].pc \in Putting /\ req[r].i = 1
  BY <1>2 DEF Parts, WritePart, Readable, DataOf
<1>3. CASE ~(req[r].pc \in Putting /\ req[r].i = 1)
  <2>1. req[r].i = 0
    BY <1>0, <1>1, <1>3 DEF Parts, WritePart
  <2>2. DataOf(r, 0) \in {req[r].was, req[r].v} /\ Good(1, req[r].s) /\ DataOf(r, 1) = req[r].was
    BY <1>1, <1>3, <2>1 DEF Parts, AtomicPart
  <2>3. QED
    BY <2>2 DEF Readable, DataOf
<1>4. QED
  BY <1>2, <1>3

LEMMA AtomicStep ==
  ASSUME NEW r, Requests = {r}, Inv, [Next]_vars, NEW s \in Sectors,
         Under(r, s), req[r].op = "write", req'[r].pc = "done", faults' <= 1
  PROVE  Readable(s)' \in {req[r].was, req[r].v}
<1>0. /\ r \in Requests /\ Types /\ Parts(r) /\ req[r].pc # "done" /\ req[r].s = s /\ faults \in Nat
      /\ req \in [Requests -> Req] /\ req[r].i \in {0, 1}
  BY DEF Inv, Types, Under, Req, Disks
<1>1. CASE Compare(r)
  BY <1>0, <1>1 DEF Compare, Parts, ReadPart, Reading
<1>2. CASE CRCDone(r)
  <2>1. req[r].pc \in Putting /\ UNCHANGED disk
    BY <1>2 DEF CRCDone, Back, Putting
  <2>2. req[r].i = 1
    BY <1>0, <1>2, SecondDiskEffect DEF CRCDone
  <2>3. Readable(s) \in {req[r].was, req[r].v}
    BY <1>0, <2>1, <2>2, WriteReads
  <2>4. QED
    BY <2>1, <2>3, ReadableSame
<1>3. CASE GiveUp(r)
  <2>1. Failed(r) /\ UNCHANGED <<disk, faults>>
    BY <1>3 DEF GiveUp, Failed, Returned, Transfers, After
  <2>2. faults = 1
    BY <1>0, <2>1 DEF Parts, CleanPart
  <2>3. Readable(s) \in {req[r].was, req[r].v}
    BY <1>0, <2>1, <2>2, WriteReads
  <2>4. QED
    BY <2>1, <2>3, ReadableSame
<1>4. CASE NoIrp(r) \/ PowerFailure
  <2>1. faults' = faults + 1 /\ UNCHANGED disk
    BY <1>4 DEF NoIrp, PowerFailure
  <2>2. faults = 0
    BY <1>0, <2>1
  <2>3. Readable(s) \in {req[r].was, req[r].v}
    BY <1>0, <2>2, WriteReads
  <2>4. QED
    BY <2>1, <2>3, ReadableSame
<1>5. QED
  BY <1>0, <1>1, <1>2, <1>3, <1>4, DoneBy

(* For one request at a time, any sectors and contents, and a CRC that     *)
(* tells the contents apart: through one fault anywhere what is read from  *)
(* a sector changes only by a MyWrite() to it, which takes effect entirely *)
(* or not at all.                                                          *)
THEOREM WritesAreAtomic == Sole /\ Injective => (Spec => WritesTakeEffect)
<1> SUFFICES ASSUME Sole, Injective PROVE Spec => WritesTakeEffect
  OBVIOUS
<1>1. Inv /\ Inv' /\ [Next]_vars =>
        [\A s \in Sectors : Readable(s)' # Readable(s) /\ faults' <= 1 =>
            \E r \in Requests : Under(r, s) /\ req[r].op = "write"]_vars
  <2> SUFFICES ASSUME Inv, Inv', [Next]_vars, NEW s \in Sectors, Readable(s)' # Readable(s), faults' <= 1
               PROVE  \E r \in Requests : Under(r, s) /\ req[r].op = "write"
    OBVIOUS
  <2>1. PICK r : Requests = {r}
    BY DEF Sole
  <2>2. QED
    BY <2>1, OnlyWritesStep
<1>2. Inv /\ [Next]_vars =>
        [\A r \in Requests, s \in Sectors :
            Under(r, s) /\ req[r].op = "write" /\ req'[r].pc = "done" /\ faults' <= 1
              => Readable(s)' \in {req[r].was, req[r].v}]_vars
  <2> SUFFICES ASSUME Inv, [Next]_vars, NEW r \in Requests, NEW s \in Sectors,
                      Under(r, s), req[r].op = "write", req'[r].pc = "done", faults' <= 1
               PROVE  Readable(s)' \in {req[r].was, req[r].v}
    OBVIOUS
  <2>1. Requests = {r}
    BY DEF Sole
  <2>2. QED
    BY <2>1, AtomicStep
<1>3. Spec => OnlyWritesChange
  BY <1>1, InvHolds, PTL DEF Spec, OnlyWritesChange
<1>4. Spec => WriteIsAtomic
  BY <1>2, InvHolds, PTL DEF Spec, WriteIsAtomic
<1>5. QED
  BY <1>3, <1>4 DEF WritesTakeEffect
=============================================================================
