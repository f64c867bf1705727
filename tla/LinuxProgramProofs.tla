------------------------- MODULE LinuxProgramProofs -------------------------
(***************************************************************************)
(* Two programs for Linux.                                                 *)
(*                                                                         *)
(* VirtualMemoryLinux, for all numbers of physical and virtual pages that  *)
(* vinit accepts: the page table is sound and a page that stays in RAM     *)
(* keeps its data, in any sequence of accesses and faults.  The handler    *)
(* always takes its victim from frame 0.  So, while pages are touched      *)
(* first in ascending order, pages 1 to ram_pages - 1 stay in the frames   *)
(* of their own number for good, and all other pages take turns in frame   *)
(* 0; that is the invariant Ordered, which makes the rest inductive.       *)
(*                                                                         *)
(* MiniShellLinux, for all trees that a line may have, however many        *)
(* processes walk them: when the prompt is back nothing is left running,   *)
(* and what was written to a file is in it.  The invariants, and why they  *)
(* are what it takes, are in MiniShellInv.                                 *)
(***************************************************************************)
EXTENDS VirtualMemory, MiniShellInv, SequenceTheorems, WellFoundedInduction, TLAPS

-----------------------------------------------------------------------------
(* VirtualMemoryLinux.                                                     *)
Used(p) == pages_info[p].info # "NONE"
Settled == 1..ram_pages - 1        \* pages that never leave the RAM

Types ==
    /\ phase \in {"new", "up", "ended", "exited"}
    /\ pages_info \in [Pages -> Record]
    /\ mapping \in [Pages -> Mapping]
    /\ access \in [kind : {"none", "load", "store"}, page : UserPages]
    /\ ram = [i \in DOMAIN ram |-> ram[i]]
    /\ stored = [p \in UserPages |-> stored[p]]
    /\ ordered \in BOOLEAN

(* The page table, in whatever order the pages are touched.                *)
OneId == \A p \in Pages : pages_info[p].id_real = None \/ pages_info[p].id_swap = None
FrameIfRAM == \A p \in Pages : InRAM(p) <=> pages_info[p].id_real # None
MappedIfRAM == \A p \in Pages : InRAM(p) <=> mapping[p].file = "ram"
FrameZeroOwned == (\E p \in Pages : Used(p)) => \E p \in Pages : pages_info[p].id_real = 0
ProtectedIfOut == \A p \in Pages : ~InRAM(p) => mapping[p].prot = "none"
OffsetInFile == \A p \in Pages : InRAM(p) => mapping[p].off \in DOMAIN ram
Table == OneId /\ FrameIfRAM /\ MappedIfRAM /\ FrameZeroOwned /\ ProtectedIfOut /\ OffsetInFile

(* Pages touched first in ascending order.                                 *)
UsedFirst == \A p, q \in Pages : q < p /\ Used(p) => Used(q)
SettledStay == \A p \in Settled : Used(p) => InRAM(p) /\ pages_info[p].id_real = p /\ mapping[p].off = p
OthersInZero == \A p \in Pages \ Settled : InRAM(p) => pages_info[p].id_real = 0 /\ mapping[p].off \notin Settled
OneInZero == \A p, q \in Pages \ Settled : InRAM(p) /\ InRAM(q) => p = q
Ordered == ordered => UsedFirst /\ SettledStay /\ OthersInZero /\ OneInZero

(* What the program has stored.                                            *)
UnusedUnstored == \A p \in UserPages : ~Used(p) => stored[p] = Zero
SwappedEvicted == \A p \in UserPages : pages_info[p].info = "SWAP" => p \in evicted
Stores == UnusedUnstored /\ SwappedEvicted /\ ResidentKeepsData

Inv == Types /\ Table /\ Ordered /\ Stores

---------------------------------------------------------------------------
(* The searches. *)

(* Every set of numbers that is not empty has a least one.                 *)
LEMMA LeastNumber ==
  ASSUME NEW T \in SUBSET Nat, T # {}
  PROVE  Min(T) \in T /\ \A y \in T : Min(T) <= y
<1> DEFINE R == {ss \in Nat \X Nat : ss[1] < ss[2]}
<1>1. IsWellFoundedOn(R, Nat)
  BY NatLessThanWellFounded DEF OpToRel
<1>2. ASSUME NEW x \in Nat, NEW y \in Nat PROVE <<y, x>> \in R <=> y < x
  <2>1. <<y, x>> \in Nat \X Nat /\ <<y, x>>[1] = y /\ <<y, x>>[2] = x
    OBVIOUS
  <2>2. QED
    BY <2>1
<1> HIDE DEF R
<1>3. \E x \in T : \A y \in T : ~(<<y, x>> \in R)
  BY <1>1, WFMin
<1>4. \E x \in T : \A y \in T : x <= y
  <2>1. PICK x \in T : \A y \in T : ~(<<y, x>> \in R)
    BY <1>3
  <2>2. \A y \in T : ~(y < x)
    BY <1>2, <2>1
  <2>3. QED
    BY <2>2
<1>5. QED
  BY <1>4 DEF Min

(* A search through the page records returns the first match.              *)
LEMMA FirstMatch ==
  ASSUME NEW T \in SUBSET Nat
  PROVE  /\ First(T) = None => T = {}
         /\ First(T) # None => First(T) \in T /\ \A y \in T : First(T) <= y
BY LeastNumber DEF First, None

(* The bounds of the tables.                                               *)
LEMMA Sizes ==
  /\ ram_pages \in Nat /\ ram_pages > 0 /\ virt_pages \in Nat /\ virt_pages >= ram_pages
  /\ Pages \subseteq Nat /\ UserPages \subseteq Pages /\ Settled \subseteq Pages
  /\ None \notin Pages /\ 0 \in Pages /\ 0 \notin Settled
BY SizesAssumption DEF MAX_PHYSICAL_PAGES, MAX_VIRTUAL_PAGES, Pages, UserPages, Settled, None

(* As soon as a page is in use the handler finds a victim in frame 0.      *)
LEMMA VictimFound ==
  ASSUME Types, Table, NEW q \in Pages, Used(q)
  PROVE  /\ search_page_id_ram(0) \in Pages
         /\ pages_info[search_page_id_ram(0)].id_real = 0
         /\ InRAM(search_page_id_ram(0))
<1> DEFINE T == {i \in Pages : pages_info[i].id_real = 0}
<1>1. T # {}
  BY DEF Table, FrameZeroOwned
<1>2. T \in SUBSET Nat
  BY Sizes
<1>3. search_page_id_ram(0) = First(T)
  BY DEF search_page_id_ram
<1>4. First(T) \in T
  <2> HIDE DEF T
  <2>1. QED
    BY <1>1, <1>2, FirstMatch
<1>5. QED
  BY <1>3, <1>4, Sizes DEF Table, FrameIfRAM, None

---------------------------------------------------------------------------
(* Two pages change places: v leaves frame 0, and n comes in and is mapped *)
(* at place o of the RAM file, where x has been written.                   *)
Exchange(v, n, o, x) ==
    /\ v \in Pages /\ n \in Pages /\ o \in Pages /\ v # n
    /\ InRAM(v) /\ ~InRAM(n) /\ pages_info[v].id_real = 0
    /\ pages_info' \in [Pages -> Record] /\ mapping' \in [Pages -> Mapping]
    /\ pages_info'[n].info = "RAM_READ" /\ pages_info'[n].id_real = 0 /\ pages_info'[n].id_swap = None
    /\ pages_info'[v].info = "SWAP" /\ pages_info'[v].id_real = None
    /\ mapping'[n] = mmap("ram", o, "read")
    /\ mapping'[v].file = "swap" /\ mapping'[v].prot = "none"
    /\ \A p \in Pages : p # v /\ p # n => pages_info'[p] = pages_info[p] /\ mapping'[p] = mapping[p]
    /\ ram' = pwrite(ram, o, x) /\ evicted' = evicted \cup {v} /\ UNCHANGED <<phase, access, stored>>

(* The records of two pages that change places.                            *)
LEMMA Records ==
  ASSUME NEW a \in Record, NEW b \in Record, NEW slot \in Pages \cup {None}
  PROVE  /\ incoming(a, b) \in Record /\ outgoing(b, slot) \in Record
         /\ incoming(a, b).info = "RAM_READ" /\ incoming(a, b).id_real = b.id_real
         /\ incoming(a, b).id_swap = None
         /\ outgoing(b, slot).info = "SWAP" /\ outgoing(b, slot).id_real = None
<1>1. incoming(a, b) \in Record /\ incoming(a, b).info = "RAM_READ" /\ incoming(a, b).id_real = b.id_real
      /\ incoming(a, b).id_swap = None
  BY DEF incoming, Record
<1>2. outgoing(b, slot) \in Record /\ outgoing(b, slot).info = "SWAP" /\ outgoing(b, slot).id_real = None
  BY DEF outgoing, Record
<1>3. QED
  BY <1>1, <1>2

LEMMA Mappings ==
  ASSUME NEW file \in {"none", "ram", "swap"}, NEW o \in Pages, NEW prot \in {"none", "read", "write"}
  PROVE  mmap(file, o, prot) \in Mapping
BY DEF mmap, Mapping

(* swap_data exchanges a page in frame 0 for the first page never used.    *)
LEMMA NewPageExchange ==
  ASSUME Types, Table, NEW page \in UserPages, ~Used(page), swap_new(page), UNCHANGED <<access, stored>>
  PROVE  \E v, n \in Pages :
            /\ Exchange(v, n, v, Zero) /\ ~Used(n)
            /\ \A q \in 0..ram_pages - 1 : Used(q)
            /\ ram_pages <= n /\ n <= page /\ \A q \in ram_pages..n - 1 : Used(q)
<1> USE DEF Types
<1>1. \A q \in 0..ram_pages - 1 : Used(q)
  <2> DEFINE T == {i \in 0..ram_pages - 1 : pages_info[i].info = "NONE"}
  <2>1. T \in SUBSET Nat /\ First(T) = None
    BY Sizes DEF swap_new, search_free_page_ram
  <2>2. T = {}
    <3> HIDE DEF T
    <3>1. QED
      BY <2>1, FirstMatch
  <2>3. QED
    BY <2>2 DEF Used
<1>2. page \in Pages /\ page \in Nat /\ page >= ram_pages /\ page < virt_pages
  BY <1>1, Sizes DEF UserPages
<1> DEFINE k == search_free_page_swap
           n == k + ram_pages
           v == search_page_id_ram(0)
<1>3. k \in 0..virt_pages - 1 /\ n \in Pages /\ ~Used(n) /\ n <= page /\ \A q \in ram_pages..n - 1 : Used(q)
  <2> DEFINE T == {i \in 0..virt_pages - 1 : pages_info[i + ram_pages].info = "NONE"}
  <2>1. T \in SUBSET Nat /\ page - ram_pages \in T
    BY <1>2, Sizes DEF Used
  <2>2. k = First(T)
    BY DEF search_free_page_swap
  <2>3. k \in T /\ \A y \in T : k <= y
    <3> HIDE DEF T, k
    <3>1. QED
      BY <2>1, <2>2, FirstMatch
  <2>4. k \in 0..virt_pages - 1 /\ ~Used(n) /\ k <= page - ram_pages
    BY <2>1, <2>3 DEF Used
  <2> HIDE DEF k
  <2>5. ASSUME NEW q \in ram_pages..n - 1 PROVE Used(q)
    <3>1. q - ram_pages \in 0..virt_pages - 1 /\ q - ram_pages < k /\ (q - ram_pages) + ram_pages = q
      BY <2>4, Sizes
    <3>2. q - ram_pages \notin T
      BY <2>3, <2>4, <3>1
    <3>3. QED
      BY <3>1, <3>2 DEF Used
  <2>6. n \in Pages /\ n <= page
    BY <1>2, <2>4, Sizes DEF Pages
  <2>7. QED
    BY <2>4, <2>5, <2>6
<1>4. v \in Pages /\ pages_info[v].id_real = 0 /\ InRAM(v)
  BY <1>1, Sizes, VictimFound
<1>5. v # n /\ ~InRAM(n)
  BY <1>3, <1>4 DEF InRAM, Used
<1>6. k \in Pages /\ pages_info[n] \in Record /\ pages_info[v] \in Record
  BY <1>3, <1>4, Sizes DEF UserPages
<1>7. /\ pages_info' = [pages_info EXCEPT ![n] = incoming(pages_info[n], pages_info[v]),
                                          ![v] = outgoing(pages_info[v], k)]
      /\ mapping' = [mapping EXCEPT ![v] = mmap("swap", n, "none"), ![n] = mmap("ram", v, "read")]
      /\ ram' = pwrite(ram, v, Zero) /\ evicted' = evicted \cup {v} /\ UNCHANGED phase
  <2> HIDE DEF k, v
  <2>1. swap_data(v, k)
    BY DEF swap_new, k, v
  <2>2. QED
    BY <1>3, <1>4, <1>5, <2>1 DEF swap_data
<1> DEFINE a == incoming(pages_info[n], pages_info[v])
           b == outgoing(pages_info[v], k)
<1>8. /\ a \in Record /\ b \in Record /\ a.info = "RAM_READ" /\ a.id_real = 0 /\ a.id_swap = None
      /\ b.info = "SWAP" /\ b.id_real = None
  BY <1>4, <1>6, Records
<1>9. mmap("swap", n, "none") \in Mapping /\ mmap("ram", v, "read") \in Mapping
  BY <1>3, <1>4, Mappings
<1> HIDE DEF a, b, k, v
<1>10. Exchange(v, n, v, Zero)
  <2> HIDE DEF n
  <2>1. /\ pages_info' \in [Pages -> Record] /\ pages_info'[n] = a /\ pages_info'[v] = b
        /\ \A p \in Pages : p # v /\ p # n => pages_info'[p] = pages_info[p]
    BY <1>3, <1>4, <1>5, <1>7, <1>8 DEF a, b
  <2>2. /\ mapping' \in [Pages -> Mapping] /\ mapping'[n] = mmap("ram", v, "read")
        /\ mapping'[v] = mmap("swap", n, "none")
        /\ \A p \in Pages : p # v /\ p # n => mapping'[p] = mapping[p]
    BY <1>3, <1>4, <1>5, <1>7, <1>9
  <2>3. mapping'[v].file = "swap" /\ mapping'[v].prot = "none"
    BY <2>2 DEF mmap
  <2>4. QED
    BY <1>3, <1>4, <1>5, <1>7, <1>8, <2>1, <2>2, <2>3 DEF Exchange
<1>11. QED
  BY <1>1, <1>3, <1>4, <1>10, Sizes

(* swap_data_swap exchanges a page in frame 0 for one in the swap, or the  *)
(* program ends.                                                           *)
LEMMA OldPageExchange ==
  ASSUME Types, Table, NEW page \in UserPages, pages_info[page].info = "SWAP",
         swap_data_swap(search_page_id_ram(0), page), UNCHANGED <<access, stored>>
  PROVE  \/ UNCHANGED <<mem, access, stored, evicted>> /\ phase' = "exited"
         \/ \E v \in Pages : \E x : Exchange(v, page, 0, x)
<1> USE DEF Types
<1> DEFINE v == search_page_id_ram(0)
           slot == pages_info[page].id_swap
           a == incoming(pages_info[page], pages_info[v])
           b == outgoing(pages_info[v], slot)
<1>1. page \in Pages /\ Used(page)
  BY Sizes DEF Used
<1>2. v \in Pages /\ pages_info[v].id_real = 0 /\ InRAM(v)
  BY <1>1, VictimFound
<1>3. v # page /\ ~InRAM(page)
  BY <1>2 DEF InRAM
<1>4. pages_info[page] \in Record /\ pages_info[v] \in Record /\ slot \in Pages \cup {None}
  BY <1>1, <1>2 DEF Record
<1>5. /\ a \in Record /\ b \in Record /\ a.info = "RAM_READ" /\ a.id_real = 0 /\ a.id_swap = None
      /\ b.info = "SWAP" /\ b.id_real = None
  <2> DEFINE r == pages_info[page]
             w == pages_info[v]
  <2>1. r \in Record /\ w \in Record /\ slot \in Pages \cup {None} /\ w.id_real = 0
    BY <1>2, <1>4
  <2> HIDE DEF slot, v, r, w
  <2>2. /\ incoming(r, w) \in Record /\ outgoing(w, slot) \in Record
        /\ incoming(r, w).info = "RAM_READ" /\ incoming(r, w).id_real = 0
        /\ incoming(r, w).id_swap = None
        /\ outgoing(w, slot).info = "SWAP" /\ outgoing(w, slot).id_real = None
    BY <2>1, Records
  <2>3. QED
    BY <2>2 DEF r, w
<1>6. CASE slot = None
  BY <1>6 DEF swap_data_swap
<1>7. CASE slot # None
  <2> HIDE DEF a, b, slot, v
  <2>1. PICK x : /\ pages_info' = [pages_info EXCEPT ![page] = a, ![v] = b]
                 /\ mapping' = [mapping EXCEPT ![v] = mmap("swap", slot, "none"), ![page] = mmap("ram", 0, "read")]
                 /\ ram' = pwrite(ram, 0, x) /\ evicted' = evicted \cup {v} /\ UNCHANGED phase
    <3>1. swap_data_swap(v, page)
      BY DEF v
    <3>2. QED
      BY <1>1, <1>2, <1>3, <1>7, <3>1 DEF swap_data_swap, a, b, slot
  <2>2. mmap("swap", slot, "none") \in Mapping /\ mmap("ram", 0, "read") \in Mapping
    BY <1>4, <1>7, Sizes, Mappings
  <2>3. /\ pages_info' \in [Pages -> Record] /\ pages_info'[page] = a /\ pages_info'[v] = b
        /\ \A p \in Pages : p # v /\ p # page => pages_info'[p] = pages_info[p]
    BY <1>1, <1>2, <1>3, <1>5, <2>1
  <2>4. /\ mapping' \in [Pages -> Mapping] /\ mapping'[page] = mmap("ram", 0, "read")
        /\ mapping'[v] = mmap("swap", slot, "none")
        /\ \A p \in Pages : p # v /\ p # page => mapping'[p] = mapping[p]
    BY <1>1, <1>2, <1>3, <2>1, <2>2
  <2>5. mapping'[v].file = "swap" /\ mapping'[v].prot = "none"
    BY <2>4 DEF mmap
  <2>6. Exchange(v, page, 0, x)
    BY <1>1, <1>2, <1>3, <1>5, <2>1, <2>3, <2>4, <2>5, Sizes DEF Exchange
  <2>7. QED
    BY <1>2, <2>6
<1>8. QED
  BY <1>6, <1>7

(* A page comes into a frame whose number is that of an unused page.       *)
Enter(n, frame) ==
    /\ n \in Pages /\ ~Used(n) /\ frame \in 0..ram_pages - 1 /\ ~Used(frame)
    /\ \A q \in 0..frame - 1 : Used(q)
    /\ pages_info' \in [Pages -> Record] /\ mapping' \in [Pages -> Mapping]
    /\ pages_info'[n].info = "RAM_READ" /\ pages_info'[n].id_real = frame /\ pages_info'[n].id_swap = None
    /\ mapping'[n] = mmap("ram", frame, "read")
    /\ \A p \in Pages : p # n => pages_info'[p] = pages_info[p] /\ mapping'[p] = mapping[p]
    /\ ram' = pwrite(ram, frame, Zero) /\ UNCHANGED <<phase, access, stored, evicted>>

entering(r, frame) == [r EXCEPT !.id_real = frame, !.id_swap = None, !.info = "RAM_READ", !.dirty = FALSE]

LEMMA NewRecord ==
  ASSUME NEW r \in Record, NEW frame \in Pages
  PROVE  /\ entering(r, frame) \in Record /\ entering(r, frame).info = "RAM_READ"
         /\ entering(r, frame).id_real = frame /\ entering(r, frame).id_swap = None
BY DEF Record, entering

LEMMA NewPageEnters ==
  ASSUME Types, NEW page \in UserPages, ~Used(page), map_new(page), UNCHANGED <<access, stored>>
  PROVE  \E frame \in Pages : Enter(page, frame)
<1> USE DEF Types
<1> DEFINE frame == search_free_page_ram
           a == entering(pages_info[page], frame)
<1>1. frame \in 0..ram_pages - 1 /\ ~Used(frame) /\ \A q \in 0..frame - 1 : Used(q)
  <2> DEFINE T == {i \in 0..ram_pages - 1 : pages_info[i].info = "NONE"}
  <2>1. T \in SUBSET Nat
    BY Sizes
  <2>2. frame = First(T)
    BY DEF search_free_page_ram
  <2>3. frame # None
    BY DEF map_new
  <2>4. frame \in T /\ \A y \in T : frame <= y
    <3> HIDE DEF T, frame
    <3>1. QED
      BY <2>1, <2>2, <2>3, FirstMatch
  <2> HIDE DEF frame
  <2>5. frame \in 0..ram_pages - 1 /\ ~Used(frame)
    BY <2>4 DEF Used
  <2>6. ASSUME NEW q \in 0..frame - 1 PROVE Used(q)
    <3>1. q \in 0..ram_pages - 1 /\ ~(frame <= q)
      BY <2>5, Sizes
    <3>2. q \notin T
      BY <2>4, <3>1
    <3>3. QED
      BY <3>1, <3>2 DEF Used
  <2>7. QED
    BY <2>5, <2>6
<1> HIDE DEF frame
<1>2. page \in Pages /\ frame \in Pages
  BY <1>1, Sizes DEF Pages
<1>3. a \in Record /\ a.info = "RAM_READ" /\ a.id_real = frame /\ a.id_swap = None
  BY <1>2, NewRecord
<1>4. /\ pages_info' = [pages_info EXCEPT ![page] = a]
      /\ mapping' = [mapping EXCEPT ![page] = mmap("ram", frame, "read")]
      /\ ram' = pwrite(ram, frame, Zero) /\ UNCHANGED <<phase, evicted>>
  <2> DEFINE g == [[[pages_info EXCEPT ![page].id_real = frame] EXCEPT ![page].id_swap = None]
                       EXCEPT ![page].info = "RAM_READ"]
  <2>1. pages_info' = [g EXCEPT ![page].dirty = FALSE]
    BY DEF map_new, frame
  <2>2. pages_info' = [pages_info EXCEPT ![page] = a]
    BY <1>2, <2>1 DEF entering
  <2>3. QED
    BY <2>2 DEF map_new, frame
<1>5. mmap("ram", frame, "read") \in Mapping
  BY <1>2, Mappings
<1> HIDE DEF a
<1>6. /\ pages_info' \in [Pages -> Record] /\ pages_info'[page] = a
      /\ \A p \in Pages : p # page => pages_info'[p] = pages_info[p]
  BY <1>2, <1>3, <1>4
<1>7. /\ mapping' \in [Pages -> Mapping] /\ mapping'[page] = mmap("ram", frame, "read")
      /\ \A p \in Pages : p # page => mapping'[p] = mapping[p]
  BY <1>2, <1>4, <1>5
<1>8. QED
  BY <1>1, <1>2, <1>3, <1>4, <1>6, <1>7 DEF Enter

(* What pwrite leaves in a file.                                           *)
LEMMA WrittenFile ==
  ASSUME NEW f, f = [i \in DOMAIN f |-> f[i]], NEW o \in Nat, NEW x, NEW g, g = pwrite(f, o, x)
  PROVE  /\ g = [i \in DOMAIN g |-> g[i]] /\ o \in DOMAIN g /\ g[o] = x
         /\ \A i \in DOMAIN f : i \in DOMAIN g /\ (i # o => g[i] = f[i])
BY DEF pwrite

---------------------------------------------------------------------------
(* What the two kinds of step do to the pages.                             *)

LEMMA ExchangeEffect ==
  ASSUME NEW v, NEW n, NEW o, NEW x, Exchange(v, n, o, x)
  PROVE  /\ InRAM(n)' /\ Used(n)' /\ ~InRAM(v)' /\ Used(v)' /\ Used(v)
         /\ \A p \in Pages : p # v /\ p # n => (InRAM(p)' <=> InRAM(p)) /\ (Used(p)' <=> Used(p))
         /\ \A p \in Pages : Used(p) => Used(p)'
         /\ mapping'[n].file = "ram" /\ mapping'[n].off = o
BY DEF Exchange, InRAM, Used, mmap

LEMMA EnterEffect ==
  ASSUME NEW n, NEW frame, Enter(n, frame)
  PROVE  /\ InRAM(n)' /\ Used(n)' /\ ~InRAM(n)
         /\ \A p \in Pages : p # n => (InRAM(p)' <=> InRAM(p)) /\ (Used(p)' <=> Used(p))
         /\ \A p \in Pages : Used(p) => Used(p)'
         /\ mapping'[n].file = "ram" /\ mapping'[n].off = frame
         /\ frame \in Nat /\ frame \in Pages /\ frame # None
<1>1. frame \in Nat /\ frame \in Pages /\ frame # None
  BY Sizes DEF Enter, Pages, None
<1>2. QED
  BY <1>1 DEF Enter, InRAM, Used, mmap

LEMMA ExchangeTypes ==
  ASSUME Types, NEW v, NEW n, NEW o, NEW x, Exchange(v, n, o, x), ordered' \in BOOLEAN
  PROVE  /\ Types' /\ o \in DOMAIN ram' /\ ram'[o] = x
         /\ \A i \in DOMAIN ram : i \in DOMAIN ram' /\ (i # o => ram'[i] = ram[i])
<1>1. o \in Nat /\ ram' = pwrite(ram, o, x)
  BY Sizes DEF Exchange
<1>2. /\ ram' = [i \in DOMAIN ram' |-> ram'[i]] /\ o \in DOMAIN ram' /\ ram'[o] = x
      /\ \A i \in DOMAIN ram : i \in DOMAIN ram' /\ (i # o => ram'[i] = ram[i])
  BY <1>1, WrittenFile DEF Types
<1>3. QED
  BY <1>2 DEF Exchange, Types

LEMMA EnterTypes ==
  ASSUME Types, NEW n, NEW frame, Enter(n, frame), ordered' \in BOOLEAN
  PROVE  /\ Types' /\ frame \in DOMAIN ram' /\ ram'[frame] = Zero
         /\ \A i \in DOMAIN ram : i \in DOMAIN ram' /\ (i # frame => ram'[i] = ram[i])
<1>1. frame \in Nat /\ ram' = pwrite(ram, frame, Zero)
  BY EnterEffect DEF Enter
<1>2. /\ ram' = [i \in DOMAIN ram' |-> ram'[i]] /\ frame \in DOMAIN ram' /\ ram'[frame] = Zero
      /\ \A i \in DOMAIN ram : i \in DOMAIN ram' /\ (i # frame => ram'[i] = ram[i])
  BY <1>1, WrittenFile DEF Types
<1>3. QED
  BY <1>2 DEF Enter, Types

LEMMA ExchangeTable ==
  ASSUME Types, Table, NEW v, NEW n, NEW o, NEW x, Exchange(v, n, o, x), ordered' \in BOOLEAN
  PROVE  Table'
<1> USE ExchangeEffect
<1>1. OneId'
  BY DEF Exchange, OneId, Table
<1>2. FrameIfRAM'
  BY Sizes DEF Exchange, FrameIfRAM, Table
<1>3. MappedIfRAM'
  BY DEF Exchange, MappedIfRAM, Table
<1>4. FrameZeroOwned'
  BY DEF Exchange, FrameZeroOwned
<1>5. ProtectedIfOut'
  BY DEF Exchange, ProtectedIfOut, Table
<1>6. OffsetInFile'
  BY ExchangeTypes DEF Exchange, OffsetInFile, Table
<1>7. QED
  BY <1>1, <1>2, <1>3, <1>4, <1>5, <1>6 DEF Table

LEMMA EnterTable ==
  ASSUME Types, Table, NEW n, NEW frame, Enter(n, frame), ordered' \in BOOLEAN
  PROVE  Table'
<1> USE EnterEffect
<1>1. OneId'
  BY DEF Enter, OneId, Table
<1>2. FrameIfRAM'
  BY Sizes DEF Enter, FrameIfRAM, Table
<1>3. MappedIfRAM'
  BY DEF Enter, MappedIfRAM, Table
<1>4. FrameZeroOwned'
  <2>1. CASE frame = 0
    BY <2>1 DEF Enter, FrameZeroOwned
  <2>2. CASE frame # 0
    <3>1. Used(0)
      BY <2>2 DEF Enter
    <3>2. PICK p \in Pages : pages_info[p].id_real = 0
      BY <3>1, Sizes DEF Table, FrameZeroOwned
    <3>3. p # n
      BY <3>2 DEF Table, FrameIfRAM, None
    <3>4. pages_info'[p].id_real = 0
      BY <3>2, <3>3 DEF Enter
    <3>5. QED
      BY <3>4 DEF FrameZeroOwned
  <2>3. QED
    BY <2>1, <2>2
<1>5. ProtectedIfOut'
  BY DEF Enter, ProtectedIfOut, Table
<1>6. OffsetInFile'
  BY EnterTypes DEF Enter, OffsetInFile, Table
<1>7. QED
  BY <1>1, <1>2, <1>3, <1>4, <1>5, <1>6 DEF Table

---------------------------------------------------------------------------
(* Pages touched first in ascending order.                                 *)

(* Two pages in RAM share neither a frame nor a place in the RAM file.     *)
LEMMA OwnPlaces ==
  ASSUME Types, Table, Ordered, ordered, NEW p \in Pages, NEW q \in Pages, p # q, InRAM(p), InRAM(q)
  PROVE  pages_info[p].id_real # pages_info[q].id_real /\ mapping[p].off # mapping[q].off
<1>1. Used(p) /\ Used(q)
  BY DEF InRAM, Used
<1>2. 0 \notin Settled
  BY Sizes
<1>3. CASE p \in Settled
  BY <1>1, <1>2, <1>3 DEF Ordered, SettledStay, OthersInZero
<1>4. CASE p \notin Settled
  BY <1>1, <1>2, <1>4 DEF Ordered, SettledStay, OthersInZero, OneInZero
<1>5. QED
  BY <1>3, <1>4

OwnPlacesRule ==
    Types /\ Table /\ Ordered /\ ordered =>
        \A p, q \in Pages : p # q /\ InRAM(p) /\ InRAM(q) =>
            pages_info[p].id_real # pages_info[q].id_real /\ mapping[p].off # mapping[q].off

LEMMA OwnPlacesHold == OwnPlacesRule
BY OwnPlaces DEF OwnPlacesRule

(* The victim is no settled page, and the page that comes in is none.      *)
LEMMA ExchangeOrdered ==
  ASSUME Types, Table, Ordered, NEW v, NEW n, NEW o, NEW x, Exchange(v, n, o, x),
         ordered' \in BOOLEAN,
         ordered' => /\ ordered /\ n \notin Settled /\ (o = v \/ o = 0)
                     /\ \A q \in Pages : q < n => Used(q)
  PROVE  /\ Ordered'
         /\ ordered' => v \notin Settled /\ o \notin Settled
<1> SUFFICES ASSUME ordered' PROVE /\ (UsedFirst /\ SettledStay /\ OthersInZero /\ OneInZero)'
                                   /\ v \notin Settled /\ o \notin Settled
  BY DEF Ordered
<1>0. UsedFirst /\ SettledStay /\ OthersInZero /\ OneInZero
  BY DEF Ordered
<1>1. v \in Pages /\ n \in Pages /\ v # n /\ InRAM(v) /\ ~InRAM(n) /\ pages_info[v].id_real = 0
  BY DEF Exchange
<1> USE ExchangeEffect
<1>2. v \notin Settled
  BY <1>0, <1>1, Sizes DEF SettledStay
<1>3. o \notin Settled
  BY <1>2, Sizes
<1>4. UsedFirst'
  <2> SUFFICES ASSUME NEW p \in Pages, NEW q \in Pages, q < p, Used(p)' PROVE Used(q)'
    BY DEF UsedFirst
  <2>1. CASE p = n
    BY <2>1
  <2>2. CASE p # n
    <3>1. Used(p)
      BY <1>1, <2>2
    <3>2. QED
      BY <1>0, <3>1 DEF UsedFirst
  <2>3. QED
    BY <2>1, <2>2
<1>5. SettledStay'
  <2> SUFFICES ASSUME NEW p \in Settled, Used(p)'
               PROVE  InRAM(p)' /\ pages_info'[p].id_real = p /\ mapping'[p].off = p
    BY DEF SettledStay
  <2>1. p \in Pages /\ p # v /\ p # n
    BY <1>2, Sizes
  <2>2. pages_info'[p] = pages_info[p] /\ mapping'[p] = mapping[p]
    BY <2>1 DEF Exchange
  <2>3. QED
    BY <1>0, <2>1, <2>2 DEF SettledStay
<1>6. OthersInZero'
  <2> SUFFICES ASSUME NEW p \in Pages \ Settled, InRAM(p)'
               PROVE  pages_info'[p].id_real = 0 /\ mapping'[p].off \notin Settled
    BY DEF OthersInZero
  <2>1. CASE p = n
    BY <1>3, <2>1 DEF Exchange
  <2>2. CASE p # n
    BY <1>0, <1>1, <2>2 DEF OthersInZero, Exchange
  <2>3. QED
    BY <2>1, <2>2
<1>7. OneInZero'
  BY <1>0, <1>1, <1>2 DEF OneInZero
<1>8. QED
  BY <1>2, <1>3, <1>4, <1>5, <1>6, <1>7

(* A page that comes into a free frame comes into that of its own number.  *)
LEMMA EnterOrdered ==
  ASSUME Types, Table, Ordered, NEW n, NEW frame, Enter(n, frame),
         ordered' = (ordered /\ \A q \in 0..n - 1 : pages_info[q].info # "NONE")
  PROVE  /\ Ordered' /\ ordered' \in BOOLEAN
         /\ ordered' => ordered /\ frame = n
<1>0. ordered' \in BOOLEAN
  BY DEF Types
<1> SUFFICES ASSUME ordered' PROVE /\ (UsedFirst /\ SettledStay /\ OthersInZero /\ OneInZero)'
                                   /\ ordered /\ frame = n
  BY <1>0 DEF Ordered
<1>1. UsedFirst /\ SettledStay /\ OthersInZero /\ OneInZero /\ ordered
  BY <1>0 DEF Ordered, Types
<1>2. \A q \in 0..n - 1 : Used(q)
  BY DEF Used
<1>3. n \in Pages /\ n \in Nat /\ ~Used(n) /\ frame \in Nat
  BY Sizes, EnterEffect DEF Enter
<1>4. frame = n /\ n < ram_pages
  BY <1>2, <1>3, Sizes DEF Enter
<1> USE EnterEffect
<1>5. UsedFirst'
  <2> SUFFICES ASSUME NEW p \in Pages, NEW q \in Pages, q < p, Used(p)' PROVE Used(q)'
    BY DEF UsedFirst
  <2>1. CASE p = n
    <3>1. q \in 0..n - 1
      BY <1>3, <2>1, Sizes
    <3>2. QED
      BY <1>2, <3>1
  <2>2. CASE p # n
    <3>1. Used(p)
      BY <2>2
    <3>2. QED
      BY <1>1, <3>1 DEF UsedFirst
  <2>3. QED
    BY <2>1, <2>2
<1>6. SettledStay'
  <2> SUFFICES ASSUME NEW p \in Settled, Used(p)'
               PROVE  InRAM(p)' /\ pages_info'[p].id_real = p /\ mapping'[p].off = p
    BY DEF SettledStay
  <2>1. p \in Pages
    BY Sizes
  <2>2. CASE p = n
    BY <1>4, <2>2 DEF Enter
  <2>3. CASE p # n
    BY <1>1, <2>1, <2>3 DEF SettledStay, Enter
  <2>4. QED
    BY <2>2, <2>3
<1>7. n \in Settled \/ n = 0
  BY <1>3, <1>4, Sizes DEF Settled
<1>8. OthersInZero'
  <2> SUFFICES ASSUME NEW p \in Pages \ Settled, InRAM(p)'
               PROVE  pages_info'[p].id_real = 0 /\ mapping'[p].off \notin Settled
    BY DEF OthersInZero
  <2>1. CASE p = n
    BY <1>4, <1>7, <2>1, Sizes DEF Enter
  <2>2. CASE p # n
    BY <1>1, <2>2 DEF OthersInZero, Enter
  <2>3. QED
    BY <2>1, <2>2
<1>9. OneInZero'
  <2> SUFFICES ASSUME NEW p \in Pages \ Settled, NEW q \in Pages \ Settled, InRAM(p)', InRAM(q)'
               PROVE  p = q
    BY DEF OneInZero
  <2>1. ASSUME NEW r \in Pages \ Settled, r # n, InRAM(r)' PROVE n # 0
    <3>1. Used(r) /\ InRAM(r)
      BY <2>1 DEF InRAM, Used
    <3>2. CASE n = 0
      <4>1. 0 < r
        BY <2>1, <3>2, Sizes
      <4>2. QED
        BY <1>1, <1>3, <3>1, <3>2, <4>1 DEF UsedFirst
    <3>3. QED
      BY <3>2
  <2>2. CASE p = n \/ q = n
    BY <1>7, <2>1, <2>2
  <2>3. CASE p # n /\ q # n
    BY <1>1, <2>3 DEF OneInZero
  <2>4. QED
    BY <2>2, <2>3
<1>10. QED
  BY <1>1, <1>4, <1>5, <1>6, <1>8, <1>9

---------------------------------------------------------------------------
(* What the program has stored.                                            *)

(* The contents of a page in RAM is that of its place in the RAM file.     *)
LEMMA ContentsInRAM ==
  ASSUME Table, NEW p \in Pages, InRAM(p)
  PROVE  contents(p) = ram[mapping[p].off] /\ mapping[p].off \in DOMAIN ram
BY DEF contents, Table, MappedIfRAM, OffsetInFile

(* A page that comes in is either zero and was never stored in, or it has  *)
(* been evicted since the last store.                                      *)
LEMMA ExchangeStores ==
  ASSUME Inv, NEW v, NEW n, NEW o, NEW x, Exchange(v, n, o, x), ordered' \in BOOLEAN, Table',
         (x = Zero /\ ~Used(n)) \/ n \in evicted,
         ordered' => ordered /\ v \notin Settled /\ o \notin Settled
  PROVE  Stores'
<1> USE ExchangeEffect, ExchangeTypes
<1>0. Types /\ Table /\ Ordered /\ UnusedUnstored /\ SwappedEvicted /\ ResidentKeepsData /\ UserPages \subseteq Pages
  BY Sizes DEF Inv, Stores
<1>1. UnusedUnstored'
  BY <1>0 DEF UnusedUnstored, Exchange
<1>2. SwappedEvicted'
  <2> SUFFICES ASSUME NEW p \in UserPages, pages_info'[p].info = "SWAP" PROVE p \in evicted'
    BY DEF SwappedEvicted
  <2>1. CASE p = v
    BY <2>1 DEF Exchange
  <2>2. CASE p # v
    BY <1>0, <2>2 DEF Exchange, SwappedEvicted
  <2>3. QED
    BY <2>1, <2>2
<1>3. ResidentKeepsData'
  <2> SUFFICES ASSUME ordered', NEW p \in UserPages, p \notin evicted', InRAM(p)'
               PROVE  contents(p)' = stored'[p]
    BY DEF ResidentKeepsData
  <2>1. p \in Pages /\ p \notin evicted /\ p # v
    BY <1>0 DEF Exchange
  <2>2. contents(p)' = ram'[mapping'[p].off]
    BY <2>1 DEF contents, Table, MappedIfRAM
  <2>3. CASE p = n
    <3>1. x = Zero /\ stored[p] = Zero
      BY <1>0, <2>1, <2>3 DEF UnusedUnstored
    <3>2. ram'[mapping'[p].off] = Zero
      BY <1>0, <2>3, <3>1
    <3>3. QED
      BY <2>2, <3>1, <3>2 DEF Exchange
  <2>4. CASE p # n
    <3>1. InRAM(p) /\ mapping'[p] = mapping[p] /\ Used(p)
      BY <2>1, <2>4 DEF Exchange, InRAM, Used
    <3>2. p \in Settled
      BY <1>0, <2>1, <3>1 DEF Ordered, OneInZero, Exchange
    <3>3. mapping[p].off # o
      BY <1>0, <3>1, <3>2 DEF Ordered, SettledStay
    <3>4. contents(p) = ram[mapping[p].off] /\ mapping[p].off \in DOMAIN ram
      BY <1>0, <2>1, <3>1, ContentsInRAM
    <3>5. ram'[mapping[p].off] = ram[mapping[p].off]
      BY <1>0, <3>3, <3>4
    <3>6. contents(p) = stored[p]
      BY <1>0, <2>1, <3>1 DEF ResidentKeepsData
    <3>7. QED
      BY <2>2, <3>1, <3>4, <3>5, <3>6 DEF Exchange
  <2>5. QED
    BY <2>3, <2>4
<1>4. QED
  BY <1>1, <1>2, <1>3 DEF Stores

LEMMA EnterStores ==
  ASSUME Inv, NEW n, NEW frame, Enter(n, frame), ordered' \in BOOLEAN, Table',
         ordered' => ordered /\ frame = n, Ordered'
  PROVE  Stores'
<1> USE EnterEffect, EnterTypes
<1>0. Types /\ Table /\ Ordered /\ UnusedUnstored /\ SwappedEvicted /\ ResidentKeepsData /\ UserPages \subseteq Pages
  BY Sizes DEF Inv, Stores
<1>1. UnusedUnstored'
  BY <1>0 DEF UnusedUnstored, Enter
<1>2. SwappedEvicted'
  <2> SUFFICES ASSUME NEW p \in UserPages, pages_info'[p].info = "SWAP" PROVE p \in evicted'
    BY DEF SwappedEvicted
  <2>1. p # n
    BY DEF Enter
  <2>2. QED
    BY <1>0, <2>1 DEF Enter, SwappedEvicted
<1>3. ResidentKeepsData'
  <2> SUFFICES ASSUME ordered', NEW p \in UserPages, p \notin evicted', InRAM(p)'
               PROVE  contents(p)' = stored'[p]
    BY DEF ResidentKeepsData
  <2>1. p \in Pages /\ p \notin evicted
    BY <1>0 DEF Enter
  <2>2. contents(p)' = ram'[mapping'[p].off]
    BY <2>1 DEF contents, Table, MappedIfRAM
  <2>3. CASE p = n
    <3>1. stored[p] = Zero
      BY <1>0, <2>1, <2>3 DEF UnusedUnstored, Enter
    <3>2. ram'[mapping'[p].off] = Zero
      BY <1>0, <2>3
    <3>3. QED
      BY <2>2, <3>1, <3>2 DEF Enter
  <2>4. CASE p # n
    <3>1. InRAM(p) /\ mapping'[p] = mapping[p] /\ Used(p) /\ n \in Pages
      BY <2>1, <2>4 DEF Enter, InRAM, Used
    <3>2. mapping'[p].off # mapping'[n].off
      <4>1. Types'
        BY <1>0
      <4>2. OwnPlacesRule'
        BY OwnPlacesHold, PTL
      <4>3. QED
        BY <2>1, <2>4, <3>1, <4>1, <4>2 DEF OwnPlacesRule
    <3>3. mapping[p].off # frame
      BY <3>1, <3>2
    <3>4. contents(p) = ram[mapping[p].off] /\ mapping[p].off \in DOMAIN ram
      BY <1>0, <2>1, <3>1, ContentsInRAM
    <3>5. ram'[mapping[p].off] = ram[mapping[p].off]
      BY <1>0, <3>3, <3>4
    <3>6. contents(p) = stored[p]
      BY <1>0, <2>1, <3>1 DEF ResidentKeepsData
    <3>7. QED
      BY <2>2, <3>1, <3>4, <3>5, <3>6 DEF Enter
  <2>5. QED
    BY <2>3, <2>4
<1>4. QED
  BY <1>1, <1>2, <1>3 DEF Stores

---------------------------------------------------------------------------
(* Each action preserves the invariant.                                    *)

LEMMA FreshInv ==
  ASSUME pages_info = [p \in Pages |-> Fresh], mapping = [p \in Pages |-> Unmapped],
         ram = [i \in 0..ram_pages - 1 |-> Zero], access = NoAccess,
         stored = [p \in UserPages |-> Zero], ordered = TRUE,
         phase \in {"new", "up", "ended", "exited"}
  PROVE  Inv
<1>1. Fresh \in Record /\ Fresh.info = "NONE" /\ Fresh.id_real = None /\ Fresh.id_swap = None
  BY DEF Fresh, Record
<1>2. Unmapped \in Mapping /\ Unmapped.file = "none" /\ Unmapped.prot = "none"
  BY Sizes DEF Unmapped, Mapping
<1>3. Types
  <2>1. 0 \in UserPages
    BY Sizes DEF UserPages
  <2>2. access \in [kind : {"none", "load", "store"}, page : UserPages]
    BY <2>1 DEF NoAccess
  <2>3. QED
    BY <1>1, <1>2, <2>2 DEF Types
<1>4. \A p \in Pages : ~InRAM(p) /\ ~Used(p)
  BY <1>1 DEF InRAM, Used
<1>5. Table
  BY <1>1, <1>2, <1>4 DEF Table, OneId, FrameIfRAM, MappedIfRAM, FrameZeroOwned, ProtectedIfOut, OffsetInFile
<1>6. Ordered
  BY <1>4, Sizes DEF Ordered, UsedFirst, SettledStay, OthersInZero, OneInZero
<1>7. Stores
  BY <1>1, <1>4, Sizes DEF Stores, UnusedUnstored, SwappedEvicted, ResidentKeepsData
<1>8. QED
  BY <1>3, <1>5, <1>6, <1>7 DEF Inv

(* The invariant is about these variables only.                            *)
LEMMA SameMemory ==
  ASSUME Inv, UNCHANGED <<pages_info, mapping, ram, stored, evicted, ordered>>,
         phase' \in {"new", "up", "ended", "exited"},
         access' \in [kind : {"none", "load", "store"}, page : UserPages]
  PROVE  Inv'
<1>1. \A p : (InRAM(p)' <=> InRAM(p)) /\ (Used(p)' <=> Used(p))
  BY DEF InRAM, Used
<1>2. Types'
  BY DEF Inv, Types
<1>3. Table'
  BY <1>1 DEF Inv, Table, OneId, FrameIfRAM, MappedIfRAM, FrameZeroOwned, ProtectedIfOut, OffsetInFile
<1>4. Ordered'
  BY <1>1 DEF Inv, Ordered, UsedFirst, SettledStay, OthersInZero, OneInZero
<1>5. Stores'
  <2>1. UnusedUnstored' /\ SwappedEvicted'
    BY <1>1 DEF Inv, Stores, UnusedUnstored, SwappedEvicted
  <2>2. ResidentKeepsData'
    <3> SUFFICES ASSUME ordered', NEW p \in UserPages, p \notin evicted', InRAM(p)'
                 PROVE  contents(p)' = stored'[p]
      BY DEF ResidentKeepsData
    <3>1. contents(p) = stored[p]
      BY <1>1 DEF Inv, Stores, ResidentKeepsData
    <3>2. contents(p)' = contents(p)
      BY <1>1, Sizes DEF contents, Inv, Table, MappedIfRAM
    <3>3. QED
      BY <3>1, <3>2
  <2>3. QED
    BY <2>1, <2>2 DEF Stores
<1>6. QED
  BY <1>2, <1>3, <1>4, <1>5 DEF Inv

(* A page is used for the first time.                                      *)
LEMMA FaultNone ==
  ASSUME Inv, NEW page \in UserPages, fault_none(page), UNCHANGED <<access, stored>>
  PROVE  Inv'
<1>0. Types /\ Table /\ Ordered /\ Stores /\ page \in Pages /\ page \in Nat
  BY Sizes DEF Inv
<1>1. ~Used(page) /\ ordered' = (ordered /\ \A q \in 0..page - 1 : pages_info[q].info # "NONE")
  BY DEF fault_none, Used
<1>2. ordered' \in BOOLEAN
  BY <1>0, <1>1 DEF Types
<1>3. CASE map_new(page)
  <2>1. PICK frame \in Pages : Enter(page, frame)
    BY <1>0, <1>1, <1>3, NewPageEnters
  <2>2. Types' /\ Table'
    BY <1>0, <1>2, <2>1, EnterTypes, EnterTable
  <2>3. Ordered' /\ (ordered' => ordered /\ frame = page)
    BY <1>0, <1>1, <2>1, EnterOrdered
  <2>4. Stores'
    BY <1>2, <2>1, <2>2, <2>3, EnterStores
  <2>5. QED
    BY <2>2, <2>3, <2>4 DEF Inv
<1>4. CASE swap_new(page)
  <2>1. PICK v \in Pages, n \in Pages :
            /\ Exchange(v, n, v, Zero) /\ ~Used(n)
            /\ \A q \in 0..ram_pages - 1 : Used(q)
            /\ ram_pages <= n /\ n <= page /\ \A q \in ram_pages..n - 1 : Used(q)
    BY <1>0, <1>1, <1>4, NewPageExchange
  <2>2. Types' /\ Table'
    BY <1>0, <1>2, <2>1, ExchangeTypes, ExchangeTable
  <2>3. ordered' => /\ ordered /\ n \notin Settled
                    /\ \A q \in Pages : q < n => Used(q)
    <3> SUFFICES ASSUME ordered' PROVE ordered /\ n \notin Settled /\ \A q \in Pages : q < n => Used(q)
      OBVIOUS
    <3>1. ordered
      BY <1>0, <1>1 DEF Types
    <3>2. n \notin Settled
      BY <2>1, Sizes DEF Settled
    <3>3. \A q \in Pages : q < n => Used(q)
      <4> SUFFICES ASSUME NEW q \in Pages, q < n PROVE Used(q)
        OBVIOUS
      <4>1. q \in 0..ram_pages - 1 \/ q \in ram_pages..n - 1
        BY Sizes
      <4>2. QED
        BY <2>1, <4>1
    <3>4. QED
      BY <3>1, <3>2, <3>3
  <2>4. Ordered' /\ (ordered' => v \notin Settled)
    BY <1>0, <1>2, <2>1, <2>3, ExchangeOrdered
  <2>5. Stores'
    BY <1>2, <2>1, <2>2, <2>3, <2>4, ExchangeStores
  <2>6. QED
    BY <2>2, <2>4, <2>5 DEF Inv
<1>5. QED
  BY <1>3, <1>4 DEF fault_none

(* A page comes back from the swap, or a CHECK ends the program.           *)
LEMMA FaultSwap ==
  ASSUME Inv, NEW page \in UserPages, fault_swap(page), UNCHANGED <<access, stored>>
  PROVE  Inv'
<1>0. Types /\ Table /\ Ordered /\ Stores /\ page \in Pages
  BY Sizes DEF Inv
<1>1. pages_info[page].info = "SWAP" /\ swap_data_swap(search_page_id_ram(0), page) /\ ordered' = ordered
  BY DEF fault_swap
<1>2. ordered' \in BOOLEAN
  BY <1>0, <1>1 DEF Types
<1>3. CASE UNCHANGED <<mem, access, stored, evicted>> /\ phase' = "exited"
  <2>1. access' \in [kind : {"none", "load", "store"}, page : UserPages]
    BY <1>0, <1>3 DEF Types
  <2>2. QED
    BY <1>1, <1>3, <2>1, SameMemory DEF mem
<1>4. ASSUME NEW v \in Pages, NEW x, Exchange(v, page, 0, x) PROVE Inv'
  <2>1. Types' /\ Table'
    BY <1>0, <1>2, <1>4, ExchangeTypes, ExchangeTable
  <2>2. Used(page) /\ ~InRAM(page)
    BY <1>1 DEF Used, InRAM
  <2>3. ordered' => /\ ordered /\ page \notin Settled
                    /\ \A q \in Pages : q < page => Used(q)
    BY <1>0, <1>1, <2>2 DEF Ordered, SettledStay, UsedFirst
  <2>4. Ordered' /\ (ordered' => v \notin Settled /\ 0 \notin Settled)
    BY <1>0, <1>2, <1>4, <2>3, ExchangeOrdered
  <2>5. page \in evicted
    BY <1>0, <1>1 DEF Stores, SwappedEvicted
  <2>6. Stores'
    BY <1>2, <1>4, <2>1, <2>3, <2>4, <2>5, ExchangeStores
  <2>7. QED
    BY <2>1, <2>4, <2>6 DEF Inv
<1>5. QED
  BY <1>0, <1>1, <1>3, <1>4, OldPageExchange

(* A page becomes writable: only info, dirty and the protection change.    *)
LEMMA FaultRead ==
  ASSUME Inv, NEW page \in UserPages, fault_read(page), UNCHANGED <<access, stored>>
  PROVE  Inv'
<1>0. Types /\ Table /\ Ordered /\ Stores /\ page \in Pages
  BY Sizes DEF Inv
<1>1. InRAM(page)
  BY DEF fault_read, InRAM
<1>2. /\ pages_info' \in [Pages -> Record] /\ pages_info'[page].info = "RAM_WRITE"
      /\ pages_info'[page].id_real = pages_info[page].id_real
      /\ pages_info'[page].id_swap = pages_info[page].id_swap
      /\ \A p \in Pages : p # page => pages_info'[p] = pages_info[p]
  BY <1>0, ZenonT(40) DEF fault_read, Types, Record
<1>3. /\ mapping' \in [Pages -> Mapping]
      /\ mapping'[page].file = mapping[page].file /\ mapping'[page].off = mapping[page].off
      /\ \A p \in Pages : p # page => mapping'[p] = mapping[p]
  BY <1>0 DEF fault_read, Types, Mapping
<1>4. UNCHANGED <<phase, ram, swap, access, stored, evicted, ordered>>
  BY DEF fault_read
<1>5. \A p \in Pages : (InRAM(p)' <=> InRAM(p)) /\ (Used(p)' <=> Used(p))
  BY <1>1, <1>2 DEF InRAM, Used
<1>6. /\ \A p \in Pages : pages_info'[p].id_real = pages_info[p].id_real /\ pages_info'[p].id_swap = pages_info[p].id_swap
      /\ \A p \in Pages : mapping'[p].file = mapping[p].file /\ mapping'[p].off = mapping[p].off
      /\ \A p \in Pages : ~InRAM(p) => mapping'[p] = mapping[p]
  BY <1>1, <1>2, <1>3
<1>7. Types'
  BY <1>0, <1>2, <1>3, <1>4 DEF Types
<1>8. Table'
  BY <1>0, <1>4, <1>5, <1>6
     DEF Table, OneId, FrameIfRAM, MappedIfRAM, FrameZeroOwned, ProtectedIfOut, OffsetInFile
<1>9. Ordered'
  BY <1>0, <1>4, <1>5, <1>6, Sizes DEF Ordered, UsedFirst, SettledStay, OthersInZero, OneInZero
<1>10. Stores'
  <2>1. UnusedUnstored'
    BY <1>0, <1>4, <1>5, Sizes DEF Stores, UnusedUnstored
  <2>2. SwappedEvicted'
    BY <1>0, <1>2, <1>4, Sizes DEF Stores, SwappedEvicted
  <2>3. ResidentKeepsData'
    <3> SUFFICES ASSUME ordered', NEW p \in UserPages, p \notin evicted', InRAM(p)'
                 PROVE  contents(p)' = stored'[p]
      BY DEF ResidentKeepsData
    <3>1. contents(p) = stored[p]
      BY <1>0, <1>4, <1>5, Sizes DEF Stores, ResidentKeepsData
    <3>2. contents(p)' = contents(p)
      BY <1>4, <1>6, Sizes DEF contents
    <3>3. QED
      BY <1>4, <3>1, <3>2
  <2>4. QED
    BY <2>1, <2>2, <2>3 DEF Stores
<1>11. QED
  BY <1>7, <1>8, <1>9, <1>10 DEF Inv

(* The program loads from a page, or stores in it, in RAM.                 *)
LEMMA Completes ==
  ASSUME Inv, complete
  PROVE  Inv'
<1>0. Types /\ Table /\ Ordered /\ Stores
  BY DEF Inv
<1>1. NoAccess \in [kind : {"none", "load", "store"}, page : UserPages]
  BY Sizes DEF NoAccess, UserPages
<1>2. UNCHANGED <<phase, pages_info, mapping, ordered>> /\ access' = NoAccess
  BY DEF complete
<1>3. CASE access.kind # "store"
  <2>1. UNCHANGED <<ram, stored, evicted>>
    BY <1>3 DEF complete
  <2>2. QED
    BY <1>0, <1>1, <1>2, <2>1, SameMemory DEF Types
<1>4. CASE access.kind = "store"
  <2>1. PICK page \in UserPages : page = access.page
    BY <1>0 DEF Types
  <2>2. PICK o : o = mapping[page].off
    OBVIOUS
  <2>3. page \in Pages /\ InRAM(page) /\ Used(page) /\ o \in DOMAIN ram
    <3>1. page \in Pages
      BY Sizes
    <3>2. mapping[page].prot # "none"
      BY <1>4, <2>1 DEF complete, allowed
    <3>3. InRAM(page)
      BY <1>0, <3>1, <3>2 DEF Table, ProtectedIfOut
    <3>4. QED
      BY <1>0, <2>2, <3>1, <3>3 DEF Table, OffsetInFile, InRAM, Used
  <2>4. /\ ram' = [ram EXCEPT ![o] = Value(page)]
        /\ stored' = [stored EXCEPT ![page] = Value(page)]
        /\ evicted' = evicted \ {page}
    BY <1>4, <2>1, <2>2 DEF complete
  <2>5. /\ DOMAIN ram' = DOMAIN ram /\ ram' = [i \in DOMAIN ram' |-> ram'[i]] /\ ram'[o] = Value(page)
        /\ \A i \in DOMAIN ram : i # o => ram'[i] = ram[i]
    BY <1>0, <2>3, <2>4 DEF Types
  <2>6. /\ stored' = [p \in UserPages |-> stored'[p]] /\ stored'[page] = Value(page)
        /\ \A p \in UserPages : p # page => stored'[p] = stored[p]
    BY <1>0, <2>4 DEF Types
  <2>7. \A p : (InRAM(p)' <=> InRAM(p)) /\ (Used(p)' <=> Used(p))
    BY <1>2 DEF InRAM, Used
  <2>8. Types'
    BY <1>0, <1>1, <1>2, <2>5, <2>6 DEF Types
  <2>9. Table'
    BY <1>0, <1>2, <2>5, <2>7
       DEF Table, OneId, FrameIfRAM, MappedIfRAM, FrameZeroOwned, ProtectedIfOut, OffsetInFile
  <2>10. Ordered'
    BY <1>0, <1>2, <2>7 DEF Ordered, UsedFirst, SettledStay, OthersInZero, OneInZero
  <2>11. UnusedUnstored'
    BY <1>0, <2>3, <2>6, <2>7 DEF Stores, UnusedUnstored
  <2>12. SwappedEvicted'
    BY <1>0, <1>2, <2>3, <2>4 DEF Stores, SwappedEvicted, InRAM
  <2>13. ResidentKeepsData'
    <3> SUFFICES ASSUME ordered', NEW p \in UserPages, p \notin evicted', InRAM(p)'
                 PROVE  contents(p)' = stored'[p]
      BY DEF ResidentKeepsData
    <3>1. p \in Pages /\ InRAM(p) /\ ordered
      BY <1>2, <2>7, Sizes
    <3>2. contents(p) = ram[mapping[p].off] /\ mapping[p].off \in DOMAIN ram
      BY <1>0, <3>1, ContentsInRAM
    <3>3. contents(p)' = ram'[mapping[p].off]
      BY <1>0, <1>2, <3>1 DEF contents, Table, MappedIfRAM
    <3>4. CASE p = page
      BY <2>2, <2>5, <2>6, <3>3, <3>4
    <3>5. CASE p # page
      <4>1. mapping[p].off # o
        BY <1>0, <2>2, <2>3, <3>1, <3>5, OwnPlaces
      <4>2. contents(p) = stored[p]
        BY <1>0, <2>4, <3>1, <3>5 DEF Stores, ResidentKeepsData
      <4>3. QED
        BY <2>5, <2>6, <3>2, <3>3, <3>5, <4>1, <4>2
    <3>6. QED
      BY <3>4, <3>5
  <2>14. QED
    BY <2>8, <2>9, <2>10, <2>11, <2>12, <2>13 DEF Inv, Stores
<1>5. QED
  BY <1>3, <1>4

---------------------------------------------------------------------------
(* The theorems.                                                           *)

LEMMA InitInv == Init => Inv
BY FreshInv DEF Init

LEMMA NextInv == Inv /\ [Next]_vars => Inv'
<1> SUFFICES ASSUME Inv, [Next]_vars PROVE Inv'
  OBVIOUS
<1>0. access \in [kind : {"none", "load", "store"}, page : UserPages] /\ phase \in {"new", "up", "ended", "exited"}
  BY DEF Inv, Types
<1>1. CASE vinit
  <2>1. (\/ ~(/\ pages_info = [p \in Pages |-> Fresh] /\ mapping = [p \in Pages |-> Unmapped]
              /\ ram = [i \in 0..ram_pages - 1 |-> Zero] /\ access = NoAccess
              /\ stored = [p \in UserPages |-> Zero] /\ ordered = TRUE
              /\ phase \in {"new", "up", "ended", "exited"})
         \/ Inv)'
    BY FreshInv, PTL
  <2>2. QED
    BY <1>1, <2>1 DEF vinit
<1>2. CASE vend
  <2>1. phase' \in {"new", "up", "ended", "exited"} /\ access' = access
    BY <1>2 DEF vend
  <2>2. UNCHANGED <<pages_info, mapping, ram, stored, evicted, ordered>>
    BY <1>2 DEF vend, mem, history
  <2>3. QED
    BY <1>0, <2>1, <2>2, SameMemory
<1>3. CASE begin
  <2>1. access' \in [kind : {"none", "load", "store"}, page : UserPages] /\ phase' = phase
    BY <1>3 DEF begin
  <2>2. UNCHANGED <<pages_info, mapping, ram, stored, evicted, ordered>>
    BY <1>3 DEF begin, mem, history
  <2>3. QED
    BY <1>0, <2>1, <2>2, SameMemory
<1>4. CASE sigsegv_handler
  <2>1. PICK page \in UserPages : page = access.page
    BY <1>0
  <2>2. UNCHANGED <<access, stored>> /\ (fault_none(page) \/ fault_read(page) \/ fault_swap(page))
    BY <1>4, <2>1 DEF sigsegv_handler
  <2>3. QED
    BY <2>2, FaultNone, FaultRead, FaultSwap
<1>5. CASE complete
  BY <1>5, Completes
<1>6. CASE UNCHANGED vars
  <2>1. UNCHANGED <<phase, access, pages_info, mapping, ram, stored, evicted, ordered>>
    BY <1>6 DEF vars, mem, history
  <2>2. QED
    BY <1>0, <2>1, SameMemory
<1>7. QED
  BY <1>1, <1>2, <1>3, <1>4, <1>5, <1>6 DEF Next

LEMMA InvHolds == Spec => []Inv
<1>1. QED
  BY InitInv, NextInv, PTL DEF Spec

(* For all numbers of physical and virtual pages vinit accepts: the ids of *)
(* a page exclude each other, exactly the pages in RAM have a frame and a  *)
(* RAM mapping, sigsegv_handler always finds its victim in frame 0, and    *)
(* pages touched first in ascending order share no frame and no place.     *)
THEOREM TableSound == Spec => []PageTableSound
<1>1. Inv => PageTableSound
  <2> SUFFICES ASSUME Inv PROVE PageTableSound
    OBVIOUS
  <2>0. Types /\ Table /\ Ordered
    BY DEF Inv
  <2>1. \A p \in Pages :
          /\ pages_info[p].id_real = None \/ pages_info[p].id_swap = None
          /\ InRAM(p) <=> pages_info[p].id_real # None
          /\ InRAM(p) <=> mapping[p].file = "ram"
    BY <2>0 DEF Table, OneId, FrameIfRAM, MappedIfRAM
  <2>2. ASSUME NEW p \in Pages, InRAM(p) PROVE search_page_id_ram(0) # None
    <3>1. Used(p)
      BY <2>2 DEF InRAM, Used
    <3>2. QED
      BY <2>0, <3>1, VictimFound, Sizes
  <2>3. ASSUME ordered, NEW p \in Pages, NEW q \in Pages, InRAM(p), InRAM(q), p # q
        PROVE  pages_info[p].id_real # pages_info[q].id_real /\ mapping[p].off # mapping[q].off
    BY <2>0, <2>3, OwnPlaces
  <2>4. QED
    BY <2>1, <2>2, <2>3 DEF PageTableSound
<1>2. QED
  BY <1>1, InvHolds, PTL

(* For all numbers of pages: a page that has not been swapped out since    *)
(* the program stored in it holds what was stored, and is zero if nothing  *)
(* was, whatever sigsegv_handler does to the other pages.                  *)
THEOREM DataKept == Spec => []ResidentKeepsData
<1>1. Inv => ResidentKeepsData
  BY DEF Inv, Stores
<1>2. QED
  BY <1>1, InvHolds, PTL

-----------------------------------------------------------------------------
(* MiniShellLinux.  Sequences of whatever there is.                        *)
LEMMA SeqIsSeq ==
  ASSUME NEW S, NEW s \in Seq(S) PROVE IsSeq(s)
<1>1. s \in [1 .. Len(s) -> S] /\ Len(s) \in Nat
  OBVIOUS
<1>2. s \in [1 .. Len(s) -> {s[i] : i \in DOMAIN s}]
  BY <1>1
<1> QED  BY <1>1, <1>2 DEF IsSeq

LEMMA IsSeqLen ==
  ASSUME NEW s, IsSeq(s) PROVE Len(s) \in Nat /\ DOMAIN s = 1 .. Len(s)
BY DEF IsSeq

(* A sequence without its first frame.                                     *)
LEMMA TailOf ==
  ASSUME NEW s, IsSeq(s), s # <<>>
  PROVE  /\ IsSeq(Tail(s)) /\ Len(Tail(s)) = Len(s) - 1 /\ Len(s) > 0 /\ Len(s) \in Nat
         /\ Head(s) = s[1] /\ \A i \in 1 .. Len(Tail(s)) : Tail(s)[i] = s[i + 1]
<1> DEFINE S == {s[i] : i \in DOMAIN s}
<1>1. s \in Seq(S)
  BY DEF IsSeq
<1> HIDE DEF S
<1>2. Tail(s) \in Seq(S)
  BY <1>1
<1>3. IsSeq(Tail(s))
  BY <1>2, SeqIsSeq
<1> QED  BY <1>1, <1>3

(* A frame before a sequence.                                              *)
LEMMA Pushed ==
  ASSUME NEW f, NEW s, IsSeq(s)
  PROVE  LET t == <<f>> \o s
         IN  /\ IsSeq(t) /\ Len(t) = Len(s) + 1 /\ t # <<>> /\ t[1] = f
             /\ \A i \in 2 .. Len(t) : t[i] = s[i - 1]
<1> DEFINE S == {s[i] : i \in DOMAIN s} \cup {f}
           t == <<f>> \o s
<1>1. s \in Seq(S) /\ <<f>> \in Seq(S)
  <2>1. s \in [1 .. Len(s) -> S] /\ Len(s) \in Nat
    BY DEF IsSeq
  <2> QED  BY <2>1
<1> HIDE DEF S
<1>2. t \in Seq(S) /\ Len(t) = Len(s) + 1 /\ t[1] = f /\ \A i \in 2 .. Len(t) : t[i] = s[i - 1]
  BY <1>1
<1> HIDE DEF t
<1>3. IsSeq(t) /\ t # <<>>
  <2>1. IsSeq(t) /\ Len(s) \in Nat
    BY <1>1, <1>2, SeqIsSeq
  <2>2. Len(<<>>) = 0
    OBVIOUS
  <2> QED  BY <1>2, <2>1, <2>2
<1> QED  BY <1>2, <1>3 DEF t

(* The same for two and three frames.                                      *)
LEMMA PushedMore ==
  ASSUME NEW a, NEW b, NEW c, NEW s, IsSeq(s)
  PROVE  /\ <<>> \o s = s
         /\ <<a, b>> \o s = <<a>> \o (<<b>> \o s)
         /\ <<a, b, c>> \o s = <<a>> \o (<<b>> \o (<<c>> \o s))
<1> DEFINE S == {s[i] : i \in DOMAIN s} \cup {a, b, c}
<1>1. s \in Seq(S) /\ <<a>> \in Seq(S) /\ <<b>> \in Seq(S) /\ <<c>> \in Seq(S)
  <2>1. s \in [1 .. Len(s) -> S] /\ Len(s) \in Nat
    BY DEF IsSeq
  <2> QED  BY <2>1
<1>11. <<a, b>> \in Seq(S) /\ <<a, b, c>> \in Seq(S)
  OBVIOUS
<1> HIDE DEF S
<1>2. <<>> \o s = s
  BY <1>1
<1>3. <<a, b>> \o s = <<a>> \o (<<b>> \o s)
  <2> DEFINE x == <<a, b>> \o s
             y == <<a>> \o (<<b>> \o s)
  <2>1. x \in Seq(S) /\ y \in Seq(S) /\ Len(x) = Len(s) + 2 /\ Len(y) = Len(s) + 2
    BY <1>1, <1>11
  <2>2. \A i \in 1 .. Len(x) : x[i] = y[i]
    BY <1>1, <1>11
  <2> HIDE DEF x, y
  <2>3. x = y
    BY <2>1, <2>2, SeqEqual
  <2> QED  BY <2>3 DEF x, y
<1>4. <<a, b, c>> \o s = <<a>> \o (<<b>> \o (<<c>> \o s))
  <2> DEFINE x == <<a, b, c>> \o s
             y == <<a>> \o (<<b>> \o (<<c>> \o s))
  <2>1. x \in Seq(S) /\ y \in Seq(S) /\ Len(x) = Len(s) + 3 /\ Len(y) = Len(s) + 3
    BY <1>1, <1>11
  <2>2. \A i \in 1 .. Len(x) : x[i] = y[i]
    BY <1>1, <1>11
  <2> HIDE DEF x, y
  <2>3. x = y
    BY <2>1, <2>2, SeqEqual
  <2> QED  BY <2>3 DEF x, y
<1> QED  BY <1>2, <1>3, <1>4

(* What is waited for, with and without the first frame.                   *)
LEMMA TailTidy ==
  ASSUME NEW s, Tidy(s), s # <<>>
  PROVE  /\ Tidy(Tail(s)) /\ IsSeq(Tail(s))
         /\ \A q : Awaits(s, q) <=> (Head(s).k \in WaitFrames /\ Head(s).n = q) \/ Awaits(Tail(s), q)
         /\ Head(s).k \in Closing => Lacks(Tail(s), WaitFrames)
         /\ \A K : Lacks(s, K) <=> Head(s).k \notin K /\ Lacks(Tail(s), K)
<1>1. /\ IsSeq(Tail(s)) /\ Len(Tail(s)) = Len(s) - 1 /\ Len(s) > 0 /\ Len(s) \in Nat
      /\ Head(s) = s[1] /\ \A i \in 1 .. Len(Tail(s)) : Tail(s)[i] = s[i + 1]
  BY TailOf DEF Tidy
<1>11. \A i \in 2 .. Len(s) : i - 1 \in 1 .. Len(Tail(s)) /\ s[i] = Tail(s)[i - 1]
  BY <1>1
<1>2. Tidy(Tail(s))
  BY <1>1 DEF Tidy
<1>3. Head(s).k \in Closing => Lacks(Tail(s), WaitFrames)
  BY <1>1 DEF Tidy, Lacks
<1>4. ASSUME NEW q
      PROVE  Awaits(s, q) <=> (Head(s).k \in WaitFrames /\ Head(s).n = q) \/ Awaits(Tail(s), q)
  <2>1. ASSUME Awaits(s, q) PROVE (Head(s).k \in WaitFrames /\ Head(s).n = q) \/ Awaits(Tail(s), q)
    <3>1. PICK i \in 1 .. Len(s) : s[i].k \in WaitFrames /\ s[i].n = q
      BY <2>1 DEF Awaits
    <3>2. CASE i = 1
      BY <1>1, <3>1, <3>2
    <3>3. CASE i # 1
      <4>1. i \in 2 .. Len(s)
        BY <1>1, <3>3
      <4> QED  BY <1>11, <3>1, <4>1 DEF Awaits
    <3> QED  BY <3>2, <3>3
  <2>2. ASSUME Awaits(Tail(s), q) PROVE Awaits(s, q)
    <3>1. PICK i \in 1 .. Len(Tail(s)) : Tail(s)[i].k \in WaitFrames /\ Tail(s)[i].n = q
      BY <2>2 DEF Awaits
    <3>2. i + 1 \in 1 .. Len(s) /\ s[i + 1] = Tail(s)[i]
      BY <1>1
    <3> QED  BY <3>1, <3>2 DEF Awaits
  <2>3. ASSUME Head(s).k \in WaitFrames, Head(s).n = q PROVE Awaits(s, q)
    BY <1>1, <2>3 DEF Awaits
  <2> QED  BY <2>1, <2>2, <2>3
<1>5. ASSUME NEW K PROVE Lacks(s, K) <=> Head(s).k \notin K /\ Lacks(Tail(s), K)
  <2>1. ASSUME Lacks(s, K) PROVE Head(s).k \notin K /\ Lacks(Tail(s), K)
    BY <1>1, <2>1 DEF Lacks
  <2>2. ASSUME Head(s).k \notin K, Lacks(Tail(s), K) PROVE Lacks(s, K)
    <3> SUFFICES ASSUME NEW i \in 1 .. Len(s) PROVE s[i].k \notin K
      BY DEF Lacks
    <3>1. i = 1 \/ i \in 2 .. Len(s)
      BY <1>1
    <3> QED  BY <1>1, <1>11, <2>2, <3>1 DEF Lacks
  <2> QED  BY <2>1, <2>2
<1> QED  BY <1>1, <1>2, <1>3, <1>4, <1>5

LEMMA PushedTidy ==
  ASSUME NEW f, NEW s, Tidy(s), f.k \in Closing => Lacks(s, WaitFrames)
  PROVE  LET t == <<f>> \o s
         IN  /\ Tidy(t) /\ t # <<>> /\ Head(t) = f
             /\ \A q : Awaits(t, q) <=> (f.k \in WaitFrames /\ f.n = q) \/ Awaits(s, q)
             /\ \A K : Lacks(t, K) <=> f.k \notin K /\ Lacks(s, K)
<1> DEFINE t == <<f>> \o s
<1>1. /\ IsSeq(t) /\ Len(t) = Len(s) + 1 /\ t # <<>> /\ t[1] = f
      /\ \A i \in 2 .. Len(t) : t[i] = s[i - 1]
  BY Pushed DEF Tidy
<1>2. Len(s) \in Nat
  BY IsSeqLen DEF Tidy
<1> HIDE DEF t
<1>3. \A i \in 1 .. Len(t) : i = 1 \/ (i \in 2 .. Len(t) /\ i - 1 \in 1 .. Len(s) /\ t[i] = s[i - 1])
  BY <1>1, <1>2
<1>4. \A i \in 1 .. Len(s) : i + 1 \in 2 .. Len(t) /\ t[i + 1] = s[i] /\ i + 1 \in 1 .. Len(t)
  BY <1>1, <1>2
<1>5. Tidy(t)
  <2> SUFFICES ASSUME NEW i \in 1 .. Len(t), NEW j \in 1 .. Len(t), i < j, t[i].k \in Closing
               PROVE  t[j].k \notin WaitFrames
    BY <1>1 DEF Tidy
  <2>1. j - 1 \in 1 .. Len(s) /\ t[j] = s[j - 1]
    BY <1>1, <1>2, <1>3
  <2>2. CASE i = 1
    BY <1>1, <2>1, <2>2 DEF Lacks
  <2>3. CASE i # 1
    <3>1. i - 1 \in 1 .. Len(s) /\ t[i] = s[i - 1] /\ i - 1 < j - 1
      BY <1>3, <2>3, <1>2, <1>1
    <3> QED  BY <2>1, <3>1 DEF Tidy
  <2> QED  BY <2>2, <2>3
<1>6. ASSUME NEW q PROVE Awaits(t, q) <=> (f.k \in WaitFrames /\ f.n = q) \/ Awaits(s, q)
  <2>0. 1 \in 1 .. Len(t)
    BY <1>1, <1>2
  <2>1. ASSUME Awaits(t, q) PROVE (f.k \in WaitFrames /\ f.n = q) \/ Awaits(s, q)
    BY <1>1, <1>3, <2>1 DEF Awaits
  <2>2. ASSUME Awaits(s, q) PROVE Awaits(t, q)
    BY <1>4, <2>2 DEF Awaits
  <2>3. ASSUME f.k \in WaitFrames, f.n = q PROVE Awaits(t, q)
    BY <1>1, <2>0, <2>3 DEF Awaits
  <2> QED  BY <2>1, <2>2, <2>3
<1>7. ASSUME NEW K PROVE Lacks(t, K) <=> f.k \notin K /\ Lacks(s, K)
  <2>0. 1 \in 1 .. Len(t)
    BY <1>1, <1>2
  <2>1. ASSUME Lacks(t, K) PROVE f.k \notin K /\ Lacks(s, K)
    BY <1>1, <1>4, <2>0, <2>1 DEF Lacks
  <2>2. ASSUME f.k \notin K, Lacks(s, K) PROVE Lacks(t, K)
    BY <1>1, <1>3, <2>2 DEF Lacks
  <2> QED  BY <2>1, <2>2
<1>8. Head(t) = f
  BY <1>1
<1> QED  BY <1>1, <1>5, <1>6, <1>7, <1>8 DEF t

LEMMA EmptyTidy ==
  /\ Tidy(<<>>) /\ \A K : Lacks(<<>>, K)
  /\ \A q : ~Awaits(<<>>, q)
<1>1. IsSeq(<<>>)
  BY SeqIsSeq, <<>> \in Seq({})
<1>2. Len(<<>>) = 0
  OBVIOUS
<1> QED  BY <1>1, <1>2 DEF Tidy, Lacks, Awaits
(* A process goes on by itself.                                            *)
LEMMA Moves ==
  ASSUME ProcInv, NEW p \in Pids, Live(p), procs[p].todo # <<>>,
         NEW r, Running(r), r.parent = procs[p].parent, r.left = procs[p].left,
         \A q : Awaits(procs[p].todo, q) => Awaits(r.todo, q),
         procs' = [procs EXCEPT ![p] = r], UNCHANGED <<shell, faults>>
  PROVE  ProcInv'
<1>1. /\ DOMAIN procs' = Pids /\ procs'[p] = r
      /\ \A q \in Pids : q # p => procs'[q] = procs[q]
  BY DEF ProcInv, Shape
<1>2. Proper(procs[p]) /\ Proper(r)
  BY DEF ProcInv, Shape, Proper, Running, Live
<1>3. Shape'
  BY <1>1, <1>2 DEF ProcInv, Shape
<1>4. ShellThere'
  <2>1. shell = "prompt" => p # 1
    BY DEF ProcInv, ShellThere
  <2>2. 1 \in Pids
    BY ShellAssumption DEF Pids
  <2>3. shell # "exited" => Live(1)' /\ procs'[1].parent = 0
    BY <1>1, <2>2 DEF ProcInv, ShellThere, Live, Running
  <2> QED  BY <1>1, <2>1, <2>2, <2>3 DEF ProcInv, ShellThere
<1>5. \A q \in Pids : (Counted(q)' <=> Counted(q)) /\ procs'[q].parent = procs[q].parent
  BY <1>1 DEF Counted, Live, Running
<1>6. \A s, q : Awaiting(s, q) => Awaiting(s, q)'
  BY <1>1 DEF Awaiting, Live, Running
<1>7. Awaited'
  <2> SUFFICES ASSUME faults = 0
               PROVE  /\ \A q \in Pids \ {1} : Counted(q)' => Awaiting(procs[q].parent, q)'
                      /\ \E d \in [Pids -> Nat] : Deeper(d)'
    BY <1>5 DEF Awaited
  <2>1. PICK d \in [Pids -> Nat] : Deeper(d)
    BY DEF ProcInv, Awaited
  <2>2. Deeper(d)'
    BY <1>5, <2>1 DEF Deeper
  <2> QED  BY <1>5, <1>6, <2>2 DEF ProcInv, Awaited
<1> QED  BY <1>3, <1>4, <1>7 DEF ProcInv

(* A process ends, and does not wait for anybody unless something has      *)
(* failed.                                                                 *)
LEMMA Leaves ==
  ASSUME ProcInv, NEW p \in Pids, Live(p), NEW status, Ends(p, status),
         faults' \in {faults, faults + 1}, faults' = 0 => Lacks(procs[p].todo, WaitFrames)
  PROVE  ProcInv'
<1>0. faults \in Nat /\ DOMAIN procs = Pids /\ \A q \in Pids : Proper(procs[q])
  BY DEF ProcInv, Shape
<1> DEFINE Z(q) == [st |-> "zombie", parent |-> procs[q].parent, status |-> status,
                    left |-> procs[q].left]
<1>1. /\ DOMAIN procs' = Pids
      /\ procs'[p] = IF procs[p].parent = 0 THEN Free ELSE Z(p)
      /\ \A q \in Pids : q # p =>
           procs'[q] = IF procs[q].st # "free" /\ procs[q].parent = p
                       THEN IF procs[q].st = "zombie" THEN Free ELSE [procs[q] EXCEPT !.parent = 0]
                       ELSE procs[q]
  BY DEF Ends, Ended
<1>2. /\ Z(p).st = "zombie" /\ Z(p).left = procs[p].left /\ Z(p).parent = procs[p].parent
      /\ Free.st = "free"
  BY DEF Free
<1> HIDE DEF Z
<1>3. ASSUME NEW q \in Pids, q # p
      PROVE  /\ Proper(procs'[q])
             /\ procs[q].st = "run" =>
                  /\ procs'[q].st = "run" /\ procs'[q].left = procs[q].left
                  /\ procs'[q].todo = procs[q].todo
                  /\ procs[q].parent # p => procs'[q] = procs[q]
             /\ procs'[q].st # "free" => procs[q].st # "free" /\ procs'[q].left = procs[q].left
             /\ procs[q].parent # p => procs'[q] = procs[q]
             /\ procs[q].st = "free" => procs'[q] = procs[q]
  <2>1. CASE procs[q].st = "run" /\ procs[q].parent = p
    <3> DEFINE r == [procs[q] EXCEPT !.parent = 0]
    <3>1. procs'[q] = r
      BY <1>1, <1>3, <2>1
    <3>2. DOMAIN procs[q] = RunFields /\ Tidy(procs[q].todo)
      BY <1>0, <2>1 DEF Proper, Running
    <3>3. /\ DOMAIN r = RunFields /\ r.st = procs[q].st /\ r.left = procs[q].left
          /\ r.todo = procs[q].todo
      BY <3>2 DEF RunFields
    <3> HIDE DEF r
    <3> QED  BY <1>0, <2>1, <3>1, <3>2, <3>3 DEF Proper, Running
  <2>2. CASE procs[q].st = "zombie" /\ procs[q].parent = p
    BY <1>1, <1>2, <1>3, <2>2 DEF Proper
  <2>3. CASE procs[q].st = "free" \/ procs[q].parent # p
    BY <1>0, <1>1, <1>3, <2>3
  <2> QED  BY <1>0, <2>1, <2>2, <2>3 DEF Proper
<1>4. Proper(procs'[p])
  BY <1>0, <1>1, <1>2 DEF Proper, Live
<1>5. Shape'
  BY <1>0, <1>1, <1>3, <1>4 DEF Shape
<1>6. ShellThere'
  <2>1. 1 \in Pids
    BY ShellAssumption DEF Pids
  <2>2. p = 1 => shell' = "exited"
    BY DEF Ends
  <2>3. p # 1 => shell' = shell
    BY DEF Ends
  <2>4. ASSUME p # 1, shell # "exited" PROVE procs'[1] = procs[1]
    BY <1>3, <2>1, <2>4, ShellAssumption DEF ProcInv, ShellThere, Pids
  <2> QED  BY <2>1, <2>2, <2>3, <2>4 DEF ProcInv, ShellThere, Live
<1>7. Awaited'
  <2> SUFFICES ASSUME faults' = 0
               PROVE  /\ \A q \in Pids \ {1} : Counted(q)' => Awaiting(procs[q].parent, q)'
                      /\ \E d \in [Pids -> Nat] : Deeper(d)'
    BY DEF Awaited
  <2>1. faults = 0 /\ Lacks(procs[p].todo, WaitFrames)
    BY <1>0
  <2>2. PICK d \in [Pids -> Nat] : Deeper(d)
    BY <2>1 DEF ProcInv, Awaited
  <2>3. \A q : ~Awaiting(p, q)
    BY <2>1 DEF Awaiting, Awaits, Lacks
  <2>4. ASSUME NEW q \in Pids \ {1}, Counted(q)'
        PROVE  Counted(q) /\ procs'[q].parent = procs[q].parent /\ Awaiting(procs[q].parent, q)'
    <3>1. Counted(q)
      BY <1>1, <1>2, <1>3, <2>4 DEF Counted, Live
    <3>2. Awaiting(procs[q].parent, q)
      BY <2>1, <3>1 DEF ProcInv, Awaited
    <3>3. procs[q].parent # p
      BY <2>3, <3>2
    <3>4. procs'[q].parent = procs[q].parent
      <4>1. CASE q = p
        BY <1>1, <1>2, <2>4, <4>1 DEF Counted
      <4>2. CASE q # p
        BY <1>3, <3>3, <4>2
      <4> QED  BY <4>1, <4>2
    <3>5. Awaiting(procs[q].parent, q)
            => /\ procs'[procs[q].parent].st = "run" /\ procs'[procs[q].parent].left = FALSE
               /\ Awaits(procs'[procs[q].parent].todo, q)
      BY <1>3, <3>3 DEF Awaiting, Live
    <3> QED  BY <3>1, <3>2, <3>4, <3>5 DEF Awaiting, Live
  <2>5. Deeper(d)'
    BY <2>2, <2>4 DEF Deeper
  <2> QED  BY <2>4, <2>5
<1> QED  BY <1>5, <1>6, <1>7 DEF ProcInv

(* fork: the parent waits for the child, or leaves it to itself.           *)
LEMMA Forks ==
  ASSUME ProcInv, NEW p \in Pids, Live(p), procs[p].todo # <<>>,
         NEW r, Running(r), r.parent = procs[p].parent, r.left = procs[p].left,
         \A q : Awaits(procs[p].todo, q) => Awaits(r.todo, q),
         NEW todo, Tidy(todo), NEW left \in BOOLEAN, left \/ Awaits(r.todo, NewPid),
         Fork(p, r, todo, left)
  PROVE  ProcInv'
<1>0. faults \in Nat /\ DOMAIN procs = Pids /\ \A q \in Pids : Proper(procs[q])
  BY DEF ProcInv, Shape
<1>1. CASE faults' = faults + 1 /\ Ends(p, ExitStatus(-1))
  <2>1. faults' # 0 /\ faults' \in {faults, faults + 1}
    BY <1>0, <1>1
  <2> QED  BY <1>1, <2>1, Leaves
<1>2. ASSUME FreePids # {},
             procs' = [procs EXCEPT ![p] = r,
                                    ![NewPid] = [procs[p] EXCEPT !.todo = todo, !.parent = p,
                                                                 !.left = @ \/ left]],
             UNCHANGED <<shell, faults>>
      PROVE  ProcInv'
  <2>0. PICK n : n = NewPid
    OBVIOUS
  <2> DEFINE c == [procs[p] EXCEPT !.todo = todo, !.parent = p, !.left = @ \/ left]
  <2>1. n \in Pids /\ procs[n].st = "free" /\ n # p
    <3>1. n \in FreePids
      BY <1>2, <2>0 DEF NewPid
    <3> QED  BY <3>1 DEF FreePids, Live
  <2>2. DOMAIN procs[p] = RunFields /\ procs[p].left \in BOOLEAN
    BY <1>0 DEF Proper, Running, Live
  <2>3. /\ DOMAIN c = RunFields /\ c.st = "run" /\ c.todo = todo /\ c.parent = p
        /\ c.left = (procs[p].left \/ left)
    BY <2>2 DEF RunFields, Live
  <2>4. /\ DOMAIN procs' = Pids /\ procs'[p] = r /\ procs'[n] = c
        /\ \A q \in Pids : q \notin {p, n} => procs'[q] = procs[q]
    <3> HIDE DEF c
    <3>1. procs' = [procs EXCEPT ![p] = r, ![n] = c]
      BY <1>2, <2>0 DEF c
    <3> QED  BY <1>0, <2>1, <3>1
  <2> HIDE DEF c
  <2>5. Shape'
    <3>1. Proper(r) /\ Proper(c)
      BY <1>0, <2>2, <2>3 DEF Proper, Running
    <3> QED  BY <1>0, <1>2, <2>4, <3>1 DEF Shape
  <2>6. ShellThere'
    <3>1. 1 \in Pids
      BY ShellAssumption DEF Pids
    <3>2. shell # "exited" => n # 1
      BY <2>1 DEF ProcInv, ShellThere, Live
    <3>3. shell = "prompt" => p # 1
      BY DEF ProcInv, ShellThere
    <3> QED  BY <1>2, <2>4, <3>1, <3>2, <3>3 DEF ProcInv, ShellThere, Live, Running
  <2>7. Awaited'
    <3> SUFFICES ASSUME faults = 0
                 PROVE  /\ \A q \in Pids \ {1} : Counted(q)' => Awaiting(procs[q].parent, q)'
                        /\ \E d \in [Pids -> Nat] : Deeper(d)'
      BY <1>2 DEF Awaited
    <3>1. PICK d \in [Pids -> Nat] : Deeper(d)
      BY DEF ProcInv, Awaited
    <3>2. \A q \in Pids \ {n} : (Counted(q)' <=> Counted(q)) /\ procs'[q].parent = procs[q].parent
      BY <2>4 DEF Counted, Live, Running
    <3>3. \A s, q : Awaiting(s, q) => s # n /\ Awaiting(s, q)'
      BY <2>1, <2>4 DEF Awaiting, Live, Running
    <3>4. Counted(n)' => procs[p].left = FALSE /\ left = FALSE
      BY <2>2, <2>3, <2>4 DEF Counted
    <3>5. Counted(n)' => Awaiting(p, n)' /\ procs'[n].parent = p
      BY <2>0, <2>3, <2>4, <3>4 DEF Awaiting, Live, Running
    <3> DEFINE e == [d EXCEPT ![n] = d[p] + 1]
    <3>6. e \in [Pids -> Nat] /\ e[n] = d[p] + 1 /\ \A q \in Pids \ {n} : e[q] = d[q]
      BY <2>1
    <3>7. Deeper(e)'
      <4> HIDE DEF e
      <4> SUFFICES ASSUME NEW q \in Pids \ {1}, Counted(q)' PROVE e[procs'[q].parent] < e[q]
        BY DEF Deeper
      <4>1. CASE q = n
        BY <2>1, <3>5, <3>6, <4>1
      <4>2. CASE q # n
        <5>1. Counted(q) /\ procs'[q].parent = procs[q].parent
          BY <3>2, <4>2
        <5>2. procs[q].parent \in Pids \ {n}
          BY <3>3, <5>1 DEF ProcInv, Awaited, Awaiting
        <5> QED  BY <3>1, <3>6, <4>2, <5>1, <5>2 DEF Deeper
      <4> QED  BY <4>1, <4>2
    <3>8. ASSUME NEW q \in Pids \ {1}, Counted(q)' PROVE Awaiting(procs[q].parent, q)'
      <4>1. CASE q = n
        BY <3>5, <3>8, <4>1
      <4>2. CASE q # n
        <5>1. Counted(q) /\ procs'[q].parent = procs[q].parent
          BY <3>2, <3>8, <4>2
        <5> QED  BY <3>3, <5>1 DEF ProcInv, Awaited
      <4> QED  BY <4>1, <4>2
    <3> QED  BY <3>6, <3>7, <3>8
  <2> QED  BY <2>5, <2>6, <2>7 DEF ProcInv
<1> QED  BY <1>1, <1>2 DEF Fork

(* waitpid: the parent takes a zombie away and does not wait for it again. *)
LEMMA Reaps ==
  ASSUME ProcInv, NEW p \in Pids, Live(p), procs[p].todo # <<>>,
         NEW r, Running(r), r.parent = procs[p].parent, r.left = procs[p].left,
         NEW z, procs[z].st = "zombie",
         \A q : q # z /\ Awaits(procs[p].todo, q) => Awaits(r.todo, q),
         procs' = Reaped(p, z, r), UNCHANGED <<shell, faults>>
  PROVE  ProcInv'
<1>0. faults \in Nat /\ DOMAIN procs = Pids /\ \A q \in Pids : Proper(procs[q])
  BY DEF ProcInv, Shape
<1>1. z # p /\ (shell # "exited" => z # 1)
  BY DEF Live, ProcInv, ShellThere
<1>2. /\ DOMAIN procs' = Pids /\ procs'[p] = r /\ (z \in Pids => procs'[z] = Free)
      /\ \A q \in Pids : q \notin {p, z} => procs'[q] = procs[q]
  BY <1>0, <1>1 DEF Reaped
<1>3. Free.st = "free"
  BY DEF Free
<1>4. Shape'
  <2>1. Proper(r) /\ Proper(Free)
    BY <1>0, <1>3 DEF Proper, Running, Live
  <2> QED  BY <1>0, <1>2, <2>1 DEF Shape
<1>5. ShellThere'
  <2>1. 1 \in Pids
    BY ShellAssumption DEF Pids
  <2>2. shell = "prompt" => p # 1
    BY DEF ProcInv, ShellThere
  <2> QED  BY <1>1, <1>2, <2>1, <2>2 DEF ProcInv, ShellThere, Live, Running
<1>6. Awaited'
  <2> SUFFICES ASSUME faults = 0
               PROVE  /\ \A q \in Pids \ {1} : Counted(q)' => Awaiting(procs[q].parent, q)'
                      /\ \E d \in [Pids -> Nat] : Deeper(d)'
    BY DEF Awaited
  <2>1. PICK d \in [Pids -> Nat] : Deeper(d)
    BY DEF ProcInv, Awaited
  <2>2. ASSUME NEW q \in Pids \ {1}, Counted(q)'
        PROVE  q # z /\ Counted(q) /\ procs'[q].parent = procs[q].parent
    BY <1>2, <1>3, <2>2 DEF Counted, Live, Running
  <2>3. \A s, q : q # z /\ Awaiting(s, q) => Awaiting(s, q)'
    BY <1>2 DEF Awaiting, Live, Running
  <2>4. Deeper(d)'
    BY <2>1, <2>2 DEF Deeper
  <2>5. \A q \in Pids \ {1} : Counted(q)' => Awaiting(procs[q].parent, q)'
    BY <2>2, <2>3 DEF ProcInv, Awaited
  <2> QED  BY <2>4, <2>5
<1> QED  BY <1>4, <1>5, <1>6 DEF ProcInv
-----------------------------------------------------------------------------
(* The first frame of a process is replaced by others.                     *)
Follows(t, s) ==
  /\ Tidy(t)
  /\ \A q : Awaits(s, q) => Awaits(t, q) \/ (Head(s).k \in WaitFrames /\ Head(s).n = q)

LEMMA Replaced ==
  ASSUME NEW s, Tidy(s), s # <<>>
  PROVE  /\ Follows(<<>> \o Tail(s), s) /\ Follows(Tail(s), s) /\ <<>> \o Tail(s) = Tail(s)
         /\ Lacks(s, Preparing) => Lacks(Tail(s), Preparing)
<1>1. IsSeq(Tail(s))
  BY TailTidy
<1>2. <<>> \o Tail(s) = Tail(s)
  BY <1>1, PushedMore
<1>3. Tidy(Tail(s)) /\ (Lacks(s, Preparing) => Lacks(Tail(s), Preparing))
  BY TailTidy
<1>4. \A q : Awaits(s, q) => Awaits(Tail(s), q) \/ (Head(s).k \in WaitFrames /\ Head(s).n = q)
  <2> TAKE q
  <2>1. Awaits(s, q) <=> (Head(s).k \in WaitFrames /\ Head(s).n = q) \/ Awaits(Tail(s), q)
    BY TailTidy
  <2> QED  BY <2>1
<1> QED  BY <1>2, <1>3, <1>4 DEF Follows

LEMMA ReplacedBy1 ==
  ASSUME NEW s, Tidy(s), s # <<>>,
         NEW a, a.k \notin Preparing, a.k \in Closing => Head(s).k \in Closing
  PROVE  LET t == <<a>> \o Tail(s)
         IN  Follows(t, s) /\ (Lacks(s, Preparing) => Lacks(t, Preparing)) /\ (a.k \in WaitFrames => Awaits(t, a.n))
<1>1. /\ Tidy(Tail(s)) /\ (Head(s).k \in Closing => Lacks(Tail(s), WaitFrames))
      /\ Lacks(s, Preparing) => Lacks(Tail(s), Preparing)
      /\ \A q : Awaits(s, q) <=> (Head(s).k \in WaitFrames /\ Head(s).n = q) \/ Awaits(Tail(s), q)
  BY TailTidy
<1> DEFINE t == <<a>> \o Tail(s)
<1>2. /\ Tidy(t) /\ (Lacks(s, Preparing) => Lacks(t, Preparing))
      /\ \A q : Awaits(t, q) <=> (a.k \in WaitFrames /\ a.n = q) \/ Awaits(Tail(s), q)
  BY <1>1, PushedTidy
<1> HIDE DEF t
<1>3. \A q : Awaits(s, q) => Awaits(t, q) \/ (Head(s).k \in WaitFrames /\ Head(s).n = q)
  BY <1>1, <1>2
<1>4. a.k \in WaitFrames => Awaits(t, a.n)
  BY <1>2
<1>5. Follows(t, s) /\ (Lacks(s, Preparing) => Lacks(t, Preparing)) /\ (a.k \in WaitFrames => Awaits(t, a.n))
  BY <1>2, <1>3, <1>4 DEF Follows
<1> QED  BY <1>5 DEF t

LEMMA ReplacedBy2 ==
  ASSUME NEW s, Tidy(s), s # <<>>,
         NEW a, a.k \notin Preparing \cup Closing,
         NEW b, b.k \notin Preparing, b.k \in Closing => Head(s).k \in Closing
  PROVE  LET t == <<a, b>> \o Tail(s)
         IN  Follows(t, s) /\ (Lacks(s, Preparing) => Lacks(t, Preparing)) /\ (b.k \in WaitFrames => Awaits(t, b.n))
<1>1. /\ Tidy(Tail(s)) /\ (Head(s).k \in Closing => Lacks(Tail(s), WaitFrames))
      /\ Lacks(s, Preparing) => Lacks(Tail(s), Preparing)
      /\ IsSeq(Tail(s))
      /\ \A q : Awaits(s, q) <=> (Head(s).k \in WaitFrames /\ Head(s).n = q) \/ Awaits(Tail(s), q)
  BY TailTidy
<1> DEFINE u == <<b>> \o Tail(s)
<1>2. /\ Tidy(u) /\ (Lacks(s, Preparing) => Lacks(u, Preparing))
      /\ \A q : Awaits(u, q) <=> (b.k \in WaitFrames /\ b.n = q) \/ Awaits(Tail(s), q)
  BY <1>1, PushedTidy
<1>3. <<a, b>> \o Tail(s) = <<a>> \o u
  BY <1>1, PushedMore
<1> HIDE DEF u
<1>4. /\ Tidy(<<a>> \o u) /\ (Lacks(s, Preparing) => Lacks(<<a>> \o u, Preparing))
      /\ \A q : Awaits(<<a>> \o u, q) <=> (a.k \in WaitFrames /\ a.n = q) \/ Awaits(u, q)
  BY <1>2, PushedTidy
<1> DEFINE t == <<a>> \o u
<1> HIDE DEF t
<1>5. \A q : Awaits(s, q) => Awaits(t, q) \/ (Head(s).k \in WaitFrames /\ Head(s).n = q)
  <2>1. \A q : Awaits(u, q) => Awaits(t, q)
    BY <1>4 DEF t
  <2>2. \A q : Awaits(Tail(s), q) => Awaits(u, q)
    BY <1>2
  <2> QED  BY <1>1, <2>1, <2>2
<1>6. b.k \in WaitFrames => Awaits(t, b.n)
  <2>1. b.k \in WaitFrames => Awaits(u, b.n)
    BY <1>2
  <2> QED  BY <1>4, <2>1 DEF t
<1>7. Follows(t, s) /\ (Lacks(s, Preparing) => Lacks(t, Preparing)) /\ (b.k \in WaitFrames => Awaits(t, b.n))
  BY <1>4, <1>5, <1>6 DEF Follows, t
<1> QED  BY <1>3, <1>7 DEF t

LEMMA ReplacedBy3 ==
  ASSUME NEW s, Tidy(s), s # <<>>, Head(s).k \in Closing,
         NEW a, a.k \notin Preparing \cup Closing, NEW b, b.k \notin Preparing \cup Closing,
         NEW c, c.k \notin Preparing
  PROVE  LET t == <<a, b, c>> \o Tail(s) IN Follows(t, s) /\ (Lacks(s, Preparing) => Lacks(t, Preparing))
<1>1. /\ Tidy(Tail(s)) /\ Lacks(Tail(s), WaitFrames)
      /\ Lacks(s, Preparing) => Lacks(Tail(s), Preparing)
      /\ IsSeq(Tail(s))
      /\ \A q : Awaits(s, q) <=> (Head(s).k \in WaitFrames /\ Head(s).n = q) \/ Awaits(Tail(s), q)
  BY TailTidy
<1> DEFINE u == <<c>> \o Tail(s)
           v == <<b>> \o u
<1>2. /\ Tidy(u) /\ (Lacks(s, Preparing) => Lacks(u, Preparing))
      /\ \A q : Awaits(u, q) <=> (c.k \in WaitFrames /\ c.n = q) \/ Awaits(Tail(s), q)
  BY <1>1, PushedTidy
<1>3. <<a, b, c>> \o Tail(s) = <<a>> \o v
  BY <1>1, PushedMore
<1> HIDE DEF u
<1>4. /\ Tidy(v) /\ (Lacks(s, Preparing) => Lacks(v, Preparing))
      /\ \A q : Awaits(v, q) <=> (b.k \in WaitFrames /\ b.n = q) \/ Awaits(u, q)
  BY <1>2, PushedTidy
<1> HIDE DEF v
<1>5. /\ Tidy(<<a>> \o v) /\ (Lacks(s, Preparing) => Lacks(<<a>> \o v, Preparing))
      /\ \A q : Awaits(<<a>> \o v, q) <=> (a.k \in WaitFrames /\ a.n = q) \/ Awaits(v, q)
  BY <1>4, PushedTidy
<1> DEFINE t == <<a>> \o v
<1> HIDE DEF t
<1>6. \A q : Awaits(s, q) => Awaits(t, q) \/ (Head(s).k \in WaitFrames /\ Head(s).n = q)
  <2>1. \A q : Awaits(v, q) => Awaits(t, q)
    BY <1>5 DEF t
  <2>2. \A q : Awaits(u, q) => Awaits(v, q)
    BY <1>4
  <2>3. \A q : Awaits(Tail(s), q) => Awaits(u, q)
    BY <1>2
  <2> QED  BY <1>1, <2>1, <2>2, <2>3
<1>7. Follows(t, s) /\ (Lacks(s, Preparing) => Lacks(t, Preparing))
  BY <1>5, <1>6 DEF Follows, t
<1> QED  BY <1>3, <1>7 DEF t

(* What a child has to do when it is forked.                               *)
LEMMA Begins ==
  ASSUME NEW a, NEW b, NEW c, NEW d
  PROVE  /\ a.k \notin WaitFrames => Tidy(<<a>>)
         /\ {a.k, b.k} \cap WaitFrames = {} => Tidy(<<a, b>>)
         /\ {a.k, b.k, c.k} \cap WaitFrames = {} => Tidy(<<a, b, c>>)
         /\ {a.k, b.k, c.k, d.k} \cap WaitFrames = {} => Tidy(<<a, b, c, d>>)
         /\ \A K : Lacks(<<a>>, K) <=> a.k \notin K
         /\ \A K : Lacks(<<a, b>>, K) <=> {a.k, b.k} \cap K = {}
         /\ \A K : Lacks(<<a, b, c>>, K) <=> {a.k, b.k, c.k} \cap K = {}
<1> DEFINE S == {a, b, c, d}
<1>1. <<a>> \in Seq(S) /\ <<a, b>> \in Seq(S) /\ <<a, b, c>> \in Seq(S) /\ <<a, b, c, d>> \in Seq(S)
  OBVIOUS
<1>2. IsSeq(<<a>>) /\ IsSeq(<<a, b>>) /\ IsSeq(<<a, b, c>>) /\ IsSeq(<<a, b, c, d>>)
  BY <1>1, SeqIsSeq
<1>3. a.k \notin WaitFrames => Tidy(<<a>>)
  BY <1>2 DEF Tidy
<1>4. {a.k, b.k} \cap WaitFrames = {} => Tidy(<<a, b>>)
  BY <1>2 DEF Tidy
<1>5. {a.k, b.k, c.k} \cap WaitFrames = {} => Tidy(<<a, b, c>>)
  BY <1>2 DEF Tidy
<1>6. {a.k, b.k, c.k, d.k} \cap WaitFrames = {} => Tidy(<<a, b, c, d>>)
  BY <1>2 DEF Tidy
<1>7. \A K : Lacks(<<a>>, K) <=> a.k \notin K
  BY DEF Lacks
<1>8. \A K : Lacks(<<a, b>>, K) <=> {a.k, b.k} \cap K = {}
  BY DEF Lacks
<1>9. \A K : Lacks(<<a, b, c>>, K) <=> {a.k, b.k, c.k} \cap K = {}
  BY DEF Lacks
<1> QED  BY <1>3, <1>4, <1>5, <1>6, <1>7, <1>8, <1>9
-----------------------------------------------------------------------------
(* A process at some place of the code.                                    *)
Todo(p) == procs[p].todo
Advanced(p, r, t) ==
  /\ DOMAIN r = RunFields /\ r.st = "run" /\ r.todo = t
  /\ r.parent = procs[p].parent /\ r.left = procs[p].left
Streams(p, r) == r.in = procs[p].in /\ r.out = procs[p].out /\ r.err = procs[p].err

LEMMA Located ==
  ASSUME Shape, NEW p \in Pids, NEW k, At(p, k)
  PROVE  /\ Live(p) /\ Todo(p) # <<>> /\ Head(Todo(p)).k = k /\ Tidy(Todo(p))
         /\ DOMAIN procs[p] = RunFields /\ Do(p) = Head(Todo(p))
         /\ k \in Closing => Lacks(Tail(Todo(p)), WaitFrames)
         /\ k \in Closing \ WaitFrames => Lacks(Todo(p), WaitFrames)
<1>1. Live(p) /\ Todo(p) # <<>> /\ Do(p) = Head(Todo(p)) /\ Head(Todo(p)).k = k
  BY DEF At, Do, Todo
<1>2. DOMAIN procs[p] = RunFields /\ Tidy(Todo(p))
  BY <1>1 DEF Shape, Proper, Running, Live, Todo
<1>3. k \in Closing => Lacks(Tail(Todo(p)), WaitFrames)
  BY <1>1, <1>2, TailTidy
<1>4. k \in Closing \ WaitFrames => Lacks(Todo(p), WaitFrames)
  BY <1>1, <1>2, TailTidy
<1> QED  BY <1>1, <1>2, <1>3, <1>4

(* What becomes of the record of a process that goes on.                   *)
LEMMA Recorded ==
  ASSUME NEW p, Live(p), DOMAIN procs[p] = RunFields, NEW f, NEW x, NEW y
  PROVE  /\ Advanced(p, Then(p, f), f \o Tail(Todo(p))) /\ Streams(p, Then(p, f))
         /\ Advanced(p, Returns(p, x), Tail(Todo(p))) /\ Streams(p, Returns(p, x))
         /\ LET r == [Then(p, f) EXCEPT !.hold = x]
            IN  Advanced(p, r, f \o Tail(Todo(p))) /\ Streams(p, r)
         /\ LET r == [Then(p, f) EXCEPT !.res = OrStatus(@, x)]
            IN  Advanced(p, r, f \o Tail(Todo(p))) /\ Streams(p, r)
         /\ LET r == [Returns(p, x) EXCEPT !.cwd = y]
            IN  Advanced(p, r, Tail(Todo(p))) /\ Streams(p, r)
         /\ LET r == [Returns(p, x) EXCEPT !.env = Append(@, y)]
            IN  Advanced(p, r, Tail(Todo(p))) /\ Streams(p, r)
BY DEF Advanced, Streams, RunFields, Then, Returns, Todo, Live

LEMMA StreamRecords ==
  ASSUME NEW p, Live(p), DOMAIN procs[p] = RunFields, NEW d, NEW x, NEW n
  PROVE  /\ LET r == [Then(p, <<>>) EXCEPT !.in = d, !.hold = x]
            IN  /\ Advanced(p, r, <<>> \o Tail(Todo(p))) /\ r.in = d
                /\ r.out = procs[p].out /\ r.err = procs[p].err
         /\ LET r == [Then(p, <<>>) EXCEPT !.out = d, !.hold = x]
            IN  /\ Advanced(p, r, <<>> \o Tail(Todo(p))) /\ r.out = d
                /\ r.in = procs[p].in /\ r.err = procs[p].err
         /\ LET r == [Then(p, <<>>) EXCEPT !["in"] = d]
            IN  /\ Advanced(p, r, <<>> \o Tail(Todo(p))) /\ r.in = d /\ r.env = procs[p].env
                /\ r.out = procs[p].out /\ r.err = procs[p].err
         /\ LET r == [Then(p, <<>>) EXCEPT !["out"] = d]
            IN  /\ Advanced(p, r, <<>> \o Tail(Todo(p))) /\ r.out = d /\ r.env = procs[p].env
                /\ r.in = procs[p].in /\ r.err = procs[p].err
         /\ LET r == [Then(p, <<>>) EXCEPT !["err"] = d]
            IN  /\ Advanced(p, r, <<>> \o Tail(Todo(p))) /\ r.err = d /\ r.env = procs[p].env
                /\ r.in = procs[p].in /\ r.out = procs[p].out
         /\ Advanced(p, Goes_on(p, n), <<Frame("program", Do(p).c, n)>>) /\ Streams(p, Goes_on(p, n))
BY DEF Advanced, Streams, RunFields, Then, Goes_on, Todo, Live

(* A process that goes on, with a step that is not a waitpid.              *)
LEMMA Advances ==
  ASSUME ProcInv, NEW p \in Pids, NEW k, At(p, k), k \notin WaitFrames,
         NEW t, Follows(t, Todo(p)), NEW r, Advanced(p, r, t),
         procs' = [procs EXCEPT ![p] = r], UNCHANGED <<shell, faults>>
  PROVE  ProcInv'
<1>1. Live(p) /\ Todo(p) # <<>> /\ Head(Todo(p)).k = k
  BY Located DEF ProcInv
<1>2. Running(r)
  BY DEF Running, Advanced, Follows
<1>3. \A q : Awaits(Todo(p), q) => Awaits(r.todo, q)
  BY <1>1 DEF Follows, Advanced
<1> QED  BY <1>1, <1>2, <1>3, Moves DEF Advanced, Todo
-----------------------------------------------------------------------------
(* ProcInv is kept by each step.                                           *)
LEMMA FrameIs ==
  ASSUME NEW k, NEW c, NEW n
  PROVE  Frame(k, c, n).k = k /\ Frame(k, c, n).c = c /\ Frame(k, c, n).n = n
BY DEF Frame

LEMMA Frames ==
  /\ \A c : Eval(c).k = "eval"
  /\ Exit.k = "exit"
  /\ \A k : k \in WaitFrames <=> k \in {"wait", "wait2", "wait3"}
  /\ Preparing \subseteq Closing
  /\ {"eval", "decide", "reader", "writer", "wait", "wait3"} \cap Closing = {}
  /\ {"exit", "wait2", "fork2", "pipe", "fork3"} \cap Preparing = {}
BY FrameIs DEF Eval, Exit, WaitFrames, Preparing, Closing

LEMMA ProcOperands ==
  ASSUME ProcInv, NEW p \in Pids, first_operand(p) \/ second_operand(p)
  PROVE  ProcInv'
<1> USE DEF ProcInv
<1>1. CASE first_operand(p)
  <2> DEFINE c == Do(p).c
             f == <<Eval(c.cmd1), Frame("decide", c, 0)>>
  <2>1. At(p, "eval") /\ procs' = [procs EXCEPT ![p] = Then(p, f)] /\ UNCHANGED <<shell, faults>>
    BY <1>1 DEF first_operand, Op
  <2>2. Tidy(Todo(p)) /\ Todo(p) # <<>> /\ Live(p) /\ DOMAIN procs[p] = RunFields
    BY <2>1, Located
  <2>3. Follows(f \o Tail(Todo(p)), Todo(p))
    BY <2>2, Frames, FrameIs, ReplacedBy2
  <2>4. Advanced(p, Then(p, f), f \o Tail(Todo(p)))
    BY <2>2, Recorded
  <2>5. "eval" \notin WaitFrames
    BY Frames
  <2> HIDE DEF f
  <2> QED  BY <2>1, <2>3, <2>4, <2>5, Advances
<1>2. CASE second_operand(p)
  <2> DEFINE c == Do(p).c
             f == IF Goes(c.op, procs[p].res) THEN <<Eval(c.cmd2)>> ELSE <<>>
  <2>1. At(p, "decide") /\ procs' = [procs EXCEPT ![p] = Then(p, f)] /\ UNCHANGED <<shell, faults>>
    BY <1>2 DEF second_operand
  <2>2. Tidy(Todo(p)) /\ Todo(p) # <<>> /\ Live(p) /\ DOMAIN procs[p] = RunFields
    BY <2>1, Located
  <2>3. Follows(f \o Tail(Todo(p)), Todo(p))
    <3>1. Follows(<<Eval(c.cmd2)>> \o Tail(Todo(p)), Todo(p))
      BY <2>2, Frames, ReplacedBy1
    <3>2. Follows(<<>> \o Tail(Todo(p)), Todo(p))
      BY <2>2, Replaced
    <3> QED  BY <3>1, <3>2
  <2>4. Advanced(p, Then(p, f), f \o Tail(Todo(p)))
    BY <2>2, Recorded
  <2>5. "decide" \notin WaitFrames
    BY Frames
  <2> HIDE DEF f
  <2> QED  BY <2>1, <2>3, <2>4, <2>5, Advances
<1> QED  BY <1>1, <1>2

(* The steps that fork, and those of a program's end.                      *)
LEMMA ForksAt ==
  ASSUME ProcInv, NEW p \in Pids, NEW k, At(p, k), k \notin WaitFrames,
         NEW f, Follows(f \o Tail(Todo(p)), Todo(p)),
         NEW todo, Tidy(todo), NEW left \in BOOLEAN, left \/ Awaits(f \o Tail(Todo(p)), NewPid),
         Fork(p, Then(p, f), todo, left)
  PROVE  ProcInv'
<1>1. Live(p) /\ Todo(p) # <<>> /\ Head(Todo(p)).k = k /\ DOMAIN procs[p] = RunFields
  BY Located DEF ProcInv
<1>2. Advanced(p, Then(p, f), f \o Tail(Todo(p)))
  BY <1>1, Recorded
<1>3. Running(Then(p, f))
  BY <1>2 DEF Running, Advanced, Follows
<1>4. \A q : Awaits(Todo(p), q) => Awaits(Then(p, f).todo, q)
  BY <1>1, <1>2 DEF Follows, Advanced
<1> HIDE DEF NewPid
<1> QED  BY <1>1, <1>2, <1>3, <1>4, Forks DEF Advanced, Todo

LEMMA ProcForks ==
  ASSUME ProcInv, NEW p \in Pids,
         fork_child(p) \/ fork_parallel(p) \/ fork_pipe(p) \/ fork_program(p)
  PROVE  ProcInv'
<1> DEFINE c == Do(p).c
           s == Todo(p)
<1>0. \A k : At(p, k) => Tidy(s) /\ s # <<>> /\ Head(s).k = k
  BY Located DEF ProcInv
<1> HIDE DEF s
<1>1. CASE fork_child(p)
  <2> DEFINE f == <<Frame("wait", c, NewPid)>>
             t == <<Frame(IF c.op = "OP_PIPE" THEN "pipe" ELSE "fork2", c, 0)>>
  <2>1. At(p, "eval") /\ Fork(p, Then(p, f), t, FALSE)
    BY <1>1 DEF fork_child, Op
  <2>2. Follows(f \o Tail(s), s) /\ Awaits(f \o Tail(s), NewPid)
    BY <1>0, <2>1, Frames, FrameIs, ReplacedBy1
  <2>3. Tidy(t)
    <3>1. {t[1].k} \cap WaitFrames = {}
      BY Frames, FrameIs DEF WaitFrames
    <3> QED  BY <3>1, Begins
  <2> HIDE DEF f, t
  <2>4. "eval" \notin WaitFrames
    BY DEF WaitFrames
  <2> QED  BY <2>1, <2>2, <2>3, <2>4, ForksAt DEF s
<1>2. CASE fork_parallel(p)
  <2> DEFINE f == <<Eval(c.cmd2), Frame("wait2", c, NewPid)>>
             t == <<Eval(c.cmd1), Exit>>
  <2>1. At(p, "fork2") /\ Fork(p, Then(p, f), t, FALSE)
    BY <1>2 DEF fork_parallel
  <2>2. Follows(f \o Tail(s), s) /\ Awaits(f \o Tail(s), NewPid)
    <3>1. Head(s).k \in Closing
      BY <1>0, <2>1 DEF Closing
    <3> QED  BY <1>0, <2>1, <3>1, Frames, FrameIs, ReplacedBy2
  <2>3. Tidy(t)
    <3>1. {t[1].k, t[2].k} \cap WaitFrames = {}
      BY Frames, FrameIs DEF WaitFrames
    <3> QED  BY <3>1, Begins
  <2> HIDE DEF f, t
  <2>4. "fork2" \notin WaitFrames
    BY DEF WaitFrames
  <2> QED  BY <2>1, <2>2, <2>3, <2>4, ForksAt DEF s
<1>3. CASE fork_pipe(p)
  <2> DEFINE f == <<Frame("reader", c, Do(p).n), Eval(c.cmd2), Exit>>
             t == <<Frame("writer", c, Do(p).n), Eval(c.cmd1), Exit>>
  <2>1. At(p, "fork3") /\ Fork(p, Then(p, f), t, TRUE)
    BY <1>3 DEF fork_pipe
  <2>2. Follows(f \o Tail(s), s)
    <3>1. Head(s).k \in Closing
      BY <1>0, <2>1 DEF Closing
    <3> QED  BY <1>0, <2>1, <3>1, Frames, FrameIs, ReplacedBy3
  <2>3. Tidy(t)
    <3>1. {t[1].k, t[2].k, t[3].k} \cap WaitFrames = {}
      BY Frames, FrameIs DEF WaitFrames
    <3> QED  BY <3>1, Begins
  <2> HIDE DEF f, t
  <2>4. "fork3" \notin WaitFrames
    BY DEF WaitFrames
  <2> QED  BY <2>1, <2>2, <2>3, <2>4, ForksAt DEF s
<1>4. CASE fork_program(p)
  <2> DEFINE f == <<Frame("wait3", c, NewPid)>>
             t == <<Frame("open_in", c, 0), Frame("open_out", c, 0), Frame("open_err", c, 0),
                    Frame("program", c, 0)>>
  <2>1. At(p, "eval") /\ Fork(p, Then(p, f), t, FALSE)
    BY <1>4 DEF fork_program, Op
  <2>2. Follows(f \o Tail(s), s) /\ Awaits(f \o Tail(s), NewPid)
    BY <1>0, <2>1, Frames, FrameIs, ReplacedBy1
  <2>3. Tidy(t)
    <3>1. {t[1].k, t[2].k, t[3].k, t[4].k} \cap WaitFrames = {}
      BY Frames, FrameIs DEF WaitFrames
    <3> QED  BY <3>1, Begins
  <2> HIDE DEF f, t
  <2>4. "eval" \notin WaitFrames
    BY DEF WaitFrames
  <2> QED  BY <2>1, <2>2, <2>3, <2>4, ForksAt DEF s
<1> QED  BY <1>1, <1>2, <1>3, <1>4

LEMMA ProcWaits ==
  ASSUME ProcInv, NEW p \in Pids,
         wait_child(p) \/ wait_grandchild(p) \/ wait_program(p)
  PROVE  ProcInv'
<1> DEFINE z == Do(p).n
           s == Todo(p)
<1>1. ASSUME NEW k \in WaitFrames, Dead(p, k), NEW t, Follows(t, s), NEW r, Advanced(p, r, t),
             procs' = Reaped(p, z, r), UNCHANGED <<shell, faults>>
      PROVE  ProcInv'
  <2>1. Live(p) /\ s # <<>> /\ Head(s).k = k /\ Do(p) = Head(s) /\ procs[z].st = "zombie"
    BY <1>1, Located DEF Dead, ProcInv
  <2>2. Running(r)
    BY <1>1 DEF Running, Advanced, Follows
  <2>3. \A q : q # z /\ Awaits(s, q) => Awaits(r.todo, q)
    BY <1>1, <2>1 DEF Follows, Advanced
  <2> QED  BY <1>1, <2>1, <2>2, <2>3, Reaps DEF Advanced, Todo
<1>2. \A k : Dead(p, k) => At(p, k) /\ Tidy(s) /\ s # <<>> /\ Live(p) /\ DOMAIN procs[p] = RunFields /\ Head(s).k = k
  BY Located DEF Dead, ProcInv
<1> HIDE DEF s
<1>3. \A k : Dead(p, k) => Follows(Tail(s), s)
  BY <1>2, Replaced
<1>4. \A x : Live(p) /\ DOMAIN procs[p] = RunFields => Advanced(p, Returns(p, x), Tail(s))
  BY Recorded DEF s
<1>5. CASE wait_child(p)
  <2>1. "wait" \in WaitFrames /\ Dead(p, "wait") /\ UNCHANGED <<shell, faults>>
    BY <1>5 DEF wait_child, WaitFrames
  <2>2. procs' = Reaped(p, z, Returns(p, procs[z].status))
    BY <1>5 DEF wait_child
  <2> QED  BY <1>1, <1>2, <1>3, <1>4, <2>1, <2>2
<1>6. CASE wait_program(p)
  <2>1. "wait3" \in WaitFrames /\ Dead(p, "wait3") /\ UNCHANGED <<shell, faults>>
    BY <1>6 DEF wait_program, WaitFrames
  <2>2. procs' = Reaped(p, z, Returns(p, Result(procs[z].status)))
    BY <1>6 DEF wait_program
  <2> QED  BY <1>1, <1>2, <1>3, <1>4, <2>1, <2>2
<1>7. CASE wait_grandchild(p)
  <2> DEFINE r == [Then(p, <<Exit>>) EXCEPT !.res = OrStatus(@, procs[z].status)]
  <2>1. "wait2" \in WaitFrames /\ "wait2" \in Closing /\ Dead(p, "wait2") /\ UNCHANGED <<shell, faults>>
    BY <1>7 DEF wait_grandchild, WaitFrames, Closing
  <2>2. procs' = Reaped(p, z, r)
    BY <1>7 DEF wait_grandchild
  <2>3. Advanced(p, r, <<Exit>> \o Tail(s))
    BY <1>2, <2>1, Recorded DEF s
  <2>4. Follows(<<Exit>> \o Tail(s), s)
    BY <1>2, <2>1, Frames, ReplacedBy1
  <2> HIDE DEF r
  <2> QED  BY <1>1, <2>1, <2>2, <2>3, <2>4
<1> QED  BY <1>5, <1>6, <1>7

(* A process that ends at a place after which it waits for nobody.         *)
LEMMA LeavesAt ==
  ASSUME ProcInv, NEW p \in Pids, NEW k \in Closing \ WaitFrames, At(p, k),
         NEW status, Ends(p, status), faults' \in {faults, faults + 1}
  PROVE  ProcInv'
<1>1. Live(p) /\ Lacks(procs[p].todo, WaitFrames)
  BY Located DEF ProcInv, Todo
<1> QED  BY <1>1, Leaves

LEMMA ProcEnds ==
  ASSUME ProcInv, NEW p \in Pids,
         exit_result(p) \/ program_sigpipe(p) \/ program_ends(p)
  PROVE  ProcInv'
<1>1. "exit" \in Closing \ WaitFrames /\ "program" \in Closing \ WaitFrames
  BY DEF Closing, Preparing, WaitFrames
<1>2. CASE exit_result(p)
  BY <1>1, <1>2, LeavesAt DEF exit_result
<1>3. CASE program_sigpipe(p)
  BY <1>1, <1>3, LeavesAt DEF program_sigpipe
<1>4. CASE program_ends(p)
  BY <1>1, <1>4, LeavesAt DEF program_ends
<1> QED  BY <1>2, <1>3, <1>4

LEMMA ProcPipes ==
  ASSUME ProcInv, NEW p \in Pids,
         make_pipe(p) \/ connect_writer(p) \/ connect_reader(p)
  PROVE  ProcInv'
<1> DEFINE s == Todo(p)
<1>0. \A k : At(p, k) => Tidy(s) /\ s # <<>> /\ Live(p) /\ DOMAIN procs[p] = RunFields /\ Head(s).k = k
  BY Located DEF ProcInv
<1> HIDE DEF s
<1>1. \A k : At(p, k) => Follows(<<>> \o Tail(s), s)
  BY <1>0, Replaced
<1>2. CASE make_pipe(p)
  <2> DEFINE f == <<Frame("fork3", Do(p).c, Len(pipes) + 1)>>
             x == {<<"r", Len(pipes) + 1>>, <<"w", Len(pipes) + 1>>}
             r == [Then(p, f) EXCEPT !.hold = x]
  <2>1. "pipe" \in Closing \ WaitFrames /\ At(p, "pipe")
    BY <1>2 DEF make_pipe, Closing, WaitFrames
  <2>2. CASE Ends(p, ExitStatus(1)) /\ faults' = faults + 1
    BY <2>1, <2>2, LeavesAt
  <2>3. CASE procs' = [procs EXCEPT ![p] = r] /\ UNCHANGED <<shell, faults>>
    <3>1. Advanced(p, r, f \o Tail(s))
      BY <1>0, <2>1, Recorded DEF s
    <3>2. Follows(f \o Tail(s), s)
      <4>1. Head(s).k \in Closing
        BY <1>0, <2>1
      <4> QED  BY <1>0, <2>1, <4>1, Frames, FrameIs, ReplacedBy1
    <3> HIDE DEF r, f
    <3> QED  BY <2>1, <2>3, <3>1, <3>2, Advances DEF s
  <2> QED  BY <1>2, <2>2, <2>3 DEF make_pipe
<1>3. CASE connect_writer(p)
  <2> DEFINE r == [Then(p, <<>>) EXCEPT !.out = <<"w", Do(p).n>>, !.hold = Closed("w", @)]
  <2>1. "writer" \notin WaitFrames /\ At(p, "writer") /\ procs' = [procs EXCEPT ![p] = r] /\ UNCHANGED <<shell, faults>>
    BY <1>3 DEF connect_writer, WaitFrames
  <2>2. Advanced(p, r, <<>> \o Tail(s))
    BY <1>0, <2>1, StreamRecords DEF Closed, s
  <2> HIDE DEF r
  <2> QED  BY <1>1, <2>1, <2>2, Advances DEF s
<1>4. CASE connect_reader(p)
  <2> DEFINE r == [Then(p, <<>>) EXCEPT !.in = <<"r", Do(p).n>>, !.hold = Closed("r", @)]
  <2>1. "reader" \notin WaitFrames /\ At(p, "reader") /\ procs' = [procs EXCEPT ![p] = r] /\ UNCHANGED <<shell, faults>>
    BY <1>4 DEF connect_reader, WaitFrames
  <2>2. Advanced(p, r, <<>> \o Tail(s))
    BY <1>0, <2>1, StreamRecords DEF Closed, s
  <2> HIDE DEF r
  <2> QED  BY <1>1, <2>1, <2>2, Advances DEF s
<1> QED  BY <1>2, <1>3, <1>4

LEMMA ProcInternal ==
  ASSUME ProcInv, NEW p \in Pids, internal(p) PROVE ProcInv'
<1> DEFINE s == Todo(p)
<1>0. At(p, "eval") /\ "eval" \notin WaitFrames /\ UNCHANGED <<shell, faults>>
  BY DEF internal, Op, WaitFrames
<1>1. Follows(Tail(s), s) /\ Live(p) /\ DOMAIN procs[p] = RunFields
  BY <1>0, Located, Replaced DEF ProcInv
<1>2. ASSUME NEW r, Advanced(p, r, Tail(s)), procs' = [procs EXCEPT ![p] = r] PROVE ProcInv'
  BY <1>0, <1>1, <1>2, Advances
<1> HIDE DEF s
<1>3. \/ \E x, y : procs' = [procs EXCEPT ![p] = [Returns(p, x) EXCEPT !.cwd = y]]
      \/ \E x : procs' = [procs EXCEPT ![p] = Returns(p, x)]
      \/ \E y : procs' = [procs EXCEPT ![p] = [Returns(p, 0) EXCEPT !.env = Append(@, y)]]
  BY DEF internal
<1>4. ASSUME NEW x, NEW y, procs' = [procs EXCEPT ![p] = [Returns(p, x) EXCEPT !.cwd = y]]
      PROVE  ProcInv'
  BY <1>1, <1>2, <1>4, Recorded DEF s
<1>5. ASSUME NEW x, procs' = [procs EXCEPT ![p] = Returns(p, x)] PROVE ProcInv'
  BY <1>1, <1>2, <1>5, Recorded DEF s
<1>6. ASSUME NEW y, procs' = [procs EXCEPT ![p] = [Returns(p, 0) EXCEPT !.env = Append(@, y)]]
      PROVE  ProcInv'
  BY <1>1, <1>2, <1>6, Recorded DEF s
<1> QED  BY <1>3, <1>4, <1>5, <1>6

(* The redirections, and a program that reads or writes.                   *)
LEMMA ProcConnects ==
  ASSUME ProcInv, NEW p \in Pids, NEW k \in Preparing, At(p, k),
         NEW field \in {"in", "out", "err"}, NEW d, Connected(p, field, d),
         UNCHANGED <<shell, faults>>
  PROVE  ProcInv'
<1> DEFINE r == [Then(p, <<>>) EXCEPT ![field] = d]
<1>1. Tidy(Todo(p)) /\ Todo(p) # <<>> /\ Live(p) /\ DOMAIN procs[p] = RunFields /\ k \notin WaitFrames
  BY Located DEF ProcInv, Preparing, WaitFrames
<1>2. Advanced(p, r, <<>> \o Tail(Todo(p)))
  BY <1>1, StreamRecords
<1>3. Follows(<<>> \o Tail(Todo(p)), Todo(p))
  BY <1>1, Replaced
<1>4. procs' = [procs EXCEPT ![p] = r]
  BY DEF Connected
<1> HIDE DEF r
<1> QED  BY <1>1, <1>2, <1>3, <1>4, Advances

LEMMA ProcRedirects ==
  ASSUME ProcInv, NEW p \in Pids, redirect_in(p) \/ redirect_out(p) \/ redirect_err(p)
  PROVE  ProcInv'
<1>1. {"open_in", "open_out", "open_err"} \subseteq Preparing /\ Preparing \subseteq Closing \ WaitFrames
  BY DEF Preparing, Closing, WaitFrames
<1>2. ASSUME NEW k \in {"open_in", "open_out", "open_err"}, At(p, k), OpenFails(p),
             faults' \in {faults, faults + 1}
      PROVE  ProcInv'
  BY <1>1, <1>2, LeavesAt DEF OpenFails
<1>3. CASE redirect_in(p)
  <2>1. /\ At(p, "open_in")
        /\ \/ (\E d : Connected(p, "in", d)) /\ UNCHANGED <<shell, faults>>
           \/ OpenFails(p) /\ UNCHANGED faults
    BY <1>3 DEF redirect_in
  <2> QED  BY <1>1, <1>2, <2>1, ProcConnects
<1>4. CASE redirect_out(p)
  <2>1. /\ At(p, "open_out")
        /\ \/ (\E d : Connected(p, "out", d)) /\ UNCHANGED <<shell, faults>>
           \/ OpenFails(p) /\ faults' = faults + 1
    BY <1>4 DEF redirect_out
  <2> QED  BY <1>1, <1>2, <2>1, ProcConnects
<1>5. CASE redirect_err(p)
  <2>1. /\ At(p, "open_err")
        /\ \/ (\E d : Connected(p, "err", d)) /\ UNCHANGED <<shell, faults>>
           \/ OpenFails(p) /\ faults' = faults + 1
    BY <1>5 DEF redirect_err
  <2> QED  BY <1>1, <1>2, <2>1, ProcConnects
<1> QED  BY <1>3, <1>4, <1>5

LEMMA ProcPrograms ==
  ASSUME ProcInv, NEW p \in Pids, program_write(p) \/ cat_read(p)
  PROVE  ProcInv'
<1>1. /\ At(p, "program") /\ UNCHANGED <<shell, faults>>
      /\ \E n : procs' = [procs EXCEPT ![p] = Goes_on(p, n)]
  BY DEF program_write, cat_read
<1>2. PICK n : procs' = [procs EXCEPT ![p] = Goes_on(p, n)]
  BY <1>1
<1> DEFINE t == <<Frame("program", Do(p).c, n)>>
<1>3. "program" \notin WaitFrames /\ "program" \in Closing \ WaitFrames
  BY DEF Closing, Preparing, WaitFrames
<1>4. Live(p) /\ DOMAIN procs[p] = RunFields /\ Lacks(Todo(p), WaitFrames)
  BY <1>1, <1>3, Located DEF ProcInv
<1>5. Advanced(p, Goes_on(p, n), t)
  BY <1>4, StreamRecords
<1>6. Tidy(t)
  <2>1. Frame("program", Do(p).c, n).k \notin WaitFrames
    BY <1>3, FrameIs
  <2> QED  BY <2>1, Begins
<1>7. Follows(t, Todo(p))
  BY <1>4, <1>6 DEF Follows, Lacks, Awaits
<1> HIDE DEF t
<1> QED  BY <1>1, <1>2, <1>3, <1>5, <1>7, Advances

(* main.                                                                   *)
LEMMA ProcStays ==
  ASSUME ProcInv, UNCHANGED <<procs, faults>>,
         shell' \in {shell, "exited"} \/ (shell' = "prompt" /\ shell # "exited" /\ procs[1].todo = <<>>)
  PROVE  ProcInv'
<1>1. Shape'
  BY DEF ProcInv, Shape
<1>2. ShellThere'
  BY DEF ProcInv, ShellThere, Live
<1>3. Awaited'
  BY DEF ProcInv, Awaited, Counted, Awaiting, Live, Deeper
<1> QED  BY <1>1, <1>2, <1>3 DEF ProcInv

LEMMA ProcReads ==
  ASSUME ProcInv, read_line PROVE ProcInv'
<1>1. CASE parsed'.result # "tree"
  BY <1>1, ProcStays DEF read_line
<1>2. CASE parsed'.result = "tree"
  <2> DEFINE t == <<Eval(parsed'.tree)>>
             r == [procs[1] EXCEPT !.todo = t]
  <2>1. procs' = [procs EXCEPT ![1] = r] /\ shell' = "busy" /\ shell = "prompt" /\ faults' = faults
    BY <1>2 DEF read_line
  <2>2. 1 \in Pids /\ DOMAIN procs = Pids /\ faults \in Nat /\ \A q \in Pids : Proper(procs[q])
    BY ShellAssumption DEF ProcInv, Shape, Pids
  <2>3. Live(1) /\ procs[1].parent = 0 /\ procs[1].todo = <<>>
    BY <2>1 DEF ProcInv, ShellThere
  <2>4. DOMAIN procs[1] = RunFields /\ procs[1].left \in BOOLEAN
    BY <2>2, <2>3 DEF Proper, Running, Live
  <2>5. /\ r.st = "run" /\ r.todo = t /\ DOMAIN r = RunFields /\ r.parent = procs[1].parent
        /\ r.left = procs[1].left
    BY <2>3, <2>4 DEF RunFields, Live
  <2>6. Tidy(t)
    BY Frames, Begins DEF WaitFrames
  <2>7. DOMAIN procs' = Pids /\ procs'[1] = r /\ \A q \in Pids : q # 1 => procs'[q] = procs[q]
    BY <2>1, <2>2
  <2> HIDE DEF r, t
  <2>8. Shape'
    BY <2>1, <2>2, <2>4, <2>5, <2>6, <2>7 DEF Shape, Proper, Running
  <2>9. ShellThere'
    BY <2>1, <2>3, <2>5, <2>7 DEF ShellThere, Live
  <2>10. Awaited'
    <3>1. \A q : ~Awaiting(1, q)
      BY <2>3, EmptyTidy DEF Awaiting
    <3>2. \A q \in Pids \ {1} : (Counted(q)' <=> Counted(q)) /\ procs'[q] = procs[q]
      BY <2>7 DEF Counted
    <3>3. \A s, q : Awaiting(s, q) => Awaiting(s, q)'
      <4> SUFFICES ASSUME NEW s, NEW q, Awaiting(s, q) PROVE Awaiting(s, q)'
        OBVIOUS
      <4>1. s # 1
        BY <3>1
      <4> QED  BY <2>7, <4>1 DEF Awaiting, Live
    <3>4. \A d : Deeper(d) => Deeper(d)'
      BY <3>2 DEF Deeper
    <3>5. \A q \in Pids \ {1} : procs'[q].parent = procs[q].parent
      BY <3>2
    <3> QED  BY <2>1, <3>2, <3>3, <3>4, <3>5 DEF ProcInv, Awaited
  <2> QED  BY <2>8, <2>9, <2>10 DEF ProcInv
<1> QED  BY <1>1, <1>2

LEMMA ProcInit ==
  ASSUME ShellInit PROVE ProcInv
<1>1. 1 \in Pids /\ DOMAIN procs = Pids /\ procs[1] = Idle /\ \A p \in Pids : p # 1 => procs[p] = Free
  BY ShellAssumption DEF ShellInit, Pids
<1>2. Shape
  <2>1. Proper(Free)
    BY DEF Proper, Free
  <2>2. Proper(Idle)
    BY EmptyTidy DEF Proper, Idle, Running, RunFields
  <2> QED  BY <1>1, <2>1, <2>2 DEF Shape, ShellInit
<1>3. ShellThere
  BY <1>1 DEF ShellThere, ShellInit, Live, Idle
<1>4. \A q \in Pids \ {1} : ~Counted(q)
  BY <1>1 DEF Counted, Free
<1>5. [q \in Pids |-> 0] \in [Pids -> Nat] /\ Deeper([q \in Pids |-> 0])
  BY <1>4 DEF Deeper
<1> QED  BY <1>2, <1>3, <1>4, <1>5 DEF ProcInv, Awaited

LEMMA ProcStep ==
  ASSUME ProcInv, [ShellNext]_shellVars PROVE ProcInv'
<1>1. CASE UNCHANGED shellVars
  BY <1>1, ProcStays DEF shellVars
<1>2. CASE read_line
  BY <1>2, ProcReads
<1>3. CASE leave
  BY <1>3, ProcStays DEF leave
<1>4. CASE prompt
  BY <1>4, ProcStays DEF prompt
<1>5. ASSUME NEW p \in Pids, Step(p) PROVE ProcInv'
  BY <1>5, ProcOperands, ProcForks, ProcWaits, ProcEnds, ProcPipes, ProcInternal,
     ProcRedirects, ProcPrograms DEF Step
<1> QED  BY <1>1, <1>2, <1>3, <1>4, <1>5 DEF ShellNext

(* Among the processes that are counted one is nearest to the shell.  Its  *)
(* parent waits for it, so the parent is not the shell, which has nothing  *)
(* to do at the prompt, and would be nearer still.                         *)
LEMMA NothingLeft ==
  ASSUME ProcInv PROVE NothingLeftRunning
<1> SUFFICES ASSUME shell = "prompt", faults = 0, NEW q \in Pids \ {1}, procs[q].st # "free",
                    procs[q].left # TRUE
             PROVE  FALSE
  BY DEF NothingLeftRunning
<1>1. Counted(q)
  BY DEF ProcInv, Shape, Proper, Counted
<1>2. PICK d \in [Pids -> Nat] : Deeper(d)
  BY DEF ProcInv, Awaited
<1> DEFINE T == {d[x] : x \in {y \in Pids \ {1} : Counted(y)}}
<1>3. T \in SUBSET Nat /\ T # {}
  BY <1>1
<1>31. PICK m \in T : \A y \in T : m <= y
  <2> HIDE DEF T
  <2> QED  BY <1>3, LeastNumber
<1>4. PICK x \in Pids \ {1} : Counted(x) /\ \A y \in Pids \ {1} : Counted(y) => d[x] <= d[y]
  BY <1>31
<1>5. Awaiting(procs[x].parent, x)
  BY <1>4 DEF ProcInv, Awaited
<1>6. procs[x].parent # 1
  BY <1>5, EmptyTidy DEF ProcInv, ShellThere, Awaiting
<1>7. procs[x].parent \in Pids \ {1} /\ Counted(procs[x].parent)
  BY <1>5, <1>6 DEF Awaiting, Counted, Live
<1>8. d[procs[x].parent] < d[x]
  BY <1>2, <1>4 DEF Deeper
<1> QED  BY <1>2, <1>4, <1>7, <1>8

(* When display_command of the shell returns to the prompt, every process  *)
(* that was forked for the line has ended and has been waited for, but for *)
(* the writers of pipes, as long as no system call fails: each fork leaves *)
(* a waitpid frame in its parent, which no step takes away before the      *)
(* child has ended.                                                        *)
THEOREM NobodyForgotten == ShellSpec => []NothingLeftRunning
<1>1. ShellInit => ProcInv
  BY ProcInit
<1>2. ProcInv /\ [ShellNext]_shellVars => ProcInv'
  BY ProcStep
<1>3. ProcInv => NothingLeftRunning
  BY NothingLeft
<1> QED  BY <1>1, <1>2, <1>3, PTL DEF ShellSpec
(* A process whose streams are as they were, or less.                      *)
Keeps(q) ==
  /\ Stage(procs'[q], open)
  /\ NotFile(procs'[q].in) \/ (Live(q) /\ procs'[q].in = procs[q].in)
  /\ NotFile(procs'[q].out) \/ (Live(q) /\ procs'[q].out = procs[q].out)
  /\ NotFile(procs'[q].err) \/ (Live(q) /\ procs'[q].err \in {procs[q].out, procs[q].err})

LEMMA NotFiles == \A i : ~NotFile(<<"file", i>>) /\ <<"file", i>>[2] = i
BY DEF NotFile

LEMMA FilesStay ==
  ASSUME FileInv, UNCHANGED <<open, files, written, clash>>,
         \A q \in Pids : Live(q)' => Keeps(q)
  PROVE  FileInv'
<1>1. ASSUME NEW i PROVE (Reading(i)' => Reading(i)) /\ (Writing(i)' => Writing(i))
  <2>1. ~NotFile(<<"file", i>>)
    BY NotFiles
  <2>2. ASSUME NEW q \in Pids, Live(q)', procs'[q].in = <<"file", i>> PROVE Reading(i)
    BY <2>1, <2>2 DEF Reading, Keeps
  <2>3. ASSUME NEW q \in Pids, Live(q)', <<"file", i>> \in {procs'[q].out, procs'[q].err} PROVE Writing(i)
    BY <2>1, <2>3 DEF Writing, Keeps
  <2> QED  BY <2>2, <2>3 DEF Reading, Writing
<1>2. Stages'
  BY DEF FileInv, Stages, Keeps, FileOf
<1>3. OpenShape' /\ InFile'
  BY DEF FileInv, OpenShape, InFile
<1>4. Alone'
  BY <1>1 DEF FileInv, Alone, Sole
<1>5. AtEnd'
  BY <1>1 DEF FileInv, AtEnd, Sole
<1> QED  BY <1>2, <1>3, <1>4, <1>5 DEF FileInv

(* The same process, or one of the same streams and place.                 *)
Unmoved(r, s) ==
  r.todo = s.todo /\ r.in = s.in /\ r.out = s.out /\ r.err = s.err /\ r.env = s.env

LEMMA UnmovedKeeps ==
  ASSUME FileInv, NEW q \in Pids, Live(q), Unmoved(procs'[q], procs[q])
  PROVE  Keeps(q)
<1>1. Stage(procs[q], open)
  BY DEF FileInv, Stages
<1>2. Stage(procs'[q], open)
  BY <1>1 DEF Stage, Clear, Unmoved
<1> QED  BY <1>2 DEF Keeps, Unmoved

(* One process goes on.                                                    *)
LEMMA FilesMove ==
  ASSUME ProcInv, FileInv, UNCHANGED <<open, files, written, clash>>, NEW p \in Pids,
         NEW r, procs' = [procs EXCEPT ![p] = r], Keeps(p)
  PROVE  FileInv'
<1>1. \A q \in Pids : q # p => procs'[q] = procs[q]
  BY DEF ProcInv, Shape
<1>2. \A q \in Pids : q # p /\ Live(q)' => Keeps(q)
  BY <1>1, UnmovedKeeps DEF Live, Unmoved
<1> QED  BY <1>2, FilesStay

(* A process ends.                                                         *)
LEMMA FilesLeft ==
  ASSUME ProcInv, FileInv, UNCHANGED <<open, files, written, clash>>, NEW p \in Pids,
         NEW status, Ends(p, status)
  PROVE  FileInv'
<1>1. \A q \in Pids : Proper(procs[q])
  BY DEF ProcInv, Shape
<1> SUFFICES ASSUME NEW q \in Pids, Live(q)' PROVE Keeps(q)
  BY FilesStay
<1>2. q # p
  BY DEF Ends, Ended, Live, Free
<1>3. CASE procs[q].st # "free" /\ procs[q].parent = p
  <2>1. procs[q].st # "zombie" /\ procs'[q] = [procs[q] EXCEPT !.parent = 0]
    BY <1>2, <1>3 DEF Ends, Ended, Live, Free
  <2>2. Live(q) /\ DOMAIN procs[q] = RunFields
    BY <1>1, <1>3, <2>1 DEF Proper, Running, Live
  <2>3. Unmoved(procs'[q], procs[q])
    BY <2>1, <2>2 DEF Unmoved, RunFields
  <2> QED  BY <2>2, <2>3, UnmovedKeeps
<1>4. CASE ~(procs[q].st # "free" /\ procs[q].parent = p)
  <2>1. procs'[q] = procs[q]
    BY <1>2, <1>4 DEF Ends, Ended
  <2> QED  BY <2>1, UnmovedKeeps DEF Live, Unmoved
<1> QED  BY <1>3, <1>4
-----------------------------------------------------------------------------
(* Where a process is tells which streams can be files.                    *)
LEMMA AtClear ==
  ASSUME ProcInv, FileInv, NEW p \in Pids, NEW k, At(p, k), k \notin Preparing
  PROVE  Clear(procs[p])
<1>1. Live(p) /\ Todo(p) # <<>> /\ Head(Todo(p)).k = k
  BY Located DEF ProcInv
<1>2. Stage(procs[p], open)
  BY <1>1 DEF FileInv, Stages
<1>3. Preparing = {"open_in", "open_out", "open_err", "program"}
  BY DEF Preparing
<1>4. \A c : /\ Head(OpensAll(c)).k = "open_in" /\ Head(OpensOutputs(c)).k = "open_out"
             /\ Head(OpensError(c)).k = "open_err"
             /\ \A n : Head(<<Frame("program", c, n)>>).k = "program"
  BY FrameIs DEF OpensAll, OpensOutputs, OpensError
<1> QED  BY <1>1, <1>2, <1>3, <1>4 DEF Stage, Todo

LEMMA AtPreparing ==
  ASSUME ProcInv, FileInv, NEW p \in Pids, NEW k \in Preparing, At(p, k)
  PROVE  LET r == procs[p]
             c == Do(p).c
         IN  /\ Live(p) /\ Todo(p) # <<>> /\ DOMAIN r = RunFields
             /\ k = "open_in" => /\ Tail(Todo(p)) = OpensOutputs(c)
                                 /\ NotFile(r.in) /\ NotFile(r.out) /\ NotFile(r.err)
             /\ k = "open_out" => Tail(Todo(p)) = OpensError(c) /\ NotFile(r.out) /\ NotFile(r.err)
             /\ k = "open_err" => /\ Tail(Todo(p)) = <<Frame("program", c, 0)>> /\ NotFile(r.err)
                                  /\ NotFile(r.out) \/ open[r.out[2]].file = flatten(r.env, c.scmd.out)
<1>1. /\ Live(p) /\ Todo(p) # <<>> /\ Head(Todo(p)).k = k /\ Tidy(Todo(p)) /\ Do(p) = Head(Todo(p))
      /\ DOMAIN procs[p] = RunFields
  BY Located DEF ProcInv
<1>2. Stage(procs[p], open)
  BY <1>1 DEF FileInv, Stages
<1>3. ~Clear(procs[p])
  BY <1>1, TailTidy DEF Clear, Todo
<1>4. \A c : /\ Head(OpensAll(c)).k = "open_in" /\ Head(OpensOutputs(c)).k = "open_out"
             /\ Head(OpensError(c)).k = "open_err"
             /\ \A n : Head(<<Frame("program", c, n)>>).k = "program"
  BY FrameIs DEF OpensAll, OpensOutputs, OpensError
<1>5. \A c : /\ Tail(OpensAll(c)) = OpensOutputs(c) /\ Tail(OpensOutputs(c)) = OpensError(c)
             /\ Tail(OpensError(c)) = <<Frame("program", c, 0)>>
  <2> HIDE DEF Frame
  <2> QED  BY DEF OpensAll, OpensOutputs, OpensError
<1> DEFINE r == procs[p]
           c == Do(p).c
<1>6. \/ r.todo = OpensAll(c) /\ NotFile(r.in) /\ NotFile(r.out) /\ NotFile(r.err)
      \/ r.todo = OpensOutputs(c) /\ NotFile(r.out) /\ NotFile(r.err)
      \/ /\ r.todo = OpensError(c) /\ NotFile(r.err)
         /\ NotFile(r.out) \/ open[r.out[2]].file = flatten(r.env, c.scmd.out)
      \/ r.todo = <<Frame("program", c, Head(r.todo).n)>>
  BY <1>1, <1>2, <1>3 DEF Stage, Todo
<1> HIDE DEF r, c
<1>7. Head(r.todo).k = k /\ Tail(Todo(p)) = Tail(r.todo)
  BY <1>1 DEF Todo, r
<1>8. k = "open_in" => /\ Tail(Todo(p)) = OpensOutputs(c)
                       /\ NotFile(r.in) /\ NotFile(r.out) /\ NotFile(r.err)
  BY <1>4, <1>5, <1>6, <1>7
<1>9. k = "open_out" => Tail(Todo(p)) = OpensError(c) /\ NotFile(r.out) /\ NotFile(r.err)
  BY <1>4, <1>5, <1>6, <1>7
<1>10. k = "open_err" => /\ Tail(Todo(p)) = <<Frame("program", c, 0)>> /\ NotFile(r.err)
                         /\ NotFile(r.out) \/ open[r.out[2]].file = flatten(r.env, c.scmd.out)
  BY <1>4, <1>5, <1>6, <1>7
<1> QED  BY <1>1, <1>8, <1>9, <1>10 DEF r, c

(* A process that goes on and has no files.                                *)
LEMMA ClearMoves ==
  ASSUME ProcInv, FileInv, NEW p \in Pids, NEW k, At(p, k), k \notin Preparing,
         NEW t, Lacks(Todo(p), Preparing) => Lacks(t, Preparing),
         NEW r, Advanced(p, r, t),
         NotFile(r.in) \/ r.in = procs[p].in, NotFile(r.out) \/ r.out = procs[p].out,
         NotFile(r.err) \/ r.err = procs[p].err,
         procs' = [procs EXCEPT ![p] = r], UNCHANGED <<open, files, written, clash>>
  PROVE  FileInv'
<1>1. Clear(procs[p]) /\ Live(p)
  BY AtClear DEF At
<1>2. Clear(r)
  BY <1>1 DEF Clear, Advanced, Todo
<1>3. procs'[p] = r
  BY DEF ProcInv, Shape
<1>4. Keeps(p)
  BY <1>1, <1>2, <1>3 DEF Keeps, Stage
<1> QED  BY <1>4, FilesMove

(* One that forks: the child has the same streams.                         *)
LEMMA ClearForks ==
  ASSUME ProcInv, FileInv, NEW p \in Pids, NEW k, At(p, k), k \notin Preparing,
         NEW f, Lacks(Todo(p), Preparing) => Lacks(f \o Tail(Todo(p)), Preparing),
         NEW todo, Lacks(todo, Preparing) \/ \E c : todo = OpensAll(c), NEW left,
         Fork(p, Then(p, f), todo, left), UNCHANGED <<open, files, written, clash>>
  PROVE  FileInv'
<1>1. Clear(procs[p]) /\ Live(p) /\ DOMAIN procs[p] = RunFields
  BY AtClear, Located DEF ProcInv
<1>2. CASE Ends(p, ExitStatus(-1))
  BY <1>2, FilesLeft
<1>3. ASSUME FreePids # {},
             procs' = [procs EXCEPT ![p] = Then(p, f),
                                    ![NewPid] = [procs[p] EXCEPT !.todo = todo, !.parent = p,
                                                                 !.left = @ \/ left]]
      PROVE  FileInv'
  <2>0. PICK n : n = NewPid
    OBVIOUS
  <2> DEFINE c == [procs[p] EXCEPT !.todo = todo, !.parent = p, !.left = @ \/ left]
             r == Then(p, f)
  <2>1. n # p /\ n \in Pids /\ ~Live(n)
    <3>1. n \in FreePids
      BY <1>3, <2>0 DEF NewPid
    <3> QED  BY <1>1, <3>1 DEF FreePids, Live
  <2>2. c.todo = todo /\ c.in = procs[p].in /\ c.out = procs[p].out /\ c.err = procs[p].err
    BY <1>1 DEF RunFields
  <2>3. Advanced(p, r, f \o Tail(Todo(p))) /\ Streams(p, r)
    BY <1>1, Recorded
  <2> HIDE DEF c, r
  <2>4. procs'[p] = r /\ procs'[n] = c /\ \A q \in Pids : q \notin {p, n} => procs'[q] = procs[q]
    <3>1. procs' = [procs EXCEPT ![p] = r, ![n] = c] /\ DOMAIN procs = Pids
      BY <1>3, <2>0 DEF c, r, ProcInv, Shape
    <3> QED  BY <2>1, <3>1
  <2>5. Clear(r)
    BY <1>1, <2>3 DEF Clear, Advanced, Streams, Todo
  <2>6. Keeps(p)
    BY <1>1, <2>3, <2>4, <2>5 DEF Keeps, Stage, Streams
  <2>7. Stage(c, open)
    <3>1. CASE Lacks(todo, Preparing)
      BY <1>1, <2>2, <3>1 DEF Stage, Clear
    <3>2. ASSUME NEW b, todo = OpensAll(b) PROVE Stage(c, open)
      <4>1. Head(todo).c = b /\ todo # <<>>
        BY <3>2, FrameIs DEF OpensAll
      <4> QED  BY <1>1, <2>2, <3>2, <4>1 DEF Stage, Clear
    <3> QED  BY <3>1, <3>2
  <2>8. Keeps(n)
    BY <1>1, <2>2, <2>4, <2>7 DEF Keeps, Clear
  <2>9. \A q \in Pids : q \notin {p, n} /\ Live(q)' => Keeps(q)
    BY <2>4, UnmovedKeeps DEF Live, Unmoved
  <2> QED  BY <2>6, <2>8, <2>9, FilesStay
<1> QED  BY <1>2, <1>3 DEF Fork

(* One that waits.                                                         *)
LEMMA ClearReaps ==
  ASSUME ProcInv, FileInv, NEW p \in Pids, NEW k, Dead(p, k), k \notin Preparing,
         NEW t, Lacks(Todo(p), Preparing) => Lacks(t, Preparing),
         NEW r, Advanced(p, r, t), Streams(p, r),
         NEW z, procs' = Reaped(p, z, r), UNCHANGED <<open, files, written, clash>>, procs[z].st = "zombie"
  PROVE  FileInv'
<1>1. Clear(procs[p]) /\ Live(p)
  BY AtClear DEF Dead, At
<1>2. Clear(r)
  BY <1>1 DEF Clear, Advanced, Streams, Todo
<1>3. DOMAIN procs = Pids /\ z # p
  BY <1>1 DEF ProcInv, Shape, Live
<1>4. procs'[p] = r /\ (z \in Pids => procs'[z] = Free) /\ \A q \in Pids : q \notin {p, z} => procs'[q] = procs[q]
  BY <1>3 DEF Reaped
<1>5. Keeps(p)
  BY <1>1, <1>2, <1>4 DEF Keeps, Stage, Streams
<1>6. \A q \in Pids : q \notin {p, z} /\ Live(q)' => Keeps(q)
  BY <1>4, UnmovedKeeps DEF Live, Unmoved
<1>7. z \in Pids => ~Live(z)'
  BY <1>4 DEF Live, Free
<1> QED  BY <1>5, <1>6, <1>7, FilesStay
-----------------------------------------------------------------------------
(* FileInv is kept by the steps of processes without files.                *)
LEMMA FilesOperands ==
  ASSUME ProcInv, FileInv, NEW p \in Pids, first_operand(p) \/ second_operand(p)
  PROVE  FileInv'
<1> DEFINE s == Todo(p)
           c == Do(p).c
<1>0. \A k : At(p, k) => Tidy(s) /\ s # <<>> /\ Live(p) /\ DOMAIN procs[p] = RunFields
  BY Located DEF ProcInv
<1>1. ASSUME NEW k, At(p, k), k \notin Preparing, NEW f,
             Lacks(s, Preparing) => Lacks(f \o Tail(s), Preparing),
             procs' = [procs EXCEPT ![p] = Then(p, f)], UNCHANGED Storage
      PROVE  FileInv'
  <2>1. Advanced(p, Then(p, f), f \o Tail(s)) /\ Streams(p, Then(p, f))
    BY <1>0, <1>1, Recorded
  <2>2. UNCHANGED <<open, files, written, clash>>
    BY <1>1 DEF Storage
  <2> QED  BY <1>1, <2>1, <2>2, ClearMoves DEF Streams
<1> HIDE DEF s
<1>2. CASE first_operand(p)
  <2> DEFINE f == <<Eval(c.cmd1), Frame("decide", c, 0)>>
  <2>1. At(p, "eval") /\ procs' = [procs EXCEPT ![p] = Then(p, f)] /\ UNCHANGED Storage
    BY <1>2 DEF first_operand, Op, Storage
  <2>2. Lacks(s, Preparing) => Lacks(f \o Tail(s), Preparing)
    BY <1>0, <2>1, Frames, FrameIs, ReplacedBy2
  <2>3. "eval" \notin Preparing
    BY DEF Preparing
  <2> HIDE DEF f
  <2> QED  BY <1>1, <2>1, <2>2, <2>3
<1>3. CASE second_operand(p)
  <2> DEFINE f == IF Goes(c.op, procs[p].res) THEN <<Eval(c.cmd2)>> ELSE <<>>
  <2>1. At(p, "decide") /\ procs' = [procs EXCEPT ![p] = Then(p, f)] /\ UNCHANGED Storage
    BY <1>3 DEF second_operand, Storage
  <2>2. Lacks(s, Preparing) => Lacks(f \o Tail(s), Preparing)
    <3>1. Lacks(s, Preparing) => Lacks(<<Eval(c.cmd2)>> \o Tail(s), Preparing)
      BY <1>0, <2>1, Frames, ReplacedBy1
    <3>2. Lacks(s, Preparing) => Lacks(<<>> \o Tail(s), Preparing)
      BY <1>0, <2>1, Replaced
    <3> QED  BY <3>1, <3>2
  <2>3. "decide" \notin Preparing
    BY DEF Preparing
  <2> HIDE DEF f
  <2> QED  BY <1>1, <2>1, <2>2, <2>3
<1> QED  BY <1>2, <1>3

LEMMA FilesForks ==
  ASSUME ProcInv, FileInv, NEW p \in Pids,
         fork_child(p) \/ fork_parallel(p) \/ fork_pipe(p) \/ fork_program(p)
  PROVE  FileInv'
<1> DEFINE c == Do(p).c
           s == Todo(p)
<1>0. \A k : At(p, k) => Tidy(s) /\ s # <<>> /\ Head(s).k = k
  BY Located DEF ProcInv
<1> HIDE DEF s
<1>5. UNCHANGED <<open, files, written, clash>>
  BY DEF Storage, fork_child, fork_parallel, fork_pipe, fork_program
<1>6. {"fork2", "fork3"} \subseteq Closing /\ {"eval", "fork2", "fork3"} \cap Preparing = {}
  BY DEF Closing, Preparing
<1>1. CASE fork_child(p)
  <2> DEFINE f == <<Frame("wait", c, NewPid)>>
             t == <<Frame(IF c.op = "OP_PIPE" THEN "pipe" ELSE "fork2", c, 0)>>
  <2>1. At(p, "eval") /\ Fork(p, Then(p, f), t, FALSE)
    BY <1>1 DEF fork_child, Op
  <2>2. Lacks(s, Preparing) => Lacks(f \o Tail(s), Preparing)
    BY <1>0, <2>1, Frames, FrameIs, ReplacedBy1
  <2>3. Lacks(t, Preparing)
    <3>1. t[1].k \notin Preparing
      BY FrameIs DEF Preparing
    <3> QED  BY <3>1, Begins
  <2> HIDE DEF f, t
  <2> QED  BY <1>5, <1>6, <2>1, <2>2, <2>3, ClearForks DEF s
<1>2. CASE fork_parallel(p)
  <2> DEFINE f == <<Eval(c.cmd2), Frame("wait2", c, NewPid)>>
             t == <<Eval(c.cmd1), Exit>>
  <2>1. At(p, "fork2") /\ Fork(p, Then(p, f), t, FALSE)
    BY <1>2 DEF fork_parallel
  <2>2. Lacks(s, Preparing) => Lacks(f \o Tail(s), Preparing)
    BY <1>0, <1>6, <2>1, Frames, FrameIs, ReplacedBy2
  <2>3. Lacks(t, Preparing)
    <3>1. {t[1].k, t[2].k} \cap Preparing = {}
      BY Frames, FrameIs DEF Preparing
    <3> QED  BY <3>1, Begins
  <2> HIDE DEF f, t
  <2> QED  BY <1>5, <1>6, <2>1, <2>2, <2>3, ClearForks DEF s
<1>3. CASE fork_pipe(p)
  <2> DEFINE f == <<Frame("reader", c, Do(p).n), Eval(c.cmd2), Exit>>
             t == <<Frame("writer", c, Do(p).n), Eval(c.cmd1), Exit>>
  <2>1. At(p, "fork3") /\ Fork(p, Then(p, f), t, TRUE)
    BY <1>3 DEF fork_pipe
  <2>2. Lacks(s, Preparing) => Lacks(f \o Tail(s), Preparing)
    BY <1>0, <1>6, <2>1, Frames, FrameIs, ReplacedBy3
  <2>3. Lacks(t, Preparing)
    <3>1. {t[1].k, t[2].k, t[3].k} \cap Preparing = {}
      BY Frames, FrameIs DEF Preparing
    <3> QED  BY <3>1, Begins
  <2> HIDE DEF f, t
  <2> QED  BY <1>5, <1>6, <2>1, <2>2, <2>3, ClearForks DEF s
<1>4. CASE fork_program(p)
  <2> DEFINE f == <<Frame("wait3", c, NewPid)>>
  <2>1. At(p, "eval") /\ Fork(p, Then(p, f), OpensAll(c), FALSE)
    BY <1>4 DEF fork_program, Op, OpensAll
  <2>2. Lacks(s, Preparing) => Lacks(f \o Tail(s), Preparing)
    BY <1>0, <2>1, Frames, FrameIs, ReplacedBy1
  <2> HIDE DEF f
  <2> QED  BY <1>5, <1>6, <2>1, <2>2, ClearForks DEF s
<1> QED  BY <1>1, <1>2, <1>3, <1>4

LEMMA FilesWaits ==
  ASSUME ProcInv, FileInv, NEW p \in Pids, wait_child(p) \/ wait_grandchild(p) \/ wait_program(p)
  PROVE  FileInv'
<1> DEFINE z == Do(p).n
           s == Todo(p)
<1>0. UNCHANGED <<open, files, written, clash>> /\ WaitFrames \cap Preparing = {}
  BY DEF Storage, wait_child, wait_grandchild, wait_program, WaitFrames, Preparing
<1>1. \A k : Dead(p, k) => /\ At(p, k) /\ Tidy(s) /\ s # <<>> /\ Live(p) /\ DOMAIN procs[p] = RunFields
                           /\ Head(s).k = k /\ procs[z].st = "zombie"
  BY Located DEF Dead, ProcInv
<1> HIDE DEF s
<1>2. \A k : Dead(p, k) /\ Lacks(s, Preparing) => Lacks(Tail(s), Preparing)
  BY <1>1, Replaced
<1>3. ASSUME NEW k \in WaitFrames, Dead(p, k), NEW x, procs' = Reaped(p, z, Returns(p, x))
      PROVE  FileInv'
  <2>1. Advanced(p, Returns(p, x), Tail(s)) /\ Streams(p, Returns(p, x))
    BY <1>1, <1>3, Recorded DEF s
  <2> QED  BY <1>0, <1>1, <1>2, <1>3, <2>1, ClearReaps DEF s
<1>4. CASE wait_child(p)
  <2>1. "wait" \in WaitFrames /\ Dead(p, "wait") /\ procs' = Reaped(p, z, Returns(p, procs[z].status))
    BY <1>4 DEF wait_child, WaitFrames
  <2> QED  BY <1>3, <2>1
<1>5. CASE wait_program(p)
  <2>1. "wait3" \in WaitFrames /\ Dead(p, "wait3") /\ procs' = Reaped(p, z, Returns(p, Result(procs[z].status)))
    BY <1>5 DEF wait_program, WaitFrames
  <2> QED  BY <1>3, <2>1
<1>6. CASE wait_grandchild(p)
  <2> DEFINE r == [Then(p, <<Exit>>) EXCEPT !.res = OrStatus(@, procs[z].status)]
  <2>1. "wait2" \in WaitFrames /\ "wait2" \in Closing /\ Dead(p, "wait2") /\ procs' = Reaped(p, z, r)
    BY <1>6 DEF wait_grandchild, WaitFrames, Closing
  <2>2. Advanced(p, r, <<Exit>> \o Tail(s)) /\ Streams(p, r)
    BY <1>1, <2>1, Recorded DEF s
  <2>3. Lacks(s, Preparing) => Lacks(<<Exit>> \o Tail(s), Preparing)
    BY <1>1, <2>1, Frames, ReplacedBy1
  <2> HIDE DEF r
  <2> QED  BY <1>0, <1>1, <2>1, <2>2, <2>3, ClearReaps DEF s
<1> QED  BY <1>4, <1>5, <1>6

LEMMA FilesEnds ==
  ASSUME ProcInv, FileInv, NEW p \in Pids, exit_result(p) \/ program_sigpipe(p) \/ program_ends(p)
  PROVE  FileInv'
<1>1. UNCHANGED <<open, files, written, clash>> /\ \E status : Ends(p, status)
  BY DEF exit_result, program_sigpipe, program_ends, Storage
<1> QED  BY <1>1, FilesLeft

LEMMA FilesPipes ==
  ASSUME ProcInv, FileInv, NEW p \in Pids, make_pipe(p) \/ connect_writer(p) \/ connect_reader(p)
  PROVE  FileInv'
<1> DEFINE s == Todo(p)
<1>0. \A k : At(p, k) => Tidy(s) /\ s # <<>> /\ Live(p) /\ DOMAIN procs[p] = RunFields /\ Head(s).k = k
  BY Located DEF ProcInv
<1> HIDE DEF s
<1>1. /\ \A k : At(p, k) /\ Lacks(s, Preparing) => Lacks(<<>> \o Tail(s), Preparing)
      /\ \A n : NotFile(<<"w", n>>) /\ NotFile(<<"r", n>>)
      /\ {"pipe", "writer", "reader"} \cap Preparing = {} /\ "pipe" \in Closing
  BY <1>0, Replaced DEF NotFile, Preparing, Closing
<1>2. UNCHANGED <<open, files, written, clash>>
  BY DEF make_pipe, connect_writer, connect_reader, Storage
<1>3. CASE make_pipe(p)
  <2> DEFINE f == <<Frame("fork3", Do(p).c, Len(pipes) + 1)>>
             x == {<<"r", Len(pipes) + 1>>, <<"w", Len(pipes) + 1>>}
             r == [Then(p, f) EXCEPT !.hold = x]
  <2>1. At(p, "pipe")
    BY <1>3 DEF make_pipe
  <2>2. CASE Ends(p, ExitStatus(1))
    BY <1>2, <2>2, FilesLeft
  <2>3. CASE procs' = [procs EXCEPT ![p] = r]
    <3>1. Advanced(p, r, f \o Tail(s)) /\ Streams(p, r)
      BY <1>0, <2>1, Recorded DEF s
    <3>2. Lacks(s, Preparing) => Lacks(f \o Tail(s), Preparing)
      BY <1>0, <1>1, <2>1, Frames, FrameIs, ReplacedBy1
    <3> HIDE DEF r, f
    <3> QED  BY <1>1, <1>2, <2>1, <2>3, <3>1, <3>2, ClearMoves DEF s, Streams
  <2> QED  BY <1>3, <2>2, <2>3 DEF make_pipe
<1>4. CASE connect_writer(p)
  <2> DEFINE r == [Then(p, <<>>) EXCEPT !.out = <<"w", Do(p).n>>, !.hold = {}]
  <2>1. At(p, "writer") /\ procs' = [procs EXCEPT ![p] = r]
    BY <1>4 DEF connect_writer, Closed
  <2>2. /\ Advanced(p, r, <<>> \o Tail(s)) /\ r.out = <<"w", Do(p).n>>
        /\ r.in = procs[p].in /\ r.err = procs[p].err
    <3>1. Live(p) /\ DOMAIN procs[p] = RunFields
      BY <1>0, <2>1
    <3> QED  BY <3>1 DEF Advanced, RunFields, Then, Todo, Live, s
  <2>3. NotFile(r.out)
    BY <1>1, <2>2
  <2> HIDE DEF r
  <2> QED  BY <1>1, <1>2, <2>1, <2>2, <2>3, ClearMoves DEF s
<1>5. CASE connect_reader(p)
  <2> DEFINE r == [Then(p, <<>>) EXCEPT !.in = <<"r", Do(p).n>>, !.hold = {}]
  <2>1. At(p, "reader") /\ procs' = [procs EXCEPT ![p] = r]
    BY <1>5 DEF connect_reader, Closed
  <2>2. /\ Advanced(p, r, <<>> \o Tail(s)) /\ r.in = <<"r", Do(p).n>>
        /\ r.out = procs[p].out /\ r.err = procs[p].err
    <3>1. Live(p) /\ DOMAIN procs[p] = RunFields
      BY <1>0, <2>1
    <3> QED  BY <3>1 DEF Advanced, RunFields, Then, Todo, Live, s
  <2>3. NotFile(r.in)
    BY <1>1, <2>2
  <2> HIDE DEF r
  <2> QED  BY <1>1, <1>2, <2>1, <2>2, <2>3, ClearMoves DEF s
<1> QED  BY <1>3, <1>4, <1>5

LEMMA FilesInternal ==
  ASSUME ProcInv, FileInv, NEW p \in Pids, internal(p) PROVE FileInv'
<1> DEFINE s == Todo(p)
<1>0. At(p, "eval") /\ "eval" \notin Preparing /\ UNCHANGED <<open, files, written, clash>>
  BY DEF internal, Op, Preparing, Storage
<1>1. (Lacks(s, Preparing) => Lacks(Tail(s), Preparing)) /\ Live(p) /\ DOMAIN procs[p] = RunFields
  BY <1>0, Located, Replaced DEF ProcInv
<1>2. ASSUME NEW r, Advanced(p, r, Tail(s)), Streams(p, r), procs' = [procs EXCEPT ![p] = r]
      PROVE  FileInv'
  BY <1>0, <1>1, <1>2, ClearMoves DEF Streams
<1> HIDE DEF s
<1>3. \/ \E x, y : procs' = [procs EXCEPT ![p] = [Returns(p, x) EXCEPT !.cwd = y]]
      \/ \E x : procs' = [procs EXCEPT ![p] = Returns(p, x)]
      \/ \E y : procs' = [procs EXCEPT ![p] = [Returns(p, 0) EXCEPT !.env = Append(@, y)]]
  BY DEF internal
<1>4. ASSUME NEW x, NEW y, procs' = [procs EXCEPT ![p] = [Returns(p, x) EXCEPT !.cwd = y]]
      PROVE  FileInv'
  BY <1>1, <1>2, <1>4, Recorded DEF s
<1>5. ASSUME NEW x, procs' = [procs EXCEPT ![p] = Returns(p, x)] PROVE FileInv'
  BY <1>1, <1>2, <1>5, Recorded DEF s
<1>6. ASSUME NEW y, procs' = [procs EXCEPT ![p] = [Returns(p, 0) EXCEPT !.env = Append(@, y)]]
      PROVE  FileInv'
  BY <1>1, <1>2, <1>6, Recorded DEF s
<1> QED  BY <1>3, <1>4, <1>5, <1>6

LEMMA FilesReads ==
  ASSUME ProcInv, FileInv, read_line PROVE FileInv'
<1>0. UNCHANGED <<open, files, written, clash>>
  BY DEF read_line, Storage
<1>1. CASE UNCHANGED procs
  BY <1>0, <1>1, UnmovedKeeps, FilesStay DEF Live, Unmoved
<1>2. CASE parsed'.result = "tree"
  <2> DEFINE r == [procs[1] EXCEPT !.todo = <<Eval(parsed'.tree)>>]
  <2>1. procs' = [procs EXCEPT ![1] = r] /\ shell = "prompt"
    BY <1>2 DEF read_line
  <2>2. 1 \in Pids /\ Live(1) /\ DOMAIN procs[1] = RunFields /\ procs[1].todo = <<>>
    BY <2>1, ShellAssumption DEF ProcInv, Shape, ShellThere, Proper, Running, Live, Pids
  <2>3. Clear(procs[1])
    BY <2>2 DEF FileInv, Stages, Stage
  <2>4. r.todo = <<Eval(parsed'.tree)>> /\ r.in = procs[1].in /\ r.out = procs[1].out /\ r.err = procs[1].err
    BY <2>2 DEF RunFields
  <2>5. "eval" \notin Preparing
    BY DEF Preparing
  <2>6. Clear(r)
    <3>1. Eval(parsed'.tree).k \notin Preparing
      BY <2>5, Frames
    <3>2. Lacks(<<Eval(parsed'.tree)>>, Preparing)
      BY <3>1, Begins
    <3> HIDE DEF r
    <3> QED  BY <2>3, <2>4, <3>2 DEF Clear
  <2>7. procs'[1] = r
    BY <2>1, <2>2 DEF ProcInv, Shape
  <2> HIDE DEF r
  <2>8. Keeps(1)
    BY <2>2, <2>4, <2>6, <2>7 DEF Keeps, Stage
  <2> QED  BY <1>0, <2>1, <2>2, <2>8, FilesMove
<1> QED  BY <1>1, <1>2 DEF read_line
-----------------------------------------------------------------------------
(* Files are opened, read and written.                                     *)
Extended(o, o2) == \A i \in 1 .. Len(o) : i \in 1 .. Len(o2) /\ o2[i].file = o[i].file

LEMMA StageMore ==
  ASSUME NEW o, NEW o2, Extended(o, o2), NEW r
  PROVE  /\ \A d : FileOf(d, o) => FileOf(d, o2)
         /\ Stage(r, o) /\ FileOf(r.out, o) => Stage(r, o2)
<1>1. \A d : FileOf(d, o) => FileOf(d, o2)
  BY DEF FileOf, Extended
<1>2. ASSUME Stage(r, o), FileOf(r.out, o) PROVE Stage(r, o2)
  <2>1. ~NotFile(r.out) => o2[r.out[2]].file = o[r.out[2]].file
    BY <1>2 DEF FileOf, Extended
  <2> QED  BY <1>2, <2>1 DEF Stage
<1> QED  BY <1>1, <1>2

(* Other processes stay where they are.                                    *)
LEMMA StagesMore ==
  ASSUME Stages, Extended(open, open'), NEW p \in Pids,
         \A q \in Pids : q # p => procs'[q] = procs[q],
         Stage(procs'[p], open'),
         FileOf(procs'[p].in, open'), FileOf(procs'[p].out, open'), FileOf(procs'[p].err, open')
  PROVE  Stages'
<1> SUFFICES ASSUME NEW q \in Pids, Live(q)'
             PROVE  /\ Stage(procs'[q], open') /\ FileOf(procs'[q].in, open')
                    /\ FileOf(procs'[q].out, open') /\ FileOf(procs'[q].err, open')
  BY DEF Stages
<1>1. CASE q # p
  <2>1. Live(q) /\ procs'[q] = procs[q]
    BY <1>1 DEF Live
  <2>2. /\ Stage(procs[q], open) /\ FileOf(procs[q].in, open)
        /\ FileOf(procs[q].out, open) /\ FileOf(procs[q].err, open)
    BY <2>1 DEF Stages
  <2> QED  BY <2>1, <2>2, StageMore
<1> QED  BY <1>1

(* A new description.                                                      *)
LEMMA OpenedMore ==
  ASSUME OpenShape, NEW f, NEW append, open' = Append(open, Description(f, append))
  PROVE  /\ Extended(open, open') /\ Len(open) \in Nat /\ Len(open') = Len(open) + 1
         /\ IsSeq(open') /\ open'[Len(open) + 1] = Description(f, append)
         /\ \A i \in 1 .. Len(open) : open'[i] = open[i]
         /\ \A i \in 1 .. Len(open') : DOMAIN open'[i] = {"file", "append", "at"}
<1> DEFINE x == Description(f, append)
           S == {open[i] : i \in DOMAIN open} \cup {x}
<1>1. open \in Seq(S) /\ x \in S
  <2>1. open \in [1 .. Len(open) -> S] /\ Len(open) \in Nat
    BY DEF OpenShape, IsSeq
  <2> QED  BY <2>1
<1>2. DOMAIN x = {"file", "append", "at"}
  BY DEF Description
<1> HIDE DEF S, x
<1>3. /\ open' \in Seq(S) /\ Len(open) \in Nat /\ Len(open') = Len(open) + 1
      /\ open'[Len(open) + 1] = x /\ \A i \in 1 .. Len(open) : open'[i] = open[i]
  BY <1>1 DEF x
<1>4. IsSeq(open')
  BY <1>3, SeqIsSeq
<1>5. \A i \in 1 .. Len(open') : i = Len(open) + 1 \/ i \in 1 .. Len(open)
  BY <1>3
<1>6. \A i \in 1 .. Len(open') : DOMAIN open'[i] = {"file", "append", "at"}
  BY <1>2, <1>3, <1>5 DEF OpenShape
<1>7. Extended(open, open')
  BY <1>3 DEF Extended
<1> QED  BY <1>3, <1>4, <1>6, <1>7 DEF x

(* A description whose offset moves.                                       *)
LEMMA OffsetMoves ==
  ASSUME OpenShape, NEW k \in 1 .. Len(open), NEW v, open' = [open EXCEPT ![k].at = v]
  PROVE  /\ Extended(open, open') /\ IsSeq(open') /\ Len(open') = Len(open) /\ open'[k].at = v
         /\ \A i \in 1 .. Len(open) : /\ open'[i].file = open[i].file /\ open'[i].append = open[i].append
                                      /\ DOMAIN open'[i] = {"file", "append", "at"}
         /\ \A i \in 1 .. Len(open) : i # k => open'[i].at = open[i].at
<1> DEFINE x == [open[k] EXCEPT !.at = v]
           S == {open[i] : i \in DOMAIN open} \cup {x}
<1>1. open \in [1 .. Len(open) -> S] /\ Len(open) \in Nat /\ x \in S
  BY DEF OpenShape, IsSeq
<1>2. x.at = v /\ x.file = open[k].file /\ x.append = open[k].append /\ DOMAIN x = {"file", "append", "at"}
  BY DEF OpenShape
<1>3. open' = [open EXCEPT ![k] = x]
  OBVIOUS
<1> HIDE DEF S, x
<1>4. open' \in [1 .. Len(open) -> S] /\ open'[k] = x /\ \A i \in 1 .. Len(open) : i # k => open'[i] = open[i]
  BY <1>1, <1>3
<1>5. open' \in Seq(S) /\ Len(open') = Len(open)
  BY <1>1, <1>4
<1>6. IsSeq(open')
  BY <1>5, SeqIsSeq
<1>7. \A i \in 1 .. Len(open) : /\ open'[i].file = open[i].file /\ open'[i].append = open[i].append
                                /\ DOMAIN open'[i] = {"file", "append", "at"}
  BY <1>2, <1>4 DEF OpenShape
<1>8. Extended(open, open')
  BY <1>5, <1>7 DEF Extended
<1> QED  BY <1>2, <1>4, <1>5, <1>6, <1>7, <1>8

LEMMA Indices ==
  ASSUME FileInv, NEW p \in Pids, Live(p), NEW i
  PROVE  /\ procs[p].in = <<"file", i>> => i \in 1 .. Len(open)
         /\ procs[p].out = <<"file", i>> => i \in 1 .. Len(open)
         /\ procs[p].err = <<"file", i>> => i \in 1 .. Len(open)
<1>1. FileOf(procs[p].in, open) /\ FileOf(procs[p].out, open) /\ FileOf(procs[p].err, open)
  BY DEF FileInv, Stages
<1>2. \A d : FileOf(d, open) /\ d = <<"file", i>> => i \in 1 .. Len(open)
  BY NotFiles DEF FileOf
<1> QED  BY <1>1, <1>2

(* A file is opened to be read.                                            *)
LEMMA FilesOpenIn ==
  ASSUME ProcInv, FileInv, NEW p \in Pids, Live(p), NEW f,
         open' = Append(open, Description(f, FALSE)), UNCHANGED <<files, written, clash>>,
         NEW r, procs' = [procs EXCEPT ![p] = r], Stage(r, open'), r.in = <<"file", Len(open) + 1>>,
         NotFile(r.out), NotFile(r.err)
  PROVE  FileInv'
<1> DEFINE n == Len(open) + 1
<1>1. /\ Extended(open, open') /\ Len(open) \in Nat /\ Len(open') = n /\ IsSeq(open')
      /\ \A i \in 1 .. Len(open) : open'[i] = open[i]
      /\ \A i \in 1 .. Len(open') : DOMAIN open'[i] = {"file", "append", "at"}
  BY OpenedMore DEF FileInv
<1>2. procs'[p] = r /\ \A q \in Pids : q # p => procs'[q] = procs[q]
  BY DEF ProcInv, Shape
<1>3. Stages'
  <2>1. FileOf(r.in, open') /\ FileOf(r.out, open') /\ FileOf(r.err, open')
    <3>1. n \in 1 .. Len(open')
      BY <1>1
    <3> QED  BY <3>1 DEF FileOf
  <2> QED  BY <1>1, <1>2, <2>1, StagesMore DEF FileInv
<1>4. OpenShape' /\ InFile'
  <2>1. OpenShape'
    BY <1>1 DEF FileInv, OpenShape
  <2>2. InFile'
    BY DEF FileInv, InFile
  <2> QED  BY <2>1, <2>2
<1>5. \A i : Writing(i)' => Writing(i) /\ i \in 1 .. Len(open)
  <2> SUFFICES ASSUME NEW i, NEW q \in Pids, Live(q)', <<"file", i>> \in {procs'[q].out, procs'[q].err}
               PROVE  Writing(i) /\ i \in 1 .. Len(open)
    BY DEF Writing
  <2>0. ~NotFile(<<"file", i>>)
    BY NotFiles
  <2>1. q # p
    <3> SUFFICES ASSUME q = p PROVE FALSE
      OBVIOUS
    <3>1. <<"file", i>> \in {r.out, r.err}
      BY <1>2
    <3> QED  BY <2>0, <3>1
  <2>2. Live(q) /\ <<"file", i>> \in {procs[q].out, procs[q].err}
    BY <1>2, <2>1 DEF Live
  <2> QED  BY <2>2, Indices DEF Writing
<1>6. \A i : Reading(i)' => Reading(i) \/ i = n
  <2> SUFFICES ASSUME NEW i, NEW q \in Pids, Live(q)', procs'[q].in = <<"file", i>>
               PROVE  Reading(i) \/ i = n
    BY DEF Reading
  <2>1. CASE q = p
    BY <1>2, <2>1
  <2>2. CASE q # p
    BY <1>2, <2>2 DEF Live, Reading
  <2> QED  BY <2>1, <2>2
<1>7. \A i \in 1 .. Len(open) : i # n /\ (Sole(i)' <=> Sole(i)) /\ open'[i] = open[i]
  BY <1>1 DEF Sole
<1>8. Alone'
  BY <1>5, <1>6, <1>7 DEF FileInv, Alone
<1>9. AtEnd'
  BY <1>5, <1>7 DEF FileInv, AtEnd
<1> QED  BY <1>3, <1>4, <1>8, <1>9 DEF FileInv

(* What a file contains is a sequence.                                     *)
LEMMA NoFileIsNone == \A s : IsSeq(s) => s # NoFile
<1> SUFFICES ASSUME NEW s, IsSeq(s), s = NoFile PROVE FALSE
  OBVIOUS
<1>1. DOMAIN s = 1 .. Len(s) /\ Len(s) \in Nat
  BY IsSeqLen
<1>2. DOMAIN s = {0}
  BY DEF NoFile
<1>3. 0 \in DOMAIN s
  BY <1>2
<1> QED  BY <1>1, <1>3

(* A file is opened to be written.                                         *)
LEMMA FilesOpenOut ==
  ASSUME ProcInv, FileInv, NEW p \in Pids, Live(p), NEW f, NEW append \in BOOLEAN,
         Opened(p, f, append),
         NEW r, procs' = [procs EXCEPT ![p] = r], Stage(r, open'), r.in = procs[p].in,
         \A d \in {r.out, r.err} : \/ d = <<"file", Len(open) + 1>> \/ NotFile(d)
                                   \/ d = procs[p].out /\ open[d[2]].file # f
  PROVE  FileInv'
<1> DEFINE n == Len(open) + 1
<1>0. open' = Append(open, Description(f, append))
  BY DEF Opened
<1>1. /\ Extended(open, open') /\ Len(open) \in Nat /\ Len(open') = n /\ IsSeq(open')
      /\ open'[n] = Description(f, append)
      /\ \A i \in 1 .. Len(open) : open'[i] = open[i]
      /\ \A i \in 1 .. Len(open') : DOMAIN open'[i] = {"file", "append", "at"}
  BY <1>0, OpenedMore DEF FileInv
<1>2. procs'[p] = r /\ \A q \in Pids : q # p => procs'[q] = procs[q]
  BY DEF ProcInv, Shape
<1>3. FileOf(r.in, open) /\ FileOf(procs[p].out, open)
  BY DEF FileInv, Stages
<1>4. Stages'
  <2>1. FileOf(r.in, open') /\ FileOf(procs[p].out, open')
    BY <1>1, <1>3, StageMore
  <2>2. FileOf(<<"file", n>>, open')
    <3>1. n \in 1 .. Len(open')
      BY <1>1
    <3> QED  BY <3>1 DEF FileOf
  <2>3. \A d \in {r.out, r.err} : FileOf(d, open')
    BY <2>1, <2>2 DEF FileOf
  <2> QED  BY <1>1, <1>2, <2>1, <2>3, StagesMore DEF FileInv
<1>5. \A i : Reading(i)' => Reading(i) /\ i \in 1 .. Len(open)
  <2> SUFFICES ASSUME NEW i, NEW q \in Pids, Live(q)', procs'[q].in = <<"file", i>>
               PROVE  Reading(i) /\ i \in 1 .. Len(open)
    BY DEF Reading
  <2>1. Live(q) /\ procs[q].in = <<"file", i>>
    BY <1>2 DEF Live
  <2> QED  BY <2>1, Indices DEF Reading
<1>6. \A i : Writing(i)' => i = n \/ (i \in 1 .. Len(open) /\ Writing(i) /\ (open[i].file = f => f \in clash'))
  <2> SUFFICES ASSUME NEW i, NEW q \in Pids, Live(q)', <<"file", i>> \in {procs'[q].out, procs'[q].err},
                      i # n
               PROVE  i \in 1 .. Len(open) /\ Writing(i) /\ (open[i].file = f => f \in clash')
    BY DEF Writing
  <2>0. ~NotFile(<<"file", i>>) /\ <<"file", i>>[2] = i /\ <<"file", i>> # <<"file", n>>
    BY NotFiles
  <2>1. CASE q = p
    <3>1. <<"file", i>> = procs[p].out /\ open[i].file # f
      <4>1. <<"file", i>> \in {r.out, r.err}
        BY <1>2, <2>1
      <4>2. <<"file", i>> = procs[p].out /\ open[<<"file", i>>[2]].file # f
        BY <2>0, <4>1
      <4> QED  BY <2>0, <4>2
    <3> QED  BY <3>1, Indices DEF Writing
  <2>2. CASE q # p
    <3>1. Live(q) /\ <<"file", i>> \in {procs[q].out, procs[q].err}
      BY <1>2, <2>2 DEF Live
    <3>2. i \in 1 .. Len(open) /\ Writing(i)
      BY <3>1, Indices DEF Writing
    <3>3. ASSUME open[i].file = f PROVE f \in clash'
      <4>1. <<"file", i>> \in Held(procs[q])
        BY <3>1 DEF Held, Live
      <4>2. i \in DOMAIN open
        BY <3>2, IsSeqLen DEF FileInv, OpenShape
      <4> QED  BY <2>2, <3>3, <4>1, <4>2 DEF Opened
    <3> QED  BY <3>2, <3>3
  <2> QED  BY <2>1, <2>2
<1>7. clash \subseteq clash'
  BY DEF Opened
<1>8. open'[n].file = f /\ open'[n].append = append /\ open'[n].at = 0
  BY <1>1 DEF Description
<1>9. /\ DOMAIN files' = Files /\ DOMAIN written' = Files
      /\ \A g \in Files : g # f => files'[g] = files[g] /\ written'[g] = written[g]
      /\ f \in Files => /\ files'[f] = IF append /\ files[f] # NoFile THEN files[f] ELSE <<>>
                        /\ written'[f] = IF append THEN written[f] ELSE {}
  BY DEF Opened, FileInv, OpenShape
<1>10. OpenShape'
  BY <1>1, <1>9 DEF OpenShape
<1>11. IsSeq(<<>>) /\ Len(<<>>) = 0
  BY EmptyTidy DEF Tidy
<1>12. f \in Files \ clash' => IsSeq(files'[f]) /\ (append \/ Len(files'[f]) = 0)
  BY <1>7, <1>9, <1>11 DEF FileInv, InFile
<1>13. InFile'
  <2> SUFFICES ASSUME NEW g \in Files \ clash'
               PROVE  \/ files'[g] = NoFile /\ written'[g] = {}
                      \/ /\ IsSeq(files'[g])
                         /\ written'[g] \subseteq {files'[g][i] : i \in 1 .. Len(files'[g])}
    BY DEF InFile
  <2>1. \/ files[g] = NoFile /\ written[g] = {}
        \/ IsSeq(files[g]) /\ written[g] \subseteq {files[g][i] : i \in 1 .. Len(files[g])}
    BY <1>7 DEF FileInv, InFile
  <2>2. CASE g # f
    BY <1>9, <2>1, <2>2
  <2>3. CASE g = f
    <3>1. CASE append /\ files[f] # NoFile
      BY <1>9, <2>1, <2>3, <3>1
    <3>2. CASE ~(append /\ files[f] # NoFile)
      <4>1. written'[f] = {} /\ files'[f] = <<>>
        BY <1>9, <2>1, <2>3, <3>2, <1>11, NoFileIsNone
      <4> QED  BY <1>11, <2>3, <4>1
    <3> QED  BY <3>1, <3>2
  <2> QED  BY <2>2, <2>3
<1>14. \A i \in 1 .. Len(open) : i # n /\ open'[i] = open[i] /\ (Sole(i)' => Sole(i))
  BY <1>1, <1>7 DEF Sole
<1>15. \A i : Writing(i)' => i = n \/ (/\ i \in 1 .. Len(open) /\ Writing(i)
                                       /\ Sole(i)' => open[i].file # f)
  BY <1>6, <1>14 DEF Sole
<1>16. Alone'
  <2>1. \A i \in 1 .. Len(open') : ~(Reading(i)' /\ Writing(i)')
    BY <1>5, <1>6, <1>14 DEF FileInv, Alone
  <2>2. ASSUME NEW i \in 1 .. Len(open'), NEW j \in 1 .. Len(open'),
               Writing(i)', Writing(j)', open'[i].file = open'[j].file, Sole(i)'
        PROVE  i = j
    <3>1. Sole(j)'
      BY <2>2 DEF Sole
    <3> QED  BY <1>8, <1>14, <1>15, <2>2, <3>1 DEF FileInv, Alone
  <2> QED  BY <2>1, <2>2 DEF Alone
<1>17. AtEnd'
  <2> SUFFICES ASSUME NEW i \in 1 .. Len(open'), Writing(i)', Sole(i)'
               PROVE  /\ IsSeq(files'[open'[i].file])
                      /\ open'[i].append \/ open'[i].at = Len(files'[open'[i].file])
    BY DEF AtEnd
  <2>1. CASE i = n
    <3>1. f \in Files \ clash'
      BY <1>8, <2>1 DEF Sole
    <3> QED  BY <1>8, <1>12, <2>1, <3>1
  <2>2. CASE i # n
    <3>1. i \in 1 .. Len(open) /\ Writing(i) /\ open[i].file # f /\ open'[i] = open[i] /\ Sole(i)
      BY <1>14, <1>15, <2>2
    <3>2. files'[open[i].file] = files[open[i].file]
      BY <1>9, <3>1 DEF Sole
    <3> QED  BY <3>1, <3>2 DEF FileInv, AtEnd
  <2> QED  BY <2>1, <2>2
<1> QED  BY <1>4, <1>10, <1>13, <1>16, <1>17 DEF FileInv

(* redirect, field by field.                                               *)
LEMMA Connects ==
  ASSUME ProcInv, NEW p \in Pids, NEW k, At(p, k), NEW d
  PROVE  /\ LET r == [Then(p, <<>>) EXCEPT !["in"] = d]
            IN  /\ r.todo = Tail(Todo(p)) /\ r.in = d /\ r.env = procs[p].env
                /\ r.out = procs[p].out /\ r.err = procs[p].err
         /\ LET r == [Then(p, <<>>) EXCEPT !["out"] = d]
            IN  /\ r.todo = Tail(Todo(p)) /\ r.out = d /\ r.env = procs[p].env
                /\ r.in = procs[p].in /\ r.err = procs[p].err
         /\ LET r == [Then(p, <<>>) EXCEPT !["err"] = d]
            IN  /\ r.todo = Tail(Todo(p)) /\ r.err = d /\ r.env = procs[p].env
                /\ r.in = procs[p].in /\ r.out = procs[p].out
<1>1. Live(p) /\ DOMAIN procs[p] = RunFields /\ Tidy(Todo(p)) /\ Todo(p) # <<>>
  BY Located DEF ProcInv
<1>2. <<>> \o Tail(Todo(p)) = Tail(Todo(p))
  BY <1>1, Replaced
<1> QED  BY <1>1, <1>2 DEF RunFields, Then, Todo, Live

LEMMA Opens ==
  ASSUME NEW c
  PROVE  /\ Head(OpensOutputs(c)).c = c /\ OpensOutputs(c) # <<>>
         /\ Head(OpensError(c)).c = c /\ OpensError(c) # <<>>
         /\ \A n : LET s == <<Frame("program", c, n)>> IN Head(s).c = c /\ Head(s).n = n /\ s # <<>>
BY FrameIs DEF OpensOutputs, OpensError

LEMMA FilesIn ==
  ASSUME ProcInv, FileInv, NEW p \in Pids, redirect_in(p) PROVE FileInv'
<1> DEFINE c == Do(p).c
           name == Target(p, Simple(p).in)
           R(d) == [Then(p, <<>>) EXCEPT !["in"] = d]
<1>0. At(p, "open_in") /\ "open_in" \in Preparing /\ UNCHANGED <<files, written, clash>>
  BY DEF redirect_in, Preparing
<1>1. /\ Live(p) /\ Tail(Todo(p)) = OpensOutputs(c)
      /\ NotFile(procs[p].in) /\ NotFile(procs[p].out) /\ NotFile(procs[p].err)
  BY <1>0, AtPreparing
<1>2. \A d, o : /\ R(d).in = d /\ R(d).out = procs[p].out /\ R(d).err = procs[p].err
                /\ R(d).todo = OpensOutputs(c)
  BY <1>0, <1>1, Connects
<1> HIDE DEF R
<1>3. \A d, o : Stage(R(d), o)
  BY <1>1, <1>2, Opens DEF Stage
<1>4. \/ procs' = [procs EXCEPT ![p] = R(procs[p].in)] /\ open' = open
      \/ /\ open' = Append(open, Description(name, FALSE))
         /\ procs' = [procs EXCEPT ![p] = R(<<"file", Len(open) + 1>>)]
      \/ Ends(p, ExitStatus(1)) /\ open' = open
  BY DEF redirect_in, Connected, OpenFails, R
<1>5. CASE procs' = [procs EXCEPT ![p] = R(procs[p].in)] /\ open' = open
  <2>1. procs'[p] = R(procs[p].in)
    BY <1>5 DEF ProcInv, Shape
  <2>2. Keeps(p)
    BY <1>1, <1>2, <1>3, <2>1 DEF Keeps
  <2> QED  BY <1>0, <1>5, <2>2, FilesMove
<1>6. CASE /\ open' = Append(open, Description(name, FALSE))
           /\ procs' = [procs EXCEPT ![p] = R(<<"file", Len(open) + 1>>)]
  <2> DEFINE r == R(<<"file", Len(open) + 1>>)
  <2>1. Stage(r, open') /\ r.in = <<"file", Len(open) + 1>> /\ NotFile(r.out) /\ NotFile(r.err)
    BY <1>1, <1>2, <1>3
  <2> HIDE DEF r, name
  <2> QED  BY <1>0, <1>1, <1>6, <2>1, FilesOpenIn DEF r
<1>7. CASE Ends(p, ExitStatus(1)) /\ open' = open
  BY <1>0, <1>7, FilesLeft
<1> QED  BY <1>4, <1>5, <1>6, <1>7

LEMMA FilesOut ==
  ASSUME ProcInv, FileInv, NEW p \in Pids, redirect_out(p) PROVE FileInv'
<1> DEFINE c == Do(p).c
           name == Target(p, Simple(p).out)
           append == "IO_OUT_APPEND" \in Simple(p).io_flags
           R(d) == [Then(p, <<>>) EXCEPT !["out"] = d]
           n == Len(open) + 1
<1>0. At(p, "open_out") /\ "open_out" \in Preparing /\ append \in BOOLEAN
  BY DEF redirect_out, Preparing
<1>1. /\ Live(p) /\ Tail(Todo(p)) = OpensError(c)
      /\ NotFile(procs[p].out) /\ NotFile(procs[p].err)
  BY <1>0, AtPreparing
<1>2. \A d : /\ R(d).out = d /\ R(d).in = procs[p].in /\ R(d).err = procs[p].err
             /\ R(d).todo = OpensError(c) /\ R(d).env = procs[p].env
  <2> TAKE d
  <2>1. /\ R(d).todo = Tail(Todo(p)) /\ R(d).out = d /\ R(d).env = procs[p].env
        /\ R(d).in = procs[p].in /\ R(d).err = procs[p].err
    BY <1>0, Connects
  <2> QED  BY <1>1, <2>1
<1> HIDE DEF R
<1>3. \A d, o : NotFile(d) \/ o[d[2]].file = flatten(procs[p].env, c.scmd.out) => Stage(R(d), o)
  BY <1>1, <1>2, Opens DEF Stage
<1>4. \/ procs' = [procs EXCEPT ![p] = R(procs[p].out)] /\ UNCHANGED <<open, files, written, clash>>
      \/ Opened(p, name, append) /\ procs' = [procs EXCEPT ![p] = R(<<"file", n>>)]
      \/ Ends(p, ExitStatus(1)) /\ UNCHANGED <<open, files, written, clash>>
  BY DEF redirect_out, Connected, OpenFails, R
<1>5. CASE procs' = [procs EXCEPT ![p] = R(procs[p].out)] /\ UNCHANGED <<open, files, written, clash>>
  <2>1. procs'[p] = R(procs[p].out)
    BY <1>5 DEF ProcInv, Shape
  <2>2. Keeps(p)
    BY <1>1, <1>2, <1>3, <2>1 DEF Keeps
  <2> QED  BY <1>5, <2>2, FilesMove
<1>6. CASE Opened(p, name, append) /\ procs' = [procs EXCEPT ![p] = R(<<"file", n>>)]
  <2> DEFINE r == R(<<"file", n>>)
  <2>1. open' = Append(open, Description(name, append))
    BY <1>6 DEF Opened
  <2>2. open'[n].file = name
    <3>1. open'[n] = Description(name, append)
      BY <2>1, OpenedMore DEF FileInv
    <3> QED  BY <3>1 DEF Description
  <2>3. name = flatten(procs[p].env, c.scmd.out) /\ <<"file", n>>[2] = n
    BY DEF Target, Simple
  <2>4. Stage(r, open') /\ r.in = procs[p].in
    BY <1>2, <1>3, <2>2, <2>3
  <2>5. \A d \in {r.out, r.err} : \/ d = <<"file", n>> \/ NotFile(d)
                                  \/ d = procs[p].out /\ open[d[2]].file # name
    BY <1>1, <1>2
  <2> HIDE DEF r, name, append
  <2> QED  BY <1>0, <1>1, <1>6, <2>4, <2>5, FilesOpenOut DEF r
<1>7. CASE Ends(p, ExitStatus(1)) /\ UNCHANGED <<open, files, written, clash>>
  BY <1>7, FilesLeft
<1> QED  BY <1>4, <1>5, <1>6, <1>7

LEMMA FilesErr ==
  ASSUME ProcInv, FileInv, NEW p \in Pids, redirect_err(p) PROVE FileInv'
<1> DEFINE c == Do(p).c
           name == Target(p, Simple(p).err)
           append == "IO_ERR_APPEND" \in Simple(p).io_flags
           R(d) == [Then(p, <<>>) EXCEPT !["err"] = d]
           n == Len(open) + 1
<1>0. At(p, "open_err") /\ "open_err" \in Preparing /\ append \in BOOLEAN
  BY DEF redirect_err, Preparing
<1>1. /\ Live(p) /\ Tail(Todo(p)) = <<Frame("program", c, 0)>> /\ NotFile(procs[p].err)
      /\ NotFile(procs[p].out) \/ open[procs[p].out[2]].file = flatten(procs[p].env, c.scmd.out)
  BY <1>0, AtPreparing
<1>2. \A d : /\ R(d).err = d /\ R(d).in = procs[p].in /\ R(d).out = procs[p].out
             /\ R(d).todo = <<Frame("program", c, 0)>>
  BY <1>0, <1>1, Connects
<1> HIDE DEF R
<1>3. \A d, o : Stage(R(d), o)
  <2>1. LET s == <<Frame("program", c, 0)>> IN Head(s).c = c /\ Head(s).n = 0 /\ s # <<>>
    BY Opens
  <2> QED  BY <1>2, <2>1 DEF Stage
<1>4. \/ \E d \in {procs[p].out, procs[p].err} :
           procs' = [procs EXCEPT ![p] = R(d)] /\ UNCHANGED <<open, files, written, clash>>
      \/ Opened(p, name, append) /\ ~Shared(p) /\ procs' = [procs EXCEPT ![p] = R(<<"file", n>>)]
      \/ Ends(p, ExitStatus(1)) /\ UNCHANGED <<open, files, written, clash>>
  BY DEF redirect_err, Connected, OpenFails, R
<1>5. ASSUME NEW d \in {procs[p].out, procs[p].err},
             procs' = [procs EXCEPT ![p] = R(d)] /\ UNCHANGED <<open, files, written, clash>>
      PROVE  FileInv'
  <2>1. procs'[p] = R(d)
    BY <1>5 DEF ProcInv, Shape
  <2>2. Keeps(p)
    BY <1>1, <1>2, <1>3, <1>5, <2>1 DEF Keeps
  <2> QED  BY <1>5, <2>2, FilesMove
<1>6. CASE Opened(p, name, append) /\ ~Shared(p) /\ procs' = [procs EXCEPT ![p] = R(<<"file", n>>)]
  <2> DEFINE r == R(<<"file", n>>)
  <2>1. name # flatten(procs[p].env, c.scmd.out)
    BY <1>6 DEF Shared, Target, Simple
  <2>2. Stage(r, open') /\ r.in = procs[p].in
    BY <1>2, <1>3
  <2>3. \A d \in {r.out, r.err} : \/ d = <<"file", n>> \/ NotFile(d)
                                  \/ d = procs[p].out /\ open[d[2]].file # name
    BY <1>1, <1>2, <2>1
  <2> HIDE DEF r, name, append
  <2> QED  BY <1>0, <1>1, <1>6, <2>2, <2>3, FilesOpenOut DEF r
<1>7. CASE Ends(p, ExitStatus(1)) /\ UNCHANGED <<open, files, written, clash>>
  BY <1>7, FilesLeft
<1> QED  BY <1>4, <1>5, <1>6, <1>7

(* Writing at the end.                                                     *)
LEMMA PutAtEnd ==
  ASSUME NEW s, IsSeq(s), NEW i, i = Len(s) + 1, NEW chunk
  PROVE  LET t == PutAt(s, i, chunk)
         IN  /\ IsSeq(t) /\ Len(t) = i /\ t[i] = chunk /\ i \in 1 .. Len(t)
             /\ \A j \in 1 .. Len(s) : t[j] = s[j] /\ j \in 1 .. Len(t)
<1> DEFINE t == PutAt(s, i, chunk)
           S == {s[j] : j \in 1 .. Len(s)} \cup {chunk, 0}
<1>1. Len(s) \in Nat /\ i \in Nat /\ i > Len(s)
  BY IsSeqLen
<1>2. t = [j \in 1 .. i |-> IF j = i THEN chunk ELSE IF j > Len(s) THEN 0 ELSE s[j]]
  BY <1>1 DEF PutAt
<1>3. t \in [1 .. i -> S] /\ t[i] = chunk /\ \A j \in 1 .. Len(s) : t[j] = s[j]
  <2> HIDE DEF t
  <2>1. \A j \in 1 .. i : j # i => j \in 1 .. Len(s) /\ ~(j > Len(s))
    BY <1>1
  <2>2. \A j \in 1 .. Len(s) : j \in 1 .. i /\ j # i /\ ~(j > Len(s))
    BY <1>1
  <2> QED  BY <1>1, <1>2, <2>1, <2>2
<1> HIDE DEF t, S
<1>4. t \in Seq(S) /\ Len(t) = i
  BY <1>1, <1>3
<1>5. IsSeq(t)
  BY <1>4, SeqIsSeq
<1>6. IsSeq(t) /\ Len(t) = i /\ t[i] = chunk /\ i \in 1 .. Len(t) /\ \A j \in 1 .. Len(s) : t[j] = s[j] /\ j \in 1 .. Len(t)
  BY <1>1, <1>3, <1>4, <1>5
<1> QED  BY <1>6 DEF t

(* A program that goes on keeps its streams.                               *)
LEMMA ProgramGoesOn ==
  ASSUME ProcInv, FileInv, NEW p \in Pids, At(p, "program"), NEW n,
         procs' = [procs EXCEPT ![p] = Goes_on(p, n)], Extended(open, open')
  PROVE  /\ Live(p) /\ Live(p)' /\ Streams(p, procs'[p]) /\ \A o : Stage(procs'[p], o)
         /\ \A q \in Pids : q # p => procs'[q] = procs[q]
         /\ Stages' /\ \A i : (Reading(i)' <=> Reading(i)) /\ (Writing(i)' <=> Writing(i))
<1> DEFINE r == Goes_on(p, n)
<1>1. Live(p) /\ DOMAIN procs[p] = RunFields
  BY Located DEF ProcInv
<1>2. Advanced(p, r, <<Frame("program", Do(p).c, n)>>) /\ Streams(p, r)
  BY <1>1, StreamRecords
<1> HIDE DEF r
<1>3. procs'[p] = r /\ \A q \in Pids : q # p => procs'[q] = procs[q]
  BY DEF ProcInv, Shape, r
<1>4. \A o : Stage(r, o)
  <2>1. LET s == <<Frame("program", Do(p).c, n)>> IN Head(s).c = Do(p).c /\ Head(s).n = n /\ s # <<>>
    BY Opens
  <2> QED  BY <1>2, <2>1 DEF Stage, Advanced
<1>5. FileOf(r.in, open') /\ FileOf(r.out, open') /\ FileOf(r.err, open')
  BY <1>1, <1>2, StageMore DEF FileInv, Stages, Streams
<1>6. Stages'
  BY <1>3, <1>4, <1>5, StagesMore DEF FileInv
<1>7. Live(p)' /\ \A q \in Pids : /\ Live(q)' <=> Live(q)
                                  /\ procs'[q].in = procs[q].in /\ procs'[q].out = procs[q].out
                                  /\ procs'[q].err = procs[q].err
  BY <1>1, <1>2, <1>3 DEF Live, Streams, Advanced
<1>8. ASSUME NEW i PROVE (Reading(i)' <=> Reading(i)) /\ (Writing(i)' <=> Writing(i))
  BY <1>7 DEF Reading, Writing
<1> QED  BY <1>1, <1>2, <1>3, <1>4, <1>6, <1>7, <1>8

LEMMA FilesCat ==
  ASSUME ProcInv, FileInv, NEW p \in Pids, cat_read(p) PROVE FileInv'
<1> DEFINE d == procs[p].in
<1>0. At(p, "program") /\ UNCHANGED <<files, written, clash>>
  BY DEF cat_read
<1>1. PICK n : procs' = [procs EXCEPT ![p] = Goes_on(p, n)]
  BY DEF cat_read
<1>2. CASE UNCHANGED open
  <2>1. Extended(open, open')
    BY <1>2 DEF Extended
  <2>2. Live(p) /\ Streams(p, procs'[p]) /\ Stage(procs'[p], open)
    BY <1>0, <1>1, <2>1, ProgramGoesOn
  <2>3. Keeps(p)
    BY <2>2 DEF Keeps, Streams
  <2> QED  BY <1>0, <1>1, <1>2, <2>3, FilesMove
<1>3. CASE FromFile(d) /\ open' = [open EXCEPT ![d[2]].at = @ + 1]
  <2>1. PICK k \in 1 .. Len(open) : d = <<"file", k>>
    <3>1. FileOf(d, open) /\ ~NotFile(d)
      BY <1>0, <1>3 DEF FileInv, Stages, FromFile, NotFile, At
    <3> QED  BY <3>1 DEF FileOf
  <2>2. d[2] = k
    BY <2>1
  <2> DEFINE v == open[k].at + 1
  <2>3. open' = [open EXCEPT ![k].at = v]
    BY <1>3, <2>2
  <2> HIDE DEF v, d
  <2>4. /\ Extended(open, open') /\ IsSeq(open') /\ Len(open') = Len(open)
        /\ \A i \in 1 .. Len(open) : /\ open'[i].file = open[i].file /\ open'[i].append = open[i].append
                                     /\ DOMAIN open'[i] = {"file", "append", "at"}
        /\ \A i \in 1 .. Len(open) : i # k => open'[i].at = open[i].at
    BY <2>3, OffsetMoves DEF FileInv
  <2>5. Live(p) /\ Stages' /\ \A i : (Reading(i)' <=> Reading(i)) /\ (Writing(i)' <=> Writing(i))
    BY <1>0, <1>1, <2>4, ProgramGoesOn
  <2>6. ~Writing(k)
    BY <2>1, <2>5 DEF FileInv, Alone, Reading, d
  <2>7. OpenShape'
    BY <1>0, <2>4 DEF FileInv, OpenShape
  <2>8. InFile'
    BY <1>0 DEF FileInv, InFile
  <2>9. \A i \in 1 .. Len(open) : Sole(i)' <=> Sole(i)
    BY <1>0, <2>4 DEF Sole
  <2>10. Alone'
    BY <2>4, <2>5, <2>9 DEF FileInv, Alone
  <2>11. AtEnd'
    <3> SUFFICES ASSUME NEW i \in 1 .. Len(open'), Writing(i)', Sole(i)'
                 PROVE  /\ IsSeq(files'[open'[i].file])
                        /\ open'[i].append \/ open'[i].at = Len(files'[open'[i].file])
      BY DEF AtEnd
    <3>1. i \in 1 .. Len(open) /\ Writing(i) /\ Sole(i) /\ i # k
      BY <2>4, <2>5, <2>6, <2>9
    <3> QED  BY <1>0, <2>4, <3>1 DEF FileInv, AtEnd
  <2> QED  BY <2>5, <2>7, <2>8, <2>10, <2>11 DEF FileInv
<1> QED  BY <1>2, <1>3 DEF cat_read

LEMMA FilesWrite ==
  ASSUME ProcInv, FileInv, NEW p \in Pids, program_write(p) PROVE FileInv'
<1>0. At(p, "program")
  BY DEF program_write
<1>1. PICK o \in Output(p) :
        LET d == procs[p][o.field]
        IN  /\ \/ UNCHANGED <<open, files, written, clash>>
               \/ /\ d[1] = "file"
                  /\ LET x == open[d[2]]
                         i == (IF x.append THEN Len(files[x.file]) ELSE x.at) + 1
                     IN  /\ files' = [files EXCEPT ![x.file] = PutAt(@, i, o.chunk)]
                         /\ open' = [open EXCEPT ![d[2]].at = i]
                         /\ written' = [written EXCEPT ![x.file] = @ \cup {o.chunk}]
                  /\ UNCHANGED clash
            /\ procs' = [procs EXCEPT ![p] = Goes_on(p, o.next)]
  BY DEF program_write, Storage
<1>2. o.field \in {"out", "err"}
  <2>1. \A load : \A i \in DOMAIN Script(load) : Script(load)[i] \in {"out", "err"}
    BY DEF Script
  <2> QED  BY <2>1 DEF Output
<1> DEFINE d == procs[p][o.field]
<1>3. d \in {procs[p].out, procs[p].err}
  BY <1>2
<1>4. CASE UNCHANGED <<open, files, written, clash>>
  <2>1. Extended(open, open')
    BY <1>4 DEF Extended
  <2>2. Live(p) /\ Streams(p, procs'[p]) /\ Stage(procs'[p], open)
    BY <1>0, <1>1, <2>1, ProgramGoesOn
  <2>3. Keeps(p)
    BY <2>2 DEF Keeps, Streams
  <2> QED  BY <1>1, <1>4, <2>3, FilesMove
<1>5. CASE ~UNCHANGED <<open, files, written, clash>>
  <2>0. d[1] = "file" /\ Live(p)
    BY <1>0, <1>1, <1>5 DEF At
  <2>1. PICK k \in 1 .. Len(open) : d = <<"file", k>>
    <3>1. FileOf(d, open) /\ ~NotFile(d)
      BY <1>3, <2>0 DEF FileInv, Stages, NotFile
    <3> HIDE DEF d
    <3> QED  BY <3>1 DEF FileOf
  <2>2. d[2] = k /\ Writing(k)
    BY <1>3, <2>0, <2>1 DEF Writing
  <2> DEFINE f == open[k].file
             v == (IF open[k].append THEN Len(files[f]) ELSE open[k].at) + 1
  <2>3. /\ open' = [open EXCEPT ![k].at = v] /\ clash' = clash
        /\ files' = [files EXCEPT ![f] = PutAt(@, v, o.chunk)]
        /\ written' = [written EXCEPT ![f] = @ \cup {o.chunk}]
    BY <1>1, <1>5, <2>2
  <2> HIDE DEF v, d
  <2>4. /\ Extended(open, open') /\ IsSeq(open') /\ Len(open') = Len(open) /\ open'[k].at = v
        /\ \A i \in 1 .. Len(open) : /\ open'[i].file = open[i].file /\ open'[i].append = open[i].append
                                     /\ DOMAIN open'[i] = {"file", "append", "at"}
        /\ \A i \in 1 .. Len(open) : i # k => open'[i].at = open[i].at
    BY <2>3, OffsetMoves DEF FileInv
  <2>5. Stages' /\ \A i : (Reading(i)' <=> Reading(i)) /\ (Writing(i)' <=> Writing(i))
    BY <1>0, <1>1, <2>4, ProgramGoesOn
  <2> HIDE DEF f
  <2>6. /\ DOMAIN files' = Files /\ DOMAIN written' = Files
        /\ \A g \in Files : g # f => files'[g] = files[g] /\ written'[g] = written[g]
        /\ f \in Files => /\ files'[f] = PutAt(files[f], v, o.chunk)
                          /\ written'[f] = written[f] \cup {o.chunk}
    BY <2>3 DEF FileInv, OpenShape
  <2>7. OpenShape'
    BY <2>4, <2>6 DEF OpenShape
  <2>8. \A i \in 1 .. Len(open) : Sole(i)' <=> Sole(i)
    BY <2>3, <2>4 DEF Sole
  <2>9. Alone'
    BY <2>4, <2>5, <2>8 DEF FileInv, Alone
  <2>10. f \in Files \ clash =>
           /\ IsSeq(files[f]) /\ IsSeq(files'[f]) /\ Len(files'[f]) = v /\ v \in 1 .. Len(files'[f])
           /\ files'[f][v] = o.chunk
           /\ \A j \in 1 .. Len(files[f]) : files'[f][j] = files[f][j] /\ j \in 1 .. Len(files'[f])
    <3> SUFFICES ASSUME f \in Files \ clash
                 PROVE  /\ IsSeq(files[f]) /\ IsSeq(files'[f]) /\ Len(files'[f]) = v /\ v \in 1 .. Len(files'[f])
                        /\ files'[f][v] = o.chunk
                        /\ \A j \in 1 .. Len(files[f]) : files'[f][j] = files[f][j] /\ j \in 1 .. Len(files'[f])
      OBVIOUS
    <3>1. IsSeq(files[f]) /\ v = Len(files[f]) + 1
      BY <2>2 DEF FileInv, AtEnd, Sole, f, v
    <3> QED  BY <2>6, <3>1, PutAtEnd
  <2>11. InFile'
    <3> SUFFICES ASSUME NEW g \in Files \ clash
                 PROVE  \/ files'[g] = NoFile /\ written'[g] = {}
                        \/ /\ IsSeq(files'[g])
                           /\ written'[g] \subseteq {files'[g][i] : i \in 1 .. Len(files'[g])}
      BY <2>3 DEF InFile
    <3>1. \/ files[g] = NoFile /\ written[g] = {}
          \/ IsSeq(files[g]) /\ written[g] \subseteq {files[g][i] : i \in 1 .. Len(files[g])}
      BY DEF FileInv, InFile
    <3>2. CASE g # f
      BY <2>6, <3>1, <3>2
    <3>3. CASE g = f
      <4>1. written[f] \subseteq {files[f][i] : i \in 1 .. Len(files[f])}
        BY <2>10, <3>1, <3>3, NoFileIsNone
      <4>2. written'[f] \subseteq {files'[f][i] : i \in 1 .. Len(files'[f])}
        <5> SUFFICES ASSUME NEW x \in written'[f] PROVE \E i \in 1 .. Len(files'[f]) : x = files'[f][i]
          OBVIOUS
        <5>1. x = o.chunk \/ \E i \in 1 .. Len(files[f]) : x = files[f][i]
          BY <2>6, <3>3, <4>1
        <5> QED  BY <2>10, <3>3, <5>1
      <4> QED  BY <2>10, <3>3, <4>2
    <3> QED  BY <3>2, <3>3
  <2>12. AtEnd'
    <3> SUFFICES ASSUME NEW i \in 1 .. Len(open'), Writing(i)', Sole(i)'
                 PROVE  /\ IsSeq(files'[open'[i].file])
                        /\ open'[i].append \/ open'[i].at = Len(files'[open'[i].file])
      BY DEF AtEnd
    <3>1. i \in 1 .. Len(open) /\ Writing(i) /\ Sole(i) /\ open'[i].file = open[i].file
      BY <2>4, <2>5, <2>8
    <3>2. CASE i = k
      <4>1. open'[i].file = f /\ f \in Files \ clash
        BY <3>1, <3>2 DEF Sole, f
      <4> QED  BY <2>4, <2>10, <3>2, <4>1
    <3>3. CASE i # k
      <4>1. open[i].file # f /\ open[i].file \in Files
        BY <2>2, <3>1, <3>3 DEF FileInv, Alone, Sole, f
      <4>2. files'[open[i].file] = files[open[i].file]
        BY <2>6, <4>1
      <4> QED  BY <2>4, <3>1, <3>3, <4>2 DEF FileInv, AtEnd
    <3> QED  BY <3>2, <3>3
  <2> QED  BY <2>5, <2>7, <2>9, <2>11, <2>12 DEF FileInv
<1> QED  BY <1>4, <1>5

LEMMA FilesInit ==
  ASSUME ShellInit PROVE FileInv
<1>1. IsSeq(<<>>) /\ Len(<<>>) = 0
  BY EmptyTidy DEF Tidy
<1>2. \A p \in Pids : Live(p) => procs[p] = Idle
  BY DEF ShellInit, Live, Free
<1>3. Clear(Idle)
  BY EmptyTidy DEF Clear, Idle, NotFile, TTY
<1>4. Stages
  BY <1>2, <1>3 DEF Stages, Stage, Clear, FileOf
<1>5. OpenShape
  BY <1>1 DEF OpenShape, ShellInit
<1>6. Alone /\ AtEnd
  BY <1>1 DEF Alone, AtEnd, ShellInit
<1>7. InFile
  <2>1. PICK content \in {NoFile, <<>>} : files = [f \in Files |-> content]
    BY DEF ShellInit
  <2> QED  BY <1>1, <2>1 DEF InFile, ShellInit
<1> QED  BY <1>4, <1>5, <1>6, <1>7 DEF FileInv

LEMMA FilesStep ==
  ASSUME ProcInv, FileInv, [ShellNext]_shellVars PROVE FileInv'
<1>1. CASE UNCHANGED <<procs, open, files, written, clash>>
  BY <1>1, UnmovedKeeps, FilesStay DEF Live, Unmoved
<1>2. CASE read_line
  BY <1>2, FilesReads
<1>3. CASE leave \/ prompt \/ UNCHANGED shellVars
  BY <1>1, <1>3 DEF leave, prompt, shellVars, Storage
<1>4. ASSUME NEW p \in Pids, Step(p) PROVE FileInv'
  BY <1>4, FilesOperands, FilesForks, FilesWaits, FilesEnds, FilesPipes, FilesInternal,
     FilesIn, FilesOut, FilesErr, FilesWrite, FilesCat DEF Step
<1> QED  BY <1>2, <1>3, <1>4 DEF ShellNext

(* What the programs wrote to a file since redirect() truncated it is in   *)
(* the file, for all commands, redirections and interleavings, unless two  *)
(* processes had the file open at once: output and error output of one     *)
(* command share one description, or O_APPEND writes at the end.           *)
THEOREM OutputStays == ShellSpec => []OutputKept
<1> DEFINE I == ProcInv /\ FileInv
<1>1. ShellInit => I
  BY ProcInit, FilesInit
<1>2. I /\ [ShellNext]_shellVars => I'
  BY ProcStep, FilesStep
<1>3. I => OutputKept
  <2>1. InFile => OutputKept
    <3> SUFFICES ASSUME InFile, NEW f \in Files \ clash, written[f] # {}
                 PROVE  written[f] \subseteq ToSet(files[f])
      BY DEF OutputKept
    <3>1. IsSeq(files[f]) /\ written[f] \subseteq {files[f][i] : i \in 1 .. Len(files[f])}
      BY DEF InFile
    <3>2. DOMAIN files[f] = 1 .. Len(files[f])
      BY <3>1, IsSeqLen
    <3> QED  BY <3>1, <3>2 DEF ToSet
  <2> QED  BY <2>1 DEF FileInv
<1> HIDE DEF I
<1> QED  BY <1>1, <1>2, <1>3, PTL DEF ShellSpec
=============================================================================
