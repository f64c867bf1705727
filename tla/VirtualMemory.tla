--------------------------- MODULE VirtualMemory ---------------------------
(***************************************************************************)
(* The virtual memory library VirtualMemoryLinux/src/tema-mv.c: a range of *)
(* virtual pages, backed by a file that plays the RAM and one that plays   *)
(* the swap, and the SIGSEGV handler that maps, protects and swaps pages.  *)
(*                                                                         *)
(* A page's contents is one value; the program stores in every page a      *)
(* value of its own, so that a mix-up of pages shows.  An access repeats   *)
(* its fault until the protection of the page allows it.                   *)
(***************************************************************************)
EXTENDS Integers, FiniteSets, FiniteSetsExt

CONSTANTS
    ram_pages,  \* phys_pages given to vinit
    virt_pages  \* virt_pages given to vinit (__swap_pages in the code)

MAX_PHYSICAL_PAGES == 20
MAX_VIRTUAL_PAGES == 50

ASSUME SizesAssumption ==
    /\ ram_pages \in Nat \ {0} /\ ram_pages <= MAX_PHYSICAL_PAGES
    /\ virt_pages \in ram_pages..MAX_VIRTUAL_PAGES

Zero == 0               \* a page of zeros: the array `buffer'
Junk == -2              \* what malloc leaves in buffer1
None == -1

Pages == 0..virt_pages + ram_pages - 1     \* indices of pages_info
UserPages == 0..virt_pages - 1             \* pages of the range vinit returns
Value(p) == p + 1                          \* what the program stores in page p
Contents == {Value(p) : p \in UserPages} \cup {Zero, Junk}

VARIABLES
    phase,      \* "new", "up", "ended" or "exited" (a CHECK has failed)
    pages_info, \* the page records
    mapping,    \* what each virtual page is mapped to, and its protection
    ram,        \* contents of the RAM file, a function on 0..size-1
    swap,       \* contents of the swap file
    buffer1,
    access,     \* the access the program is executing
    stored,     \* history: the value the program stored last in each page
    evicted,    \* history: pages that have left the RAM since that store
    ordered     \* history: pages were touched first in ascending order

mem == <<pages_info, mapping, ram, swap, buffer1>>
history == <<stored, evicted, ordered>>
vars == <<phase, mem, access, history>>

Record == [id_real : Pages \cup {None}, id_swap : Pages \cup {None},
           info : {"NONE", "RAM_READ", "RAM_WRITE", "SWAP"}, dirty : BOOLEAN, swaped : BOOLEAN]
Mapping == [file : {"none", "ram", "swap"}, off : Pages, prot : {"none", "read", "write"}]
Unmapped == [file |-> "none", off |-> 0, prot |-> "none"]
NoAccess == [kind |-> "none", page |-> 0]

TypeOK ==
    /\ phase \in {"new", "up", "ended", "exited"}
    /\ pages_info \in [Pages -> Record]
    /\ mapping \in [Pages -> Mapping]
    /\ \E n \in ram_pages..Cardinality(Pages) : ram \in [0..n - 1 -> Contents]
    /\ swap \in [0..virt_pages - 1 -> Contents]
    /\ buffer1 \in Contents
    /\ access \in [kind : {"none", "load", "store"}, page : UserPages]

Fresh == [id_real |-> None, id_swap |-> None, info |-> "NONE", dirty |-> FALSE, swaped |-> FALSE]

Init ==
    /\ phase = "new"
    /\ pages_info = [p \in Pages |-> Fresh] /\ mapping = [p \in Pages |-> Unmapped]
    /\ ram = [i \in 0..ram_pages - 1 |-> Zero] /\ swap = [i \in 0..virt_pages - 1 |-> Zero]
    /\ buffer1 = Junk /\ access = NoAccess
    /\ stored = [p \in UserPages |-> Zero] /\ evicted = {} /\ ordered = TRUE

(* vinit: both files are truncated and filled with zeros, no page is in    *)
(* use, and the handler is installed.                                      *)
vinit ==
    /\ phase \in {"new", "ended"}
    /\ phase' = "up"
    /\ pages_info' = [p \in Pages |-> Fresh] /\ mapping' = [p \in Pages |-> Unmapped]
    /\ ram' = [i \in 0..ram_pages - 1 |-> Zero] /\ swap' = [i \in 0..virt_pages - 1 |-> Zero]
    /\ buffer1' = Junk /\ access' = NoAccess
    /\ stored' = [p \in UserPages |-> Zero] /\ evicted' = {} /\ ordered' = TRUE

(* vend; before vinit it returns -1.                                       *)
vend ==
    /\ phase = "up" /\ access = NoAccess
    /\ phase' = "ended"
    /\ UNCHANGED <<mem, access, history>>

---------------------------------------------------------------------------
(* The searches through pages_info; None when there is no such page.       *)

First(S) == IF S = {} THEN None ELSE Min(S)

(* A frame counts as free when the virtual page of its number is unused.   *)
search_free_page_ram_any == First({i \in 0..ram_pages - 1 : TRUE})
search_free_page_ram == First({i \in 0..ram_pages - 1 : pages_info[i].info = "NONE"})

search_free_page_swap == First({i \in 0..virt_pages - 1 : pages_info[i + ram_pages].info = "NONE"})

search_page_id_ram(page_real) == First({i \in Pages : pages_info[i].id_real = page_real})

---------------------------------------------------------------------------
(* File operations: reading past the end leaves the buffer as it was, and  *)
(* writing past the end makes the file grow, with zeros in the gap.        *)

pread(f, off, buf) == IF off \in DOMAIN f THEN f[off] ELSE buf
pwrite(f, off, v) ==
    [i \in DOMAIN f \cup 0..off |-> IF i = off THEN v ELSE IF i \in DOMAIN f THEN f[i] ELSE Zero]

mmap(file, off, prot) == [file |-> file, off |-> off, prot |-> prot]

(* The record of a page that comes into the frame of `victim', and the     *)
(* record of the victim, for which `slot' is the place in the swap: a page *)
(* that is clean and was in the swap before takes over its id_real, which  *)
(* has just been reset.                                                    *)
incoming(old, victim) ==
    [old EXCEPT !.info = "RAM_READ", !.id_real = victim.id_real, !.id_swap = None, !.dirty = FALSE]
outgoing_keeps_frame(victim, slot) ==
    [victim EXCEPT !.info = "SWAP", !.id_swap = slot, !.swaped = TRUE]
outgoing(victim, slot) ==
    LET kept == ~victim.dirty /\ victim.swaped
    IN [victim EXCEPT !.info = "SWAP", !.id_real = None, !.id_swap = IF kept THEN None ELSE slot,
                      !.swaped = TRUE]

(* swap_data(ram_id, swap_id, 0): page ram_id goes out and page            *)
(* swap_id + ram_pages comes in, a page of zeros.  The RAM is addressed by *)
(* the number of the virtual page.                                         *)
swap_data(ram_id, swap_id) ==
    LET new == swap_id + ram_pages
        buf == IF pages_info[ram_id].dirty THEN pread(ram, ram_id, buffer1)
                                           ELSE pread(swap, new, buffer1)
    IN /\ pages_info' = [pages_info EXCEPT ![new] = incoming(@, pages_info[ram_id]),
                                           ![ram_id] = outgoing(@, swap_id)]
       /\ buffer1' = buf
       /\ swap' = pwrite(swap, new, buf)
       /\ ram' = pwrite(ram, ram_id, Zero)
       /\ mapping' = [mapping EXCEPT ![ram_id] = mmap("swap", new, "none"),
                                     ![new] = mmap("ram", ram_id, "read")]
       /\ evicted' = evicted \cup {ram_id}
       /\ UNCHANGED phase

(* swap_data_swap(ram_page_id, swap_page_id): both pages change places.    *)
(* The place in the swap is lost for a page that was swapped out clean for *)
(* the second time; mmap then fails and CHECK ends the program.            *)
swap_data_swap(ram_page_id, swap_page_id) ==
    LET swap_id == pages_info[swap_page_id].id_swap
        ram_id == pages_info[ram_page_id].id_real
        out == outgoing(pages_info[ram_page_id], swap_id)
        info == [pages_info EXCEPT ![swap_page_id] = incoming(@, pages_info[ram_page_id]),
                                   ![ram_page_id] = out]
        buf == IF info[ram_id].dirty THEN pread(ram, ram_id, buffer1)
                                     ELSE pread(swap, ram_id, buffer1)
    IN IF swap_id = None
       THEN phase' = "exited" /\ UNCHANGED <<mem, evicted>>
       ELSE /\ pages_info' = info
            /\ buffer1' = buf
            /\ swap' = pwrite(swap, swap_id, buf)
            /\ ram' = pwrite(ram, ram_id, swap[swap_id])
            /\ mapping' = [mapping EXCEPT ![ram_page_id] = mmap("swap", swap_id, "none"),
                                          ![swap_page_id] = mmap("ram", ram_id, "read")]
            /\ evicted' = evicted \cup {ram_page_id}
            /\ UNCHANGED phase

---------------------------------------------------------------------------
(* sigsegv_handler, one disjunct per state of the page. *)

(* A page is used for the first time and there is room in the RAM.         *)
map_new(page) ==
    LET frame == search_free_page_ram
    IN /\ frame # None
       /\ pages_info' = [pages_info EXCEPT ![page].id_real = frame, ![page].id_swap = None,
                                           ![page].info = "RAM_READ", ![page].dirty = FALSE]
       /\ ram' = pwrite(ram, frame, Zero)
       /\ mapping' = [mapping EXCEPT ![page] = mmap("ram", frame, "read")]
       /\ UNCHANGED <<phase, swap, buffer1, evicted>>

(* There is no room: the page in frame 0 makes place for the first unused  *)
(* page, which need not be this one; the access faults again until it is.  *)
swap_new(page) ==
    /\ search_free_page_ram = None
    /\ swap_data(search_page_id_ram(0), search_free_page_swap)

fault_none(page) ==
    /\ pages_info[page].info = "NONE"
    /\ map_new(page) \/ swap_new(page)
    /\ ordered' = (ordered /\ \A q \in 0..page - 1 : pages_info[q].info # "NONE")

fault_read_no_mprotect(page) ==
    /\ pages_info[page].info = "RAM_READ"
    /\ pages_info' = [pages_info EXCEPT ![page].dirty = TRUE]
    /\ UNCHANGED <<phase, mapping, ram, swap, buffer1, evicted, ordered>>
fault_read(page) ==
    /\ pages_info[page].info = "RAM_READ"
    /\ pages_info' = [pages_info EXCEPT ![page].info = "RAM_WRITE", ![page].dirty = TRUE]
    /\ mapping' = [mapping EXCEPT ![page].prot = "write"]
    /\ UNCHANGED <<phase, ram, swap, buffer1, evicted, ordered>>

fault_swap(page) ==
    /\ pages_info[page].info = "SWAP"
    /\ swap_data_swap(search_page_id_ram(0), page)
    /\ UNCHANGED ordered

allowed(a) ==
    mapping[a.page].prot \in IF a.kind = "load" THEN {"read", "write"} ELSE {"write"}

sigsegv_handler ==
    /\ phase = "up" /\ access # NoAccess /\ ~allowed(access)
    /\ fault_none(access.page) \/ fault_read(access.page) \/ fault_swap(access.page)
    /\ UNCHANGED <<access, stored>>

---------------------------------------------------------------------------
(* The program. *)

begin ==
    /\ phase = "up" /\ access = NoAccess
    /\ \E kind \in {"load", "store"}, p \in UserPages : access' = [kind |-> kind, page |-> p]
    /\ UNCHANGED <<phase, mem, history>>

contents(p) == IF mapping[p].file = "ram" THEN ram[mapping[p].off] ELSE swap[mapping[p].off]

complete ==
    /\ phase = "up" /\ access # NoAccess /\ allowed(access)
    /\ IF access.kind = "store"
       THEN /\ ram' = [ram EXCEPT ![mapping[access.page].off] = Value(access.page)]
            /\ stored' = [stored EXCEPT ![access.page] = Value(access.page)]
            /\ evicted' = evicted \ {access.page}
       ELSE UNCHANGED <<ram, stored, evicted>>
    /\ access' = NoAccess
    /\ UNCHANGED <<phase, pages_info, mapping, swap, buffer1, ordered>>

Next == vinit \/ vend \/ begin \/ sigsegv_handler \/ complete

(* The faulting instruction is executed again when the handler returns.    *)
Spec == Init /\ [][Next]_vars /\ WF_vars(sigsegv_handler) /\ WF_vars(complete)

---------------------------------------------------------------------------
(* Properties. *)

InRAM(p) == pages_info[p].info \in {"RAM_READ", "RAM_WRITE"}

(* The page table is sound: the ids exclude each other, exactly the pages  *)
(* in RAM have a frame and a RAM mapping, frame 0 has an owner as soon as  *)
(* a page is in RAM (so the handler always finds its victim), and pages    *)
(* touched first in ascending order never share a frame or a place in the  *)
(* RAM file.                                                               *)
PageTableSound ==
    /\ \A p \in Pages :
          /\ pages_info[p].id_real = None \/ pages_info[p].id_swap = None
          /\ InRAM(p) <=> pages_info[p].id_real # None
          /\ InRAM(p) <=> mapping[p].file = "ram"
    /\ (\E p \in Pages : InRAM(p)) => search_page_id_ram(0) # None
    /\ ordered => \A p, q \in {r \in Pages : InRAM(r)} : p # q =>
          /\ pages_info[p].id_real # pages_info[q].id_real
          /\ mapping[p].off # mapping[q].off

(* A page that has not left the RAM since the program stored in it holds   *)
(* what was stored, and a page that was never stored in is zero until it   *)
(* leaves the RAM, whatever is swapped around it (pages touched first in   *)
(* ascending order).                                                       *)
ResidentKeepsData ==
    ordered => \A p \in UserPages \ evicted : InRAM(p) => contents(p) = stored[p]

(* Every access of the program completes after finitely many faults, or a  *)
(* CHECK ends the program.                                                 *)
AccessCompletes == access # NoAccess ~> (access = NoAccess \/ phase = "exited")
=============================================================================
