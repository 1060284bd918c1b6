------------------------------ MODULE UserHeap ------------------------------
(***************************************************************************)
(* The break of a user program as the user library keeps it: current_break *)
(* in the library, the page-rounded break in the kernel, and the heap that *)
(* the library's malloc extends with init_heap and grow_heap, beside a     *)
(* program that moves the break itself with sbrk, brk and Brk.  (malloc is *)
(* common code that is not part of the repository: it calls init_heap once *)
(* and grow_heap when no block is large enough.)                           *)
(*                                                                         *)
(* Addresses count words of four bytes from the base of region 1.          *)
(***************************************************************************)
EXTENDS Integers

CONSTANTS
  PAGESIZE,   \* words of a page
  Limit,      \* region_1_sp in pages: the kernel refuses a higher break
  End,        \* _end: where the linked program ends
  Header,     \* sizeof(mblock_t)
  Lens,       \* the lengths malloc asks grow_heap for
  Increments, \* what the program passes to sbrk
  Addrs       \* what the program passes to brk and Brk

ASSUME UserHeapAssumption ==
  /\ PAGESIZE \in Nat \ {0} /\ PAGESIZE % 2 = 0
  /\ Limit \in Nat /\ Header \in Nat /\ End \in 0..(Limit * PAGESIZE) /\ End % 2 = 0
  /\ Lens \subseteq Nat /\ Increments \subseteq Int /\ Addrs \subseteq Int

VARIABLES
  current_break,
  brk,                   \* in the kernel, in pages
  heap_start, heap_end,  \* of malloc's heap; NULL before init_heap
  gave_back              \* history: the program has lowered the break itself

vars == <<current_break, brk, heap_start, heap_end, gave_back>>
heap == <<heap_start, heap_end>>

NULL == -PAGESIZE  \* no address that a break can have
PRE_STARTUP_HEAPSIZE == 4 * PAGESIZE
UpToDoubleWord(a) == a + (a % 2)
UpToPage(a) == (a + PAGESIZE - 1) \div PAGESIZE

Init ==
  /\ current_break = End /\ brk = UpToPage(End)
  /\ heap_start = NULL /\ heap_end = NULL
  /\ gave_back = FALSE

(* The kernel accepts a break between the base of region 1 and the stack.  *)
Accepts(page) == 0 <= page /\ page <= Limit

SysBrk(addr) == Accepts(UpToPage(addr)) /\ brk' = UpToPage(addr)

(* Wrong: enters the kernel only to raise the break. *)
SetsUnlessLower(addr) ==
  \/ UpToPage(addr) <= UpToPage(current_break) /\ UNCHANGED brk
  \/ UpToPage(addr) > UpToPage(current_break) /\ SysBrk(addr)

(* The new break, rounded, goes to the kernel only if the page it lies in  *)
(* is another than that of the old one.                                    *)
Sets(addr) ==
  \/ UpToPage(addr) = UpToPage(current_break) /\ UNCHANGED brk
  \/ UpToPage(addr) # UpToPage(current_break) /\ SysBrk(addr)

brk_unlocked(addr) ==
  LET new == UpToDoubleWord(addr) IN Sets(new) /\ current_break' = new

Fails(addr) ==
  LET page == UpToPage(UpToDoubleWord(addr)) IN
  page # UpToPage(current_break) /\ ~Accepts(page)

GivesBack(addr) == gave_back' = (gave_back \/ addr < current_break)
----------------------------------------------------------------------------
init_heap ==
  /\ heap_start = NULL
  /\ heap_start' = current_break
  /\ \/ /\ brk_unlocked(current_break + PRE_STARTUP_HEAPSIZE)
        /\ heap_end' = current_break'
     \/ /\ Fails(current_break + PRE_STARTUP_HEAPSIZE)
        /\ heap_end' = current_break /\ UNCHANGED <<current_break, brk>>
  /\ UNCHANGED gave_back

Request(len) == UpToPage(heap_end + len + Header) * PAGESIZE

(* Wrong: a failure of brk goes unnoticed. *)
grow_heapUnchecked(len) ==
  /\ heap_start # NULL
  /\ IF Fails(Request(len)) THEN UNCHANGED <<current_break, brk>> ELSE brk_unlocked(Request(len))
  /\ heap_end' = Request(len)
  /\ UNCHANGED <<heap_start, gave_back>>
grow_heap(len) ==
  /\ heap_start # NULL
  /\ brk_unlocked(Request(len))
  /\ heap_end' = current_break'
  /\ UNCHANGED <<heap_start, gave_back>>

sbrk(incr) ==
  /\ incr # 0
  /\ brk_unlocked(current_break + incr)
  /\ GivesBack(current_break + incr)
  /\ UNCHANGED heap

user_brk(addr) == brk_unlocked(addr) /\ GivesBack(addr) /\ UNCHANGED heap

(* Brk goes to the kernel without rounding, and whatever the page. *)
Brk(addr) ==
  /\ SysBrk(addr) /\ current_break' = addr
  /\ GivesBack(addr) /\ UNCHANGED heap

Next ==
  \/ init_heap
  \/ \E len \in Lens : grow_heap(len)
  \/ \E incr \in Increments : sbrk(incr)
  \/ \E addr \in Addrs : user_brk(addr) \/ Brk(addr)

Spec == Init /\ [][Next]_vars
----------------------------------------------------------------------------
(* Breaks and the heap lie in region 1, below the stack, except that the   *)
(* kernel lets the break down into the page below region 1, which it       *)
(* rounds up.                                                              *)
Word == (1 - PAGESIZE)..(Limit * PAGESIZE)
TypeOK ==
  /\ current_break \in Word /\ brk \in 0..Limit
  /\ heap_start \in Word \cup {NULL} /\ heap_end \in Word \cup {NULL}
  /\ heap_start = NULL <=> heap_end = NULL
  /\ gave_back \in BOOLEAN

(* The library and the kernel agree on the last page below the break,      *)
(* though the library skips most calls and Brk bypasses its rounding: so a *)
(* break in the same page may be moved without the kernel.                 *)
BreakAgrees == UpToPage(current_break) = brk

(* Unless the program itself lowers the break, all of malloc's heap lies   *)
(* below the break and is mapped: malloc and a program that raises the     *)
(* break on its own get along as far as the heap is concerned.             *)
HeapMapped ==
  heap_start # NULL /\ ~gave_back =>
    /\ heap_start <= heap_end /\ heap_end <= current_break
    /\ heap_end <= brk * PAGESIZE
=============================================================================
