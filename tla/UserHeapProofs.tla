--------------------------- MODULE UserHeapProofs ---------------------------
(***************************************************************************)
(* Proofs about UserHeap for every page size, limit and program: the       *)
(* library and the kernel agree on the break, and malloc's heap is mapped. *)
(***************************************************************************)
EXTENDS UserHeap, TLAPS

(* Products are monotone, which the arithmetic of the provers does not     *)
(* find by itself.                                                         *)
LEMMA Times ==
  ASSUME NEW p \in Nat, NEW j \in Int, NEW k \in Int, j <= k
  PROVE  j * p <= k * p
<1>1. (k - j) * p >= 0
  <2>1. \A x, y \in Nat : x * y >= 0
    OBVIOUS
  <2>2. k - j \in Nat
    OBVIOUS
  <2> QED BY <2>1, <2>2
<1>2. (k - j) * p = k * p - j * p
  OBVIOUS
<1>3. j * p \in Int /\ k * p \in Int
  OBVIOUS
<1> QED BY <1>1, <1>2, <1>3

(* UpToPage rounds up: the page number it returns is the only one whose    *)
(* page ends at the address or less than a page above it.                  *)
LEMMA Rounds ==
  ASSUME NEW a \in Int
  PROVE  /\ UpToPage(a) \in Int
         /\ (UpToPage(a) - 1) * PAGESIZE < a /\ a <= UpToPage(a) * PAGESIZE
<1>1. PAGESIZE \in Nat \ {0}
  BY UserHeapAssumption
<1>2. \A x \in Int, d \in Nat \ {0} :
        /\ x \div d \in Int /\ x % d \in 0..d-1
        /\ x = d * (x \div d) + (x % d)
  OBVIOUS
<1> DEFINE k == UpToPage(a)
           r == (a + PAGESIZE - 1) % PAGESIZE
<1>3. /\ k \in Int /\ r \in 0..PAGESIZE-1
      /\ a + PAGESIZE - 1 = PAGESIZE * k + r
  BY <1>1, <1>2 DEF UpToPage
<1> HIDE DEF k, r
<1>4. (k - 1) * PAGESIZE = PAGESIZE * k - PAGESIZE /\ k * PAGESIZE = PAGESIZE * k /\ PAGESIZE * k \in Int
  BY <1>1, <1>3
<1>5. k \in Int /\ (k - 1) * PAGESIZE < a /\ a <= k * PAGESIZE
  BY <1>1, <1>3, <1>4
<1> QED BY <1>5 DEF k

(* The library's rounding to a double word only raises an address. *)
LEMMA DoubleWord ==
  ASSUME NEW a \in Int
  PROVE  UpToDoubleWord(a) \in Int /\ a <= UpToDoubleWord(a)
<1>1. a % 2 \in 0..1
  OBVIOUS
<1> QED BY <1>1 DEF UpToDoubleWord

----------------------------------------------------------------------------
(* HeapMapped with the page-rounded break replaced by the library's own.   *)
HeapBelowBreak ==
  heap_start # NULL /\ ~gave_back => heap_start <= heap_end /\ heap_end <= current_break

HeapInv == TypeOK /\ BreakAgrees /\ HeapBelowBreak

(* An address whose page the kernel accepts is a word that a break can be. *)
LEMMA WordOfPage ==
  ASSUME NEW a \in Int, UpToPage(a) \in 0..Limit
  PROVE  a \in Word
<1>1. PAGESIZE \in Nat /\ Limit \in Nat
  BY UserHeapAssumption
<1> DEFINE k == UpToPage(a)
<1>2. k \in 0..Limit /\ (k - 1) * PAGESIZE < a /\ a <= k * PAGESIZE
  BY Rounds
<1> HIDE DEF k
<1>3. k * PAGESIZE <= Limit * PAGESIZE /\ -1 * PAGESIZE <= (k - 1) * PAGESIZE
  BY <1>1, <1>2, Times
<1>4. /\ k * PAGESIZE \in Int /\ (k - 1) * PAGESIZE \in Int /\ Limit * PAGESIZE \in Int
      /\ -1 * PAGESIZE = -PAGESIZE
  BY <1>1, <1>2
<1> QED BY <1>1, <1>2, <1>3, <1>4 DEF Word

(* A call of brk_unlocked or of the kernel's brk that succeeds leaves both *)
(* breaks in agreement, and in region 1.                                   *)
LEMMA BreakMoves ==
  ASSUME HeapInv, NEW addr \in Int, current_break' = addr,
         Sets(addr) \/ SysBrk(addr)
  PROVE  /\ current_break' \in Word /\ brk' \in 0..Limit
         /\ brk' = UpToPage(current_break')
<1>1. /\ UpToPage(current_break) = brk /\ brk \in 0..Limit /\ Limit \in Nat
      /\ UpToPage(addr) \in Int
  BY Rounds, UserHeapAssumption DEF HeapInv, TypeOK, BreakAgrees
<1>2. brk' = UpToPage(addr) /\ brk' \in 0..Limit
  BY <1>1 DEF Sets, SysBrk, Accepts
<1> QED BY <1>2, WordOfPage

(* All addresses are integers. *)
LEMMA Addresses ==
  ASSUME HeapInv
  PROVE  /\ current_break \in Int /\ PAGESIZE \in Nat \ {0} /\ Limit \in Nat /\ Header \in Nat
         /\ heap_start \in Int /\ heap_end \in Int /\ PRE_STARTUP_HEAPSIZE \in Nat
         /\ Lens \subseteq Nat /\ Increments \subseteq Int /\ Addrs \subseteq Int
         /\ NULL \notin Word
<1>1. PAGESIZE \in Nat \ {0} /\ Limit \in Nat /\ Header \in Nat
      /\ Lens \subseteq Nat /\ Increments \subseteq Int /\ Addrs \subseteq Int
  BY UserHeapAssumption
<1>2. \A a \in Word : a \in Int /\ a > -PAGESIZE
  BY <1>1 DEF Word
<1>3. NULL \in Int /\ NULL \notin Word /\ PRE_STARTUP_HEAPSIZE \in Nat
  BY <1>1, <1>2 DEF NULL, PRE_STARTUP_HEAPSIZE
<1> QED BY <1>1, <1>2, <1>3 DEF HeapInv, TypeOK

(* A request for more heap is for an address above the heap's end. *)
LEMMA Requests ==
  ASSUME HeapInv, NEW len \in Lens
  PROVE  Request(len) \in Int /\ heap_end <= Request(len)
<1>1. /\ heap_end \in Int /\ len \in Nat /\ Header \in Nat /\ PAGESIZE \in Nat
      /\ heap_end + len + Header \in Int
  BY Addresses
<1>2. /\ UpToPage(heap_end + len + Header) \in Int
      /\ heap_end + len + Header <= UpToPage(heap_end + len + Header) * PAGESIZE
  BY <1>1, Rounds
<1> DEFINE k == UpToPage(heap_end + len + Header)
<1> HIDE DEF k
<1>3. k \in Int /\ k * PAGESIZE \in Int /\ heap_end + len + Header <= k * PAGESIZE
  BY <1>1, <1>2 DEF k
<1>4. heap_end <= k * PAGESIZE
  BY <1>1, <1>3
<1> QED BY <1>3, <1>4 DEF Request, k

(* The invariant holds at first. *)
LEMMA HeapInit == Init => HeapInv
<1> SUFFICES ASSUME Init
             PROVE  HeapInv
  OBVIOUS
<1>1. /\ PAGESIZE \in Nat \ {0} /\ Limit \in Nat /\ End \in Int
      /\ 0 <= End /\ End <= Limit * PAGESIZE /\ Limit * PAGESIZE \in Int
  BY UserHeapAssumption
<1> DEFINE k == UpToPage(End)
<1>2. k \in Int /\ (k - 1) * PAGESIZE < End /\ End <= k * PAGESIZE
  BY <1>1, Rounds
<1> HIDE DEF k
<1>3. k \in 0..Limit
  <2>1. ASSUME k <= -1
        PROVE  FALSE
    <3>1. k * PAGESIZE <= -1 * PAGESIZE
      BY <1>1, <1>2, <2>1, Times
    <3> QED BY <1>1, <1>2, <3>1
  <2>2. ASSUME Limit <= k - 1
        PROVE  FALSE
    <3>1. Limit * PAGESIZE <= (k - 1) * PAGESIZE
      BY <1>1, <1>2, <2>2, Times
    <3>2. (k - 1) * PAGESIZE \in Int
      BY <1>1, <1>2
    <3> QED BY <1>1, <1>2, <3>1, <3>2
  <2> QED BY <1>1, <1>2, <2>1, <2>2
<1>4. End \in Word
  BY <1>1, <1>3, WordOfPage DEF k
<1> QED BY <1>3, <1>4 DEF Init, HeapInv, TypeOK, BreakAgrees, HeapBelowBreak, k

(* Every step keeps it. *)
LEMMA HeapStep == HeapInv /\ [Next]_vars => HeapInv'
<1> SUFFICES ASSUME HeapInv, [Next]_vars
             PROVE  HeapInv'
  OBVIOUS
<1>0. /\ current_break \in Int /\ heap_start \in Int /\ heap_end \in Int
      /\ current_break \in Word /\ NULL \notin Word /\ PRE_STARTUP_HEAPSIZE \in Nat
      /\ Increments \subseteq Int /\ Addrs \subseteq Int
      /\ heap_start \in Word \cup {NULL} /\ heap_end \in Word \cup {NULL}
      /\ heap_start = NULL <=> heap_end = NULL
      /\ brk \in 0..Limit /\ brk = UpToPage(current_break)
  BY Addresses DEF HeapInv, TypeOK, BreakAgrees
<1>b. gave_back \in BOOLEAN
  BY DEF HeapInv, TypeOK
<1>1. ASSUME NEW addr \in Int, brk_unlocked(addr)
      PROVE  /\ current_break' \in Word /\ current_break' \in Int
             /\ brk' \in 0..Limit /\ brk' = UpToPage(current_break')
             /\ addr <= current_break'
  <2>1. /\ UpToDoubleWord(addr) \in Int /\ addr <= UpToDoubleWord(addr)
        /\ current_break' = UpToDoubleWord(addr) /\ Sets(UpToDoubleWord(addr))
    BY <1>1, DoubleWord DEF brk_unlocked
  <2> QED BY <2>1, BreakMoves
<1>2. CASE init_heap
  <2>1. gave_back' = gave_back /\ heap_start' = current_break /\ heap_start = NULL
    BY <1>2 DEF init_heap
  <2>2. CASE /\ brk_unlocked(current_break + PRE_STARTUP_HEAPSIZE)
             /\ heap_end' = current_break'
    <3>1. /\ current_break' \in Word /\ current_break' \in Int
          /\ brk' \in 0..Limit /\ brk' = UpToPage(current_break')
          /\ current_break + PRE_STARTUP_HEAPSIZE <= current_break'
      BY <1>0, <1>1, <2>2
    <3>2. current_break <= current_break'
      BY <1>0, <3>1
    <3>3. gave_back' \in BOOLEAN
      BY <1>b, <2>1
    <3> QED BY <1>0, <2>1, <2>2, <3>1, <3>2, <3>3 DEF HeapInv, TypeOK, BreakAgrees, HeapBelowBreak
  <2>3. CASE heap_end' = current_break /\ UNCHANGED <<current_break, brk>>
    <3>1. gave_back' \in BOOLEAN
      BY <1>b, <2>1
    <3> QED BY <1>0, <2>1, <2>3, <3>1 DEF HeapInv, TypeOK, BreakAgrees, HeapBelowBreak
  <2> QED BY <1>2, <2>2, <2>3 DEF init_heap
<1>3. ASSUME NEW len \in Lens, grow_heap(len)
      PROVE  HeapInv'
  <2>1. /\ heap_start # NULL /\ brk_unlocked(Request(len)) /\ heap_end' = current_break'
        /\ UNCHANGED <<heap_start, gave_back>>
    BY <1>3 DEF grow_heap
  <2>2. /\ current_break' \in Word /\ current_break' \in Int
        /\ brk' \in 0..Limit /\ brk' = UpToPage(current_break')
        /\ Request(len) \in Int /\ Request(len) <= current_break' /\ heap_end <= Request(len)
    BY <1>1, <2>1, Requests
  <2>3. HeapBelowBreak'
    BY <1>0, <2>1, <2>2 DEF HeapInv, HeapBelowBreak
  <2>4. gave_back' \in BOOLEAN
    BY <1>b, <2>1
  <2> QED BY <1>0, <2>1, <2>2, <2>3, <2>4 DEF HeapInv, TypeOK, BreakAgrees
<1>4. ASSUME NEW addr \in Int, brk_unlocked(addr) \/ Brk(addr), GivesBack(addr), UNCHANGED heap
      PROVE  HeapInv'
  <2>1. /\ current_break' \in Word /\ current_break' \in Int
        /\ brk' \in 0..Limit /\ brk' = UpToPage(current_break')
        /\ addr <= current_break'
    BY <1>1, <1>4, BreakMoves DEF Brk
  <2>2. UNCHANGED <<heap_start, heap_end>>
    BY <1>4 DEF heap
  <2>3. gave_back' \in BOOLEAN /\ (gave_back' <=> gave_back \/ addr < current_break)
    BY <1>4 DEF GivesBack
  <2>4. ASSUME heap_start # NULL, ~gave_back'
        PROVE  heap_start <= heap_end /\ heap_end <= current_break'
    <3>1. ~gave_back /\ ~(addr < current_break)
      BY <2>3, <2>4
    <3>2. heap_start <= heap_end /\ heap_end <= current_break
      BY <2>4, <3>1 DEF HeapInv, HeapBelowBreak
    <3> QED BY <1>0, <2>1, <3>1, <3>2
  <2>5. HeapBelowBreak'
    BY <2>2, <2>4 DEF HeapBelowBreak
  <2> QED BY <1>0, <2>1, <2>2, <2>3, <2>5 DEF HeapInv, TypeOK, BreakAgrees
<1>5. ASSUME NEW incr \in Increments, sbrk(incr)
      PROVE  HeapInv'
  <2>1. current_break + incr \in Int
    BY <1>0
  <2> QED BY <1>4, <1>5, <2>1 DEF sbrk
<1>6. ASSUME NEW addr \in Addrs, user_brk(addr) \/ Brk(addr)
      PROVE  HeapInv'
  BY <1>0, <1>4, <1>6 DEF user_brk, Brk
<1>7. CASE UNCHANGED vars
  BY <1>7 DEF vars, HeapInv, TypeOK, BreakAgrees, HeapBelowBreak
<1> QED BY <1>2, <1>3, <1>5, <1>6, <1>7 DEF Next

(* It holds of every state. *)
LEMMA HeapAlways == Spec => []HeapInv
BY HeapInit, HeapStep, PTL DEF Spec

(* Breaks and the heap lie in region 1, for every page size and limit. *)
THEOREM HeapTypes == Spec => []TypeOK
<1>1. HeapInv => TypeOK
  BY DEF HeapInv
<1> QED BY <1>1, HeapAlways, PTL

(* The library and the kernel agree on the last page below the break,      *)
(* whatever the program passes to sbrk, brk and Brk.                       *)
THEOREM BreakCorrect == Spec => []BreakAgrees
<1>1. HeapInv => BreakAgrees
  BY DEF HeapInv
<1> QED BY <1>1, HeapAlways, PTL

(* Unless the program lowers the break itself, malloc's heap is mapped.    *)
THEOREM HeapCorrect == Spec => []HeapMapped
<1>1. HeapInv => HeapMapped
  <2> SUFFICES ASSUME HeapInv, heap_start # NULL, ~gave_back
               PROVE  /\ heap_start <= heap_end /\ heap_end <= current_break
                      /\ heap_end <= brk * PAGESIZE
    BY DEF HeapMapped
  <2>1. heap_start <= heap_end /\ heap_end <= current_break
    BY DEF HeapInv, HeapBelowBreak
  <2>2. /\ current_break \in Int /\ heap_end \in Int /\ PAGESIZE \in Nat
        /\ brk = UpToPage(current_break)
    BY Addresses DEF HeapInv, BreakAgrees
  <2>3. current_break <= brk * PAGESIZE /\ brk \in Int
    BY <2>2, Rounds
  <2>4. brk * PAGESIZE \in Int
    BY <2>2, <2>3
  <2> QED BY <2>1, <2>2, <2>3, <2>4
<1> QED BY <1>1, HeapAlways, PTL
=============================================================================
