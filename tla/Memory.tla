------------------------------- MODULE Memory -------------------------------
(***************************************************************************)
(* The memory of the Yalnix kernel: the physical frames, the page table of *)
(* the kernel with its heap and the kernel stack, and the region 1 page    *)
(* table, break and stack pointer of every process, as fork, exec, exit,   *)
(* brk, the stack fault, the context switch and the kernel's own malloc    *)
(* change them.                                                            *)
(*                                                                         *)
(* Addresses are page numbers: 0..PTLen-1 in region 0 and PTLen..2*PTLen-1 *)
(* in region 1.  Which process runs next is left open (Process decides).   *)
(***************************************************************************)
EXTENDS Integers, FiniteSets

CONSTANTS
  MaxPid,      \* bound on the processes created
  NFrames,     \* n_frames: frames of physical memory
  PTLen,       \* MAX_PT_LEN: pages of each region (the machine has 128)
  KernelPages, \* pages of kernel text, data and boot heap
  HeapMax,     \* the highest break the kernel's malloc asks for
  Breaks,      \* the addresses that programs pass to Brk
  Programs     \* the executables: where their sections start, and their sizes

ASSUME MemoryAssumption ==
  /\ MaxPid \in Nat /\ MaxPid >= 1
  /\ PTLen \in Nat /\ NFrames \in Nat /\ KernelPages \in Nat /\ HeapMax \in Nat
  /\ 0 < KernelPages /\ KernelPages <= HeapMax /\ HeapMax <= PTLen - 3
  /\ PTLen + 5 <= NFrames
  /\ Breaks \subseteq Nat
  /\ \A im \in Programs :
       /\ im.text_pg1 = 0 /\ im.t_npg \in Nat \ {0}
       /\ im.data_pg1 = im.t_npg /\ im.data_npg \in Nat /\ im.stack_npg \in Nat \ {0}

IDLE  == 0
INIT  == 1
Pid   == 0..MaxPid
Frame == 0..NFrames-1
Page  == 0..PTLen-1

VMEM_1_BASE  == PTLen
VMEM_1_LIMIT == 2 * PTLen
Address      == VMEM_1_BASE..VMEM_1_LIMIT

(* The two pages of the kernel stack, and the two below them that fork and *)
(* KCCopy map for a moment to write into a frame of another process.       *)
StackPages  == <<PTLen - 1, PTLen - 2>>
WindowPages == <<PTLen - 3, PTLen - 4>>

VARIABLES
  used,              \* the frames marked 1 in mem_frames.bit_arr
  kernel_page_table,
  KERNEL_BRK,
  curr_pcb,
  next_pid,
  alive,             \* the processes created and not exited
  user_page_table,   \* of each process
  brk, region_1_sp,
  kernel_stack,      \* of each process not running: its two frames
  image,             \* of each process: "none", the "whole" program, or "part" of it
  fault,             \* how the kernel left defined behaviour, or "none"
  window_hit         \* history: the windows of a copy have unmapped a page of the heap

kernel  == <<kernel_page_table, KERNEL_BRK, kernel_stack>>
process == <<curr_pcb, next_pid, alive>>
user    == <<user_page_table, brk, region_1_sp, image>>
vars    == <<used, kernel, process, user, fault, window_hit>>

Unmapped == [valid |-> FALSE, prot |-> "none", pfn |-> 0]
Mapped(frame, prot) == [valid |-> TRUE, prot |-> prot, pfn |-> frame]
KernelPage(frame) == [valid |-> TRUE, pfn |-> frame]
NoKernelPage      == [valid |-> FALSE, pfn |-> 0]
EmptyTable == [i \in Page |-> Unmapped]
ValidPages(table) == {i \in Page : table[i].valid}
FramesOf(table) == {table[i].pfn : i \in ValidPages(table)}

(* first_free_frame_idx, called several times in a row while the frames of *)
(* `free' are free: call number k (from 0) returns the free frame that has *)
(* k free ones below it.                                                   *)
Free == Frame \ used
Below(free, f) == Cardinality({g \in free : g < f})
HasFrames(free, n) == \A k \in 0..n-1 : \E f \in free : Below(free, f) = k
first_free_frame_idx(free, k) == CHOOSE f \in free : Below(free, f) = k
Taken(free, n) == {first_free_frame_idx(free, k) : k \in 0..n-1}

(* Page i of `pages', filled lowest page first, gets this frame when `skip' *)
(* frames were taken before.                                                *)
FrameFor(free, skip, pages, i) ==
  first_free_frame_idx(free, skip + Cardinality({j \in pages : j < i}))

(* Without a free frame first_free_frame_idx reads and writes beyond the   *)
(* end of bit_arr, and what follows is undefined.                          *)
OutOfFrames ==
  /\ fault' = "exhausted"
  /\ UNCHANGED <<used, kernel, process, user, window_hit>>

RunsProgram == curr_pcb # IDLE /\ ValidPages(user_page_table[curr_pcb]) # {}
----------------------------------------------------------------------------
(* KernelStart: kernel text, data and heap, and the kernel stack, mapped to *)
(* the frames of the same number; one frame for idle's user stack; for init *)
(* a kernel stack from create_process, then another from KCCopy, which      *)
(* replaces the first.                                                      *)
BootFrames == (0..KernelPages-1) \cup {PTLen - 2, PTLen - 1}

Init ==
  LET free == Frame \ BootFrames
      new(k) == first_free_frame_idx(free, k) IN
  /\ HasFrames(free, 5)
  /\ used = BootFrames \cup Taken(free, 5)
  /\ kernel_page_table = [i \in Page |->
       IF i \in {WindowPages[1], WindowPages[2]} THEN NoKernelPage
       ELSE IF i \in BootFrames THEN KernelPage(i)
       ELSE [NoKernelPage EXCEPT !.pfn = i]]
  /\ KERNEL_BRK = KernelPages
  /\ curr_pcb = IDLE /\ next_pid = INIT + 1 /\ alive = {IDLE, INIT}
  /\ user_page_table = [p \in Pid |->
       IF p = IDLE THEN [EmptyTable EXCEPT ![PTLen - 1] = Mapped(new(0), "rw")] ELSE EmptyTable]
  /\ brk = [p \in Pid |-> VMEM_1_BASE]
  /\ region_1_sp = [p \in Pid |-> VMEM_1_LIMIT]
  /\ kernel_stack = [p \in Pid |-> IF p = INIT THEN <<new(3), new(4)>> ELSE <<0, 0>>]
  /\ image = [p \in Pid |-> "none"]
  /\ fault = "none" /\ window_hit = (WindowPages[2] < KernelPages)

----------------------------------------------------------------------------
(* The kernel's malloc and free move the kernel break through SetKernelBrk; *)
(* `top' is the new break rounded up to a page.                             *)
(* Wrong: the frames of a lowered heap stay mapped.                         *)
LowerUnmapsNothing(top) == kernel_page_table
LowerUnmaps(top) ==
  [i \in Page |-> IF top <= i /\ i < KERNEL_BRK THEN NoKernelPage ELSE kernel_page_table[i]]

SetKernelBrk(top) ==
  LET new == {i \in Page : KERNEL_BRK <= i /\ i < top}
      old == {i \in Page : top <= i /\ i < KERNEL_BRK} IN
  /\ top # KERNEL_BRK
  /\ \/ /\ new # {} /\ HasFrames(Free, Cardinality(new))
        /\ kernel_page_table' = [i \in Page |->
             IF i \in new THEN KernelPage(FrameFor(Free, 0, new, i)) ELSE kernel_page_table[i]]
        /\ used' = used \cup Taken(Free, Cardinality(new))
        /\ KERNEL_BRK' = top /\ UNCHANGED <<kernel_stack, process, user, fault, window_hit>>
     \/ /\ new # {} /\ ~HasFrames(Free, Cardinality(new)) /\ OutOfFrames
     \/ /\ old # {}
        /\ used' = used \ {kernel_page_table[i].pfn : i \in old}
        /\ kernel_page_table' = LowerUnmaps(top)
        /\ KERNEL_BRK' = top /\ UNCHANGED <<kernel_stack, process, user, fault, window_hit>>

(* Wrong: the running process's stack is not saved. *)
SavedNothing(q) == kernel_stack
(* KCSwitch: the frames under the kernel stack become those of the next    *)
(* process.                                                                *)
SavedStack(q) ==
  [kernel_stack EXCEPT ![curr_pcb] =
     <<kernel_page_table[StackPages[1]].pfn, kernel_page_table[StackPages[2]].pfn>>]

KCSwitch(q) ==
  /\ kernel_stack' = SavedStack(q)
  /\ kernel_page_table' = [kernel_page_table EXCEPT
       ![StackPages[1]] = KernelPage(kernel_stack[q][1]),
       ![StackPages[2]] = KernelPage(kernel_stack[q][2])]
  /\ curr_pcb' = q

(* A switch of a process to itself changes nothing and is left out. *)
switch_to_next_ready_process(q) ==
  /\ q \in alive \ {curr_pcb}
  /\ KCSwitch(q)
  /\ UNCHANGED <<used, KERNEL_BRK, next_pid, alive, user, fault, window_hit>>

(* Wrong: the process that exits is not switched out. *)
KernelExitReturns(q) ==
  /\ RunsProgram
  /\ q \in alive \ {curr_pcb}
  /\ alive' = alive \ {curr_pcb}
  /\ user_page_table' = [user_page_table EXCEPT ![curr_pcb] = EmptyTable]
  /\ UNCHANGED <<used, kernel, curr_pcb, next_pid, brk, region_1_sp, image, fault, window_hit>>
(* KernelExit frees the page table, and no frame. *)
KernelExit(q) ==
  /\ RunsProgram
  /\ q \in alive \ {curr_pcb}
  /\ alive' = alive \ {curr_pcb}
  /\ user_page_table' = [user_page_table EXCEPT ![curr_pcb] = EmptyTable]
  /\ KCSwitch(q)
  /\ UNCHANGED <<used, KERNEL_BRK, next_pid, brk, region_1_sp, image, fault, window_hit>>

----------------------------------------------------------------------------
(* Fork: two frames for a kernel stack, one for each valid page of the     *)
(* caller, and two more for the kernel stack that KCCopy clones, which     *)
(* replaces the first.  The break and the stack pointer of the child are   *)
(* those create_process has set.                                           *)
(* Wrong: the child's pages are the parent's.                              *)
SharedTable(pages) == user_page_table[curr_pcb]
CopiedTable(pages) ==
  LET table == user_page_table[curr_pcb] IN
  [i \in Page |-> IF i \in pages THEN Mapped(FrameFor(Free, 2, pages, i), table[i].prot)
                                 ELSE Unmapped]

ClonedStack(n) == <<first_free_frame_idx(Free, n + 2), first_free_frame_idx(Free, n + 3)>>

KernelFork ==
  LET pages == ValidPages(user_page_table[curr_pcb])
      n == Cardinality(pages) IN
  /\ RunsProgram
  /\ next_pid <= MaxPid
  /\ \/ /\ HasFrames(Free, n + 4)
        /\ used' = used \cup Taken(Free, n + 4)
        /\ user_page_table' = [user_page_table EXCEPT ![next_pid] = CopiedTable(pages)]
        /\ brk' = [brk EXCEPT ![next_pid] = VMEM_1_BASE]
        /\ region_1_sp' = [region_1_sp EXCEPT ![next_pid] = VMEM_1_LIMIT]
        /\ image' = [image EXCEPT ![next_pid] = image[curr_pcb]]
        /\ kernel_stack' = [kernel_stack EXCEPT ![next_pid] = ClonedStack(n)]
        /\ kernel_page_table' = [kernel_page_table EXCEPT ![WindowPages[1]] = NoKernelPage,
                                                          ![WindowPages[2]] = NoKernelPage]
        /\ window_hit' = (window_hit \/ kernel_page_table[WindowPages[2]].valid)
        /\ next_pid' = next_pid + 1 /\ alive' = alive \cup {next_pid}
        /\ UNCHANGED <<KERNEL_BRK, curr_pcb, fault>>
     \/ ~HasFrames(Free, n + 4) /\ OutOfFrames

(* LoadProgram, called by Exec and for init at the end of KernelStart.  A  *)
(* file that fails the checks, or leaves no page between heap and stack,   *)
(* changes nothing.  Otherwise the old pages go and new ones come; and if  *)
(* the file then cannot be read, the process goes on with what there is.   *)
(* Wrong: the frames of the old pages are not freed.                       *)
FreedByNone(table) == {}
FreedBy(table) == FramesOf(table)

(* Wrong: no page is left between heap and stack. *)
FitsExactly(im) == im.stack_npg + im.data_pg1 + im.data_npg <= PTLen
Fits(im) == im.stack_npg + im.data_pg1 + im.data_npg < PTLen

Section(first, npg) == {i \in Page : first <= i /\ i < first + npg}

LoadProgram(im, read) ==
  LET old   == user_page_table[curr_pcb]
      free  == Free \cup FreedBy(old)
      text  == Section(im.text_pg1, im.t_npg)
      stack == Section(PTLen - im.stack_npg, im.stack_npg)
      pages == text \cup Section(im.data_pg1, im.data_npg) \cup stack
      n     == Cardinality(pages) IN
  /\ curr_pcb # IDLE
  /\ Fits(im)
  /\ \/ /\ HasFrames(free, n)
        /\ used' = (used \ FreedBy(old)) \cup Taken(free, n)
        /\ user_page_table' = [user_page_table EXCEPT ![curr_pcb] = [i \in Page |->
             IF i \in pages
             THEN Mapped(FrameFor(free, 0, pages, i), IF i \in text /\ read THEN "rx" ELSE "rw")
             ELSE [old[i] EXCEPT !.valid = FALSE]]]
        /\ brk' = [brk EXCEPT ![curr_pcb] = im.data_pg1 + im.data_npg + PTLen]
        /\ region_1_sp' = [region_1_sp EXCEPT ![curr_pcb] = (VMEM_1_LIMIT - 1) - im.stack_npg]
        /\ image' = [image EXCEPT ![curr_pcb] = IF read THEN "whole" ELSE "part"]
        /\ UNCHANGED <<kernel, process, fault, window_hit>>
     \/ ~HasFrames(free, n) /\ OutOfFrames

(* Brk: `addr' is the new break rounded up to a page.                      *)
(* Wrong: the lowered pages stay valid.                                    *)
LoweredStaysValid(table, old) ==
  [i \in Page |-> IF i \in old THEN [table[i] EXCEPT !.prot = "none"] ELSE table[i]]
Lowered(table, old) ==
  [i \in Page |-> IF i \in old THEN Unmapped ELSE table[i]]

(* Wrong: the last page is not mapped. *)
RaisedButLast(addr) ==
  {i \in Page : brk[curr_pcb] <= i + PTLen /\ i + PTLen < addr - 1}
Raised(addr) ==
  {i \in Page : brk[curr_pcb] <= i + PTLen /\ i + PTLen < addr}

WithinBound(addr) == VMEM_1_BASE <= addr /\ addr <= region_1_sp[curr_pcb]

KernelBrk(addr) ==
  LET table == user_page_table[curr_pcb]
      old_brk == brk[curr_pcb]
      old == {i \in Page : addr <= i + PTLen /\ i + PTLen < old_brk}
      new == Raised(addr)
      n   == Cardinality(new) IN
  /\ RunsProgram
  /\ WithinBound(addr)
  /\ \/ /\ addr < old_brk
        /\ used' = used \ {table[i].pfn : i \in old}
        /\ user_page_table' = [user_page_table EXCEPT ![curr_pcb] = Lowered(table, old)]
        /\ brk' = [brk EXCEPT ![curr_pcb] = addr]
        /\ UNCHANGED <<kernel, process, region_1_sp, image, fault, window_hit>>
     \/ /\ addr >= old_brk /\ HasFrames(Free, n)
        /\ used' = used \cup Taken(Free, n)
        /\ user_page_table' = [user_page_table EXCEPT ![curr_pcb] = [i \in Page |->
             IF i \in new THEN Mapped(FrameFor(Free, 0, new, i), "rw") ELSE table[i]]]
        /\ brk' = [brk EXCEPT ![curr_pcb] = addr]
        /\ UNCHANGED <<kernel, process, region_1_sp, image, fault, window_hit>>
     \/ addr >= old_brk /\ ~HasFrames(Free, n) /\ OutOfFrames

(* trap_memory_handler, of an address whose page is not mapped.  From two  *)
(* pages below the stack pointer on, the handler fills the entries of the  *)
(* page table that its loop indexes with virtual page numbers: they lie    *)
(* beyond the table, in the kernel heap.                                   *)
Grows(addr) == addr >= region_1_sp[curr_pcb] - 2

trap_memory_handler(addr) ==
  /\ RunsProgram
  /\ ~user_page_table[curr_pcb][addr - PTLen].valid
  /\ \/ ~Grows(addr) /\ \E q \in Pid : KernelExit(q)
     \/ /\ Grows(addr) /\ addr < region_1_sp[curr_pcb]
        /\ fault' = "overrun"
        /\ UNCHANGED <<used, kernel, process, user, window_hit>>
     \/ Grows(addr) /\ addr >= region_1_sp[curr_pcb] /\ UNCHANGED vars

Next ==
  /\ fault = "none"
  /\ \/ \E top \in KernelPages..HeapMax : SetKernelBrk(top)
     \/ \E q \in Pid : switch_to_next_ready_process(q) \/ KernelExit(q)
     \/ KernelFork
     \/ \E im \in Programs, read \in BOOLEAN : LoadProgram(im, read)
     \/ \E addr \in Breaks : KernelBrk(addr)
     \/ \E addr \in Address \ {VMEM_1_LIMIT} : trap_memory_handler(addr)

Spec == Init /\ [][Next]_vars
----------------------------------------------------------------------------
(* The variables of the memory keep their types, and the running process   *)
(* is alive.                                                               *)
TypeOK ==
  /\ used \subseteq Frame
  /\ kernel_page_table \in [Page -> [valid : BOOLEAN, pfn : Frame]]
  /\ KERNEL_BRK \in KernelPages..HeapMax
  /\ alive \subseteq 0..next_pid-1 /\ IDLE \in alive /\ curr_pcb \in alive
  /\ next_pid \in Pid \cup {MaxPid + 1}
  /\ user_page_table \in
       [Pid -> [Page -> [valid : BOOLEAN, prot : {"none", "rx", "rw"}, pfn : Frame]]]
  /\ brk \in [Pid -> Address] /\ region_1_sp \in [Pid -> Address]
  /\ image \in [Pid -> {"none", "whole", "part"}]
  /\ kernel_stack \in [Pid -> Frame \X Frame]
  /\ fault \in {"none", "exhausted", "overrun"} /\ window_hit \in BOOLEAN

(* What a frame is in use for: pages of the kernel, user pages of the      *)
(* living, and the kernel stacks of those who do not run.                  *)
KernelUses == {i \in Page : kernel_page_table[i].valid}
UserUses   == {u \in alive \X Page : user_page_table[u[1]][u[2]].valid}
StackUses  == (alive \ {curr_pcb}) \X {1, 2}

KernelFrames == {kernel_page_table[i].pfn : i \in KernelUses}
UserFrames   == {user_page_table[u[1]][u[2]].pfn : u \in UserUses}
StackFrames  == {kernel_stack[u[1]][u[2]] : u \in StackUses}
Owned        == KernelFrames \cup UserFrames \cup StackFrames

(* A frame is mapped in one place: no two pages, of one process, of two    *)
(* processes or of a process and the kernel, ever share one.  (Once the    *)
(* copy of a kernel stack has unmapped a page of the heap, lowering the    *)
(* heap frees the frame 0 of the kernel's text in its place, and what      *)
(* follows is no longer promised.)                                         *)
SingleOwner ==
  ~window_hit =>
    /\ \A i, j \in KernelUses : kernel_page_table[i].pfn = kernel_page_table[j].pfn => i = j
    /\ \A u, v \in UserUses :
         user_page_table[u[1]][u[2]].pfn = user_page_table[v[1]][v[2]].pfn => u = v
    /\ \A u, v \in StackUses : kernel_stack[u[1]][u[2]] = kernel_stack[v[1]][v[2]] => u = v
    /\ KernelFrames \cap UserFrames = {}
    /\ KernelFrames \cap StackFrames = {}
    /\ UserFrames \cap StackFrames = {}

(* No frame in use is marked free, so none is handed out again; with the   *)
(* same exception.                                                         *)
OwnedUsed == ~window_hit => Owned \subseteq used

(* The kernel maps its text, data and heap up to KERNEL_BRK and the kernel *)
(* stack, and nothing else: fork and KCCopy leave no window behind.  The   *)
(* heap may end where the check of SetKernelBrk lets it, which is one page *)
(* into the windows: that page, and no other, is missing after a fork,     *)
(* until the heap is lowered below it.                                     *)
KernelLayout ==
  LET needed == (0..KERNEL_BRK-1) \cup {StackPages[1], StackPages[2]} IN
  KernelUses = needed \/ (window_hit /\ KernelUses = needed \ {WindowPages[2]})

(* A process that LoadProgram has given its image maps exactly what its    *)
(* break and stack pointer say: text, data and heap below brk, the stack   *)
(* above region_1_sp, and never the page between.                          *)
Loaded(p) == region_1_sp[p] < VMEM_1_LIMIT

LayoutMatches ==
  \A p \in alive : Loaded(p) =>
    /\ brk[p] <= region_1_sp[p]
    /\ {i + PTLen : i \in ValidPages(user_page_table[p])} =
         (VMEM_1_BASE..brk[p]-1) \cup (region_1_sp[p]+1..VMEM_1_LIMIT-1)

(* Every page below the break is mapped, so that lowering the break frees  *)
(* only frames that the process owns.  A forked child's break is the base  *)
(* of the region, below all its pages: this says of it only that raising   *)
(* that break maps every page it passes.                                   *)
BelowBreakMapped ==
  \A p \in alive : \A i \in Page : i + PTLen < brk[p] => user_page_table[p][i].valid

(* The kernel stack of a process is in the same two frames all its life,   *)
(* however often it is switched out and in and whatever others do.         *)
StackOf(p) ==
  IF p = curr_pcb THEN <<kernel_page_table[StackPages[1]].pfn, kernel_page_table[StackPages[2]].pfn>>
                  ELSE kernel_stack[p]
KernelStackStable == [][\A p \in alive \cap alive' : StackOf(p)' = StackOf(p)]_vars

(* A frame is lost when it is marked used and nothing uses it: no later    *)
(* step gives it back.  Every step loses exactly these frames:             *)
(*   - fork, the kernel stack that create_process makes and KCCopy         *)
(*     replaces, and the page of the heap that the windows unmap, if the   *)
(*     heap is that high;                                                  *)
(*   - exit, the pages and the kernel stack of the process;                *)
(*   - brk, the inherited pages that a process not loaded since its fork   *)
(*     raises its break over: a child's break starts at the region's base. *)
(* Exec, successful or not, a lowered break, the kernel's heap, switches   *)
(* and faults lose none.                                                   *)
Lost == used \ Owned

ForkLoses ==
  IF next_pid' = next_pid THEN {}
  ELSE Taken(Free, 2) \cup
       {kernel_page_table[i].pfn : i \in KernelUses \cap {WindowPages[1], WindowPages[2]}}
ExitLoses ==
  IF alive \subseteq alive' THEN {}
  ELSE FramesOf(user_page_table[curr_pcb]) \cup {StackOf(curr_pcb)[1], StackOf(curr_pcb)[2]}
RaisedOver ==
  {i \in ValidPages(user_page_table[curr_pcb]) : brk[curr_pcb] <= i + PTLen /\ i + PTLen < brk'[curr_pcb]}
BrkLoses ==
  IF region_1_sp' = region_1_sp THEN {user_page_table[curr_pcb][i].pfn : i \in RaisedOver} ELSE {}

FramesAccountedFor ==
  [][~window_hit => Lost' = Lost \cup ForkLoses \cup ExitLoses \cup BrkLoses]_vars

----------------------------------------------------------------------------
(* traps.c of trap_memory_handler: "Allocate memory for the stack until    *)
(* this new address".                                                      *)
StackGrows ==
  [][\A addr \in Address \ {VMEM_1_LIMIT} :
       trap_memory_handler(addr) /\ curr_pcb \in alive'
         => user_page_table'[curr_pcb][addr - PTLen].valid]_vars

(* process_coord_syscalls.c of KernelExit: "Free all the resources used by *)
(* that process"; of the frames, at least those under its user pages, which *)
(* nobody needs any more.                                                   *)
ExitFrees ==
  [][\A p \in alive \ alive' : FramesOf(user_page_table[p]) \cap used' = {}]_vars
=============================================================================
