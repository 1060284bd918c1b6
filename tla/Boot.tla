-------------------------------- MODULE Boot --------------------------------
(***************************************************************************)
(* KernelStart from its first allocation to the state in which Memory      *)
(* starts.  The kernel page table is built while the kernel's malloc may   *)
(* still raise the heap, which SetKernelBrk only notes as long as virtual  *)
(* memory is off and backs with frames once it is on.  How much malloc     *)
(* asks for, and at which of the allocations, is decided in a prebuilt     *)
(* library and left open here.  KernelPages is _kernel_orig_brk.           *)
(***************************************************************************)
EXTENDS Memory

VARIABLES
  phase,      \* what KernelStart does next
  is_virtual_memory_enabled,
  heap_top,   \* the break as malloc knows it
  seen,       \* history: the heap up to here is the one that KernelStart sees
  vm_top      \* history: the break when virtual memory came on

start == <<phase, is_virtual_memory_enabled>>
heap  == <<heap_top, seen, vm_top>>
boot_vars == <<vars, start, heap>>

Started(k) == INSTANCE Memory WITH KernelPages <- k

BootInit ==
  /\ phase = "queues" /\ is_virtual_memory_enabled = FALSE
  /\ heap_top = KernelPages /\ seen = KernelPages /\ vm_top = KernelPages
  /\ used = {} /\ kernel_page_table = [i \in Page |-> NoKernelPage] /\ KERNEL_BRK = KernelPages
  /\ curr_pcb = IDLE /\ next_pid = IDLE /\ alive = {IDLE}
  /\ user_page_table = [p \in Pid |-> EmptyTable]
  /\ brk = [p \in Pid |-> VMEM_1_BASE] /\ region_1_sp = [p \in Pid |-> VMEM_1_LIMIT]
  /\ kernel_stack = [p \in Pid |-> <<0, 0>>] /\ image = [p \in Pid |-> "none"]
  /\ fault = "none" /\ window_hit = FALSE

(* An allocation that needs more heap, in a phase that allocates.  Of those *)
(* before the kernel page table covers them, KernelStart sees the ones for *)
(* the frame bit array: what the queues raised is forgotten when KERNEL_BRK *)
(* is set (unless the bit array raises the heap over it), and the region 1  *)
(* table comes when the kernel's is drawn up.                              *)
Notes(top) == KERNEL_BRK' = top /\ UNCHANGED <<used, kernel_page_table, kernel_stack, process, user, fault, window_hit>>

malloc(top) ==
  /\ phase \in {"queues", "bit_arr", "region 1", "init", "clone"}
  /\ top > heap_top /\ heap_top' = top
  /\ IF is_virtual_memory_enabled THEN SetKernelBrk(top) ELSE Notes(top)
  /\ seen' = IF phase = "bit_arr" THEN top ELSE seen
  /\ UNCHANGED <<start, vm_top>>

(* "Initialize up KERNEL_BRK", after the queues and the terminal buffers. *)
reset_brk ==
  /\ phase = "queues" /\ phase' = "bit_arr"
  /\ KERNEL_BRK' = KernelPages
  /\ UNCHANGED <<used, kernel_page_table, kernel_stack, process, user, fault, window_hit, is_virtual_memory_enabled, heap>>

(* Wrong: the heap is mapped up to the original break only. *)
HeapPagesOrig == 0..KernelPages-1
HeapPages == 0..KERNEL_BRK-1

(* Text, data, heap and kernel stack, each page in the frame of its number. *)
kernel_table ==
  LET pages == HeapPages \cup {StackPages[1], StackPages[2]} IN
  /\ phase = "bit_arr" /\ phase' = "region 1"
  /\ kernel_page_table' = [i \in Page |-> [valid |-> i \in pages, pfn |-> i]]
  /\ used' = pages
  /\ UNCHANGED <<KERNEL_BRK, kernel_stack, process, user, fault, window_hit, is_virtual_memory_enabled, heap>>

enable_vm ==
  /\ phase = "region 1" /\ phase' = "idle"
  /\ is_virtual_memory_enabled' = TRUE /\ vm_top' = heap_top
  /\ UNCHANGED <<vars, heap_top, seen>>

Takes(k) == HasFrames(Free, k) /\ used' = used \cup Taken(Free, k)

create_idle_process ==
  /\ phase = "idle" /\ phase' = "init"
  /\ Takes(1)
  /\ user_page_table' = [user_page_table EXCEPT ![IDLE][PTLen - 1] = Mapped(first_free_frame_idx(Free, 0), "rw")]
  /\ next_pid' = INIT
  /\ UNCHANGED <<kernel, curr_pcb, alive, brk, region_1_sp, image, fault, window_hit, is_virtual_memory_enabled, heap>>

new_kernel_stack == <<first_free_frame_idx(Free, 0), first_free_frame_idx(Free, 1)>>

create_process ==
  /\ phase = "init" /\ phase' = "clone"
  /\ Takes(2)
  /\ kernel_stack' = [kernel_stack EXCEPT ![INIT] = new_kernel_stack]
  /\ next_pid' = next_pid + 1 /\ alive' = alive \cup {next_pid}
  /\ UNCHANGED <<kernel_page_table, KERNEL_BRK, curr_pcb, user, fault, window_hit, is_virtual_memory_enabled, heap>>

(* Wrong: the windows stay mapped after the copy. *)
KCCopyLeavesWindows ==
  /\ phase = "clone" /\ phase' = "running"
  /\ Takes(2)
  /\ kernel_stack' = [kernel_stack EXCEPT ![INIT] = new_kernel_stack]
  /\ kernel_page_table' = [kernel_page_table EXCEPT
       ![WindowPages[1]] = KernelPage(new_kernel_stack[1]), ![WindowPages[2]] = KernelPage(new_kernel_stack[2])]
  /\ window_hit' = kernel_page_table[WindowPages[2]].valid
  /\ UNCHANGED <<KERNEL_BRK, process, user, fault, is_virtual_memory_enabled, heap>>
KCCopy ==
  /\ phase = "clone" /\ phase' = "running"
  /\ Takes(2)
  /\ kernel_stack' = [kernel_stack EXCEPT ![INIT] = new_kernel_stack]
  /\ kernel_page_table' = [kernel_page_table EXCEPT
       ![WindowPages[1]] = NoKernelPage, ![WindowPages[2]] = NoKernelPage]
  /\ window_hit' = kernel_page_table[WindowPages[2]].valid
  /\ UNCHANGED <<KERNEL_BRK, process, user, fault, is_virtual_memory_enabled, heap>>

BootNext ==
  \/ \E top \in KernelPages..HeapMax : malloc(top)
  \/ reset_brk \/ kernel_table \/ enable_vm \/ create_idle_process \/ create_process \/ KCCopy

BootSpec == BootInit /\ [][BootNext]_boot_vars
----------------------------------------------------------------------------
(* When virtual memory comes on, every page of the boot heap is mapped to   *)
(* the frame it was in, so that what KernelStart has written there (the    *)
(* frame bit array, the queues) is still there: all but the pages, and     *)
(* precisely those, that the queues or the region 1 table raised the heap  *)
(* by where KernelStart does not see it, which are not mapped at all.      *)
(* Later allocations find theirs mapped, and leave the old ones in place;  *)
(* the window that KCCopy closes on a page of the heap unmaps that one.    *)
Hit == IF window_hit THEN {WindowPages[2]} ELSE {}

HeapKept ==
  is_virtual_memory_enabled =>
    /\ \A i \in (0..seen-1) \ Hit : kernel_page_table[i] = KernelPage(i)
    /\ phase = "idle" => \A i \in seen..vm_top-1 : ~kernel_page_table[i].valid
    /\ \A i \in (vm_top..heap_top-1) \ Hit : kernel_page_table[i].valid

(* KernelStart never runs out of frames.  If it has seen the whole boot    *)
(* heap it ends with the memory as Memory takes it to be, that heap being  *)
(* the kernel's pages; heap raised since virtual memory is on changes the  *)
(* numbers of the frames, and no frame has two owners or is marked free    *)
(* for that.                                                               *)
StartsMemory ==
  /\ fault = "none"
  /\ phase = "idle" => HasFrames(Free, 1)
  /\ phase \in {"init", "clone"} => HasFrames(Free, 2)
  /\ phase = "running" /\ seen = vm_top =>
       /\ SingleOwner /\ OwnedUsed /\ KernelLayout
       /\ heap_top = vm_top => \E k \in KernelPages..HeapMax : k = KERNEL_BRK /\ Started(k)!Init
=============================================================================
