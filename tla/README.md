# A TLA+ model of the Yalnix kernel

This directory is a verification development for the Yalnix kernel in
`src/sample/` and the user library in `src/etc/yuserlib/`: TLA+ modules
translated from the C source, TLC configurations that check them on small
instances, and theorems whose proofs TLAPS checks for every value of the
constants.

## 1. The system

Yalnix is a small Unix-like kernel for a simulated machine. The machine (the
prebuilt libraries in `src/lib` and `src/etc`) delivers traps; the kernel
handles each with a handler of `traps.c`; programs linked with
`src/etc/yuserlib` make the system calls. The kernel is entered only from user
mode: a trap that arrives while the kernel runs waits. A handler is therefore
atomic, **except** where it calls `KernelContextSwitch`: there it stops, another
process goes on from the place where *it* stopped, and what the handler read
before the switch may no longer be true after it. That is where the hard
behaviours of this code are.

| Component | Code | State | Operations | Hard behaviour | Module |
|---|---|---|---|---|---|
| Processes and scheduler | `process_coord_syscalls.c`, `kernel_context.c`, `traps.c`, `KernelStart` | `curr_pcb`, the ready, blocked and defunct queues, per process: parent, children, deceased children, exit code, suspended kernel context | Fork, Exit, Wait, GetPid, Delay, clock and fatal traps, `switch_to_next_ready_process` | lost wakeups, orphans, zombies, a parent that dies first, freed queues, starvation | `Process`, `ProcessTree` |
| Queue | `queue.c` | linked nodes, `front`, `back` | `qopen`, `qclose`, `qput`, `qget`, `qsearch`, `qremove`, `qconcat`, `qisempty` | dangling `back` after the last `qget`, use after free, `malloc` failing | `Queue`, `FifoQueue` |
| Frames, user memory, kernel heap and stacks | `first_free_frame_idx`, `SetKernelBrk`, `KernelBrk`, `LoadProgram`, `KernelFork`, `KCCopy`, `KCSwitch`, `trap_memory_handler` | `mem_frames.bit_arr`, kernel and region 1 page tables, `KERNEL_BRK`, `brk`, `region_1_sp`, saved kernel stacks | allocate, map, unmap, copy, load, grow the stack, switch | a frame mapped twice or never freed, exhaustion, a break that does not match the mapping, windows over the heap | `Memory` |
| User contexts | `curr_uctxt`, `pcb.user_context`, `trap_kernel_handler` | live and saved registers of each process | trap, switch, exec, fork, exit | a stale saved context is restored | `Context` |
| User break and heap growth | `yuser/libc.c` | `current_break`, `heap_start`, `heap_end`, the kernel's `brk` | `brk`, `sbrk`, `Brk`, `init_heap`, `grow_heap` | two copies of the break that must agree, failures half way | `UserHeap` |
| Kernel start | `KernelStart`, `SetKernelBrk`, `create_idle_process`, `create_process`, `KCCopy` | whether virtual memory is on, the noted and the real end of the heap | allocate, reset the break, build the kernel page table, turn virtual memory on, idle, init, clone | a heap that grows while nobody maps it | `Boot` |
| System calls | `yuser/calls.c`, `trap_kernel_handler`, `LoadProgram` | registers, the stack of a new program | every wrapper, the dispatch, the layout of arguments | a call the kernel has no case for, the vector of Exec, sizes around a page | `Syscalls` |
| Character and string library | `yuserlib/common`, `ctype.h` | `strtok`'s place; locals of the formatting and scanning loops | `vsnprintf`, `vsscanf`, `strntoumax`, the `mem*` and `str*` functions, the character classes | buffers at their limit, state left from one directive to the next, overlaps, empty tokens | `Library` and the modules below it |
| Terminals | `trap_tty_receive_handler`, `io_syscalls.c` | `terminal_buffers` | receive a line | does not build in this revision | - |
| Pipes, locks, condition variables; disk; terminal output | `ipc_syscalls.c`, `sync_syscalls.c`, `traps.c` | none | empty bodies or a message | not implemented | - |

How they interact: every handler reads `curr_pcb`; Exit of a child edits the
queues of its parent, which may be blocked in Wait on another kernel stack; Fork
and the scheduler exchange kernel stacks, page tables and register contexts;
Exec, Brk, Fork, the stack fault and the kernel heap all take frames from the
same bit array; the queues, pcbs and page tables live in the kernel heap that
`SetKernelBrk` grows; the user library caches the break that `KernelBrk` keeps.

What makes each correct is listed with its modules below; every hazard found,
with the line where it bites, is in `PROJECT.json`.

### What is assumed of the machine

The machine is not in the repository as source. The models rely on the
following, which the code in `src/sample` relies on too:

* traps are delivered in user mode only, and `KernelContextSwitch` runs its
  callback atomically;
* `helper_new_pid` gives 0, 1, 2, ... and never one twice (`helper_retire_pid`
  is never called); idle is 0, init is 1;
* the machine keeps the context of the interrupted program at one fixed place on
  the kernel stack and hands its address to `KernelStart` and to every handler.
  So `curr_uctxt`, stored once by `create_idle_process`, is the handlers'
  `user_context` ever after, and what it points to changes with the kernel stack
  that is mapped. `Context` is built on that;
* a clock interrupt arrives again and again while a program runs.

## 2. Modules

### Process (`Process.tla`, `MCProcess.tla`, `ProcessProofs.tla`)

Processes are named by their pids. pcbs are never freed, so a pid identifies a
pcb and `qsearch`/`qremove` with `search_pcb` become search and removal of a
pid; the queues are sequences, which `Queue` justifies.

| Code | Model |
|---|---|
| `curr_pcb`, `ready_queue`, `blocked_queue`, `defunct_queue` | variables of the same name (sequences of pids) |
| `parent_pcb_p`, `children`, `deceased_children`, `exit_code` of a pcb | functions `parent`, `children`, `deceased`, `exit_code` |
| `free(user_page_table)`, `qclose(children)`, ... in `KernelExit` | the pid enters `freed` |
| the C stack of a process suspended in `KernelContextSwitch` | `kernel_context[p]`: which call of it (`"boot"`, `"fork"`, `"wait"`, `"switch"`) |
| between `KernelContextSwitch` returning and the return to user mode | `mode = "kernel"` |
| `regs[0]` on return to user mode, `*status_ptr` of Wait | `regs0`, `status` |
| `Halt()`; a NULL or freed parent followed by the kernel | `machine = "halted"`, `"crashed"` |

One action per handler up to the switch (`trap_clock_handler`, `KernelFork`,
`KernelExit`, `KernelWait`, `KernelGetPid`, `KernelDelay`, `trap_fatal_handler`)
and one per place where a process resumes (`resume_switch`, `resume_boot`,
`resume_fork`, `resume_wait`). `switch_to_next_ready_process` is an operator
that all of them use with the queues as the caller has left them.

### ProcessTree (`ProcessTree.tla`)

What fork, exit and wait promise, with no queue or scheduler in it: a tree of
unborn, live, waiting, zombie and gone processes. `Process` implements it
(`ImplementsTree`): the mapping reads the state of a process off the queues it
is in.

### Queue and FifoQueue (`Queue.tla`, `FifoQueue.tla`, `MCQueue.tla`, `QueueProofs.tla`)

`Queue` has the nodes (`data`, `next`, `allocated`), `front` and `back` of each
open queue, and one action per function of `queue.c`; `malloc` may fail. A read
or write of a node that is not allocated, or of NULL, sets `fault`. The loops
are folded into the chain of nodes from `front`. The callers are those that keep
to `queue.h`: they use a queue (`open`) until they close it or give it to
`qconcat` as the second one. `qconcat` returns early for an empty second queue;
its `queue_t` then stays allocated with nobody to use it (`leaked`).

`FifoQueue` is what `queue.h` promises, one sequence per queue; `Queue`
implements it by reading the sequence off the chain, as long as `malloc`
succeeds. `Concat` always closes the second queue (`queue.h:60`): that holds of
the queues a caller may use, and not of the memory, which `NodesAccountedFor`
speaks of. One line of `queue.h` is not followed: `qisempty` "Returns 0 if empty,
1 if not" (64). The code does the opposite, as the comment in `queue.c:276` says
and as `KernelWait` relies on (`process_coord_syscalls.c:237, 243, 257`).

### Memory (`Memory.tla`, `MCMemory.tla`, `MemoryProofs.tla`)

Addresses are page numbers, contents of pages are left out, executables are
given by the sizes and places of their sections. Which process is switched to
is open: `Process` decides that, and the memory must be right for any order.

| Code | Model |
|---|---|
| `mem_frames.bit_arr` | `used`, the set of frames marked 1 |
| `first_free_frame_idx` called k times in a row | the free frames with 0..k-1 free ones below them |
| `kernel_page_table`, `KERNEL_BRK` | variables of the same name; the kernel stack is its last two pages |
| `memory_context` of a pcb | `user_page_table`, `brk`, `region_1_sp`, `kernel_stack` |
| the kernel's `malloc` and `free` | `SetKernelBrk` at any time, to any break up to `HeapMax` |
| a read beyond `bit_arr`, an index beyond a page table | `fault = "exhausted"`, `"overrun"`, where the model stops |
| `LoadProgram`'s return values | `image`: `"none"`, `"whole"`, or `"part"` when a read fails |

The two window pages through which fork and `KCCopy` write into other stacks are
`PTLen - 4` and `PTLen - 3`. `SetKernelBrk` lets the heap grow over the first of
them (`hardware.c:293`), and so does the model: closing the window then unmaps
the last page of the heap. The history variable `window_hit` notes it. From then
on a lowered heap frees the wrong frame, and `SingleOwner`, `OwnedUsed` and
`FramesAccountedFor` promise nothing more; `KernelLayout` says exactly which page
is missing.

`FramesAccountedFor` balances the frames at every step: those marked used that
nothing uses (`Lost`) grow by exactly what fork, exit and a forked child's first
break are known to lose, and by nothing else. It excuses no step and no process.

A switch of a process to itself changes nothing here and is left out; so is a
Brk out of bounds, which returns ERROR before it changes anything.

### Context (`Context.tla`, `MCContext.tla`, `ContextProofs.tla`)

A context is the number of the image it belongs to, the number of calls made in
that image, and register 0. `stack_context[p]` is the context at the top of p's
kernel stack, `user_context[p]` the copy in its pcb. The actions are those of
`Process` at the same grain with everything but the contexts taken away; which
process is switched to, and whether a Wait blocks, is open. `KernelCall` stands
for all calls that return to their caller without a switch.

### UserHeap (`UserHeap.tla`, `MCUserHeap.tla`, `UserHeapProofs.tla`)

The user library's `current_break` and heap bounds in words, the kernel's `brk`
in pages. `init_heap` and `grow_heap` are called by `malloc`, whose source
(`new_heap.c`) is not in the repository: the model lets it call them with any
length of a set. The program calls `sbrk`, `brk` and `Brk` beside it. The
kernel's side is `KernelBrk`'s bound check; frames are taken to suffice
(`Memory` has what happens if not), the process is one that has loaded its
image, and addresses stay far from 2^32.

### Boot (`Boot.tla`, `MemoryProofs.tla`)

`Boot` extends `Memory` and runs `KernelStart` from its first allocation to the
state `Memory` starts in, one action per step (`reset_brk`, `kernel_table`,
`enable_vm`, `create_idle_process`, `create_process`, `KCCopy`). `malloc` may
raise the heap in every phase in which `KernelStart` allocates. While virtual
memory is off `SetKernelBrk` only notes the new break (`Notes`); once it is on
it maps pages, by `Memory`'s own action. `heap_top` is what malloc believes,
`KERNEL_BRK` what the kernel does.

In two places `KernelStart` does not see what malloc does: before it resets
`KERNEL_BRK` (`hardware.c:350`), and at the region 1 page table, which comes
after the kernel page table has been filled (`hardware.c:423`). Whether malloc
raises the heap there is decided in a prebuilt library; the model lets it. The
history variable `seen` is the end of the heap that `KernelStart` knows of.
`HeapKept` says that all the heap below it is kept, and that the pages above it,
and no others, are not mapped when virtual memory comes on. `StartsMemory` says
that the frames always suffice, and what the state is at the end if the whole
boot heap was seen.

### Syscalls (`Syscalls.tla`, `MCSyscalls.tla`, `SyscallsProofs.tla`)

One program and the way of its calls. The wrappers are a table from the name to
the number (`yalnix.h`) and how many arguments they put into registers;
`YSYSCALL` sets the registers and traps; `trap_function`, `trap_default`,
`trap_exit` and `trap_exec` are the cases of `trap_kernel_handler`; `Return` is
the end of the wrapper. The kernel's functions return any of their results;
`Passed` is what each is given: one register or nothing (the terminal calls are
made without their arguments, `traps.c:88, 94`). Exec
reads the registers themselves as the vector of arguments (`Handed`), and
`Built` is the stack that `LoadProgram` lays out: the count, the pointers, two
null pointers and the strings, by address. Texts of strings are names; the
`len` of one is what counts.

### Library (`CTypes`, `FormatString`, `Printf`, `Scanf`, `Strings`, `Library`, `MCLibrary`, `LibraryProofs`)

* `CTypes`: the table of `ctypes.c` as classes of ranges of codes, and the
  functions of `ctype.h`.
* `FormatString`: what the two loops share: the format, the rank of an integer,
  and the conversion of a value to the width of its rank. `Bits` gives each rank
  its width.
* `Printf`: `vsnprintf`, one action per state of its loop, and `format_int`.
  `EMIT` writes a text and counts what it has no room for.
* `Scanf`: `vsscanf`, one action per state of its loop, and `strntoumax`.
* `Strings`: the functions on bytes and strings, each as a whole, on a memory of
  bytes, and `strtok` with its static place. A loop is a recursive function;
  `Steps` counts how far one goes.
* `Library`: the program that uses them (prints, scans, reads back what it has
  printed, calls a function, cuts a string into tokens), and the reference
  definitions: what a directive is to write, what a function is to find or
  leave in memory, without the code's loops. A string has no NUL but at its end,
  and the last byte of the memory is a NUL, so that every string ends in it
  (`LibraryAssumption`).

Where this library departs from the C standard on purpose, the reference follows
it; `Library.tla` says where.

## 3. Runs

| Run | Shows | Bounds |
|---|---|---|
| `process` | nothing is lost, scheduled twice or run after exit; no lost wakeup; a woken parent finds its child; the families are consistent; idle runs alone only when everyone is defunct; ready processes leave the queue in order; the queues implement the process tree, liveness included; every ready process runs | idle, init and two more, so that a parent, siblings, a grandchild and an orphan all occur; two exit codes, a trap code, delays below, at and above zero |
| `queue` | no freed node is reached, no node leaks or is shared, and to their callers the queues are those of `queue.h` | three queues, two elements (repeats occur), four nodes: first, middle and last positions, running out of memory, and queues leaked one after another all occur |
| `memory` | no frame has two owners, none in use is free, each kernel stack keeps its frames, the kernel table has no leftover window, a loaded process maps exactly text, data and heap below its break and the stack above `region_1_sp`, everything below the break is mapped, every step loses exactly the frames it is known to lose | idle, init, one child; 19 frames, so that a loaded process can fork and the next operation may run out; six pages per region; a kernel heap of two pages, or of three, which is as far as `SetKernelBrk` lets it and reaches the windows; breaks below and above the loaded one, the highest the kernel allows among them; an executable that fits and one that leaves no page between heap and stack |
| `context` | the saved context is the live one; no code is run twice; a child returns where its parent forked | idle, init and two more, two calls per image, two images |
| `user_heap` | library and kernel agree on the break's page; malloc's heap stays mapped unless the program itself lowers the break | nine pages of four words; breaks within a page, at its edges and out of bounds |
| `boot` | wherever the boot allocations raise the heap, virtual memory comes on with exactly those pages missing that `KernelStart` has not seen; frames never run out; what it has seen whole ends as `Memory`'s initial state | nine pages, an original break of two, a heap of up to six, which reaches the windows: growth before the reset, between reset and table, unseen, and after virtual memory is on all occur |
| `syscalls` | each wrapper of a call the kernel has reaches its function, with the argument that takes, and gets its result; for any other no function runs; every program starts on a well-formed stack | the machine's own page size and region; up to two arguments, of length 0, 3, 8047 (the longest single one that keeps the stack in one page) and 8048; images that leave many, three or two pages |
| `library` | what `vsnprintf` writes and counts is what the directives ask for, cut to the buffer; `vsscanf` reads back what was printed; its count, and the limits of `%s` and `%c`; copies, searches and comparisons; `strtok`'s tokens; the classes of every character | integers of 4, 6, 8, 8 and 10 bits for the five ranks, so that extremes of each are printed and narrowed; buffers of 0, 1, 3 or 4 and 100 bytes; all flags, with widths and precisions below and above the text; a memory of six bytes with every overlap; texts of up to four characters against 21 formats |

Runs that find a disagreement between the code and what the repository says of
it (each a finding in `PROJECT.json`, with the quoted line):

| Run | What the code does |
|---|---|
| `stack_growth` | the stack fault indexes the page table beyond its end, and the page stays unmapped |
| `exec_error` | after a failed `Exec` the program goes on from an older context |
| `exit_frees` | a process that exits leaves the frames of its pages marked used, although `process_coord_syscalls.c:137` is to "Free all the resources used by that process" |
| `exec_arguments` | the arguments of a program loaded by `Exec` are its name and the bytes of a pointer, not those of the vector |

Seen while modelling and visible in the actions, without a run of their own.

In the kernel:

* init's exit does not halt the machine: `KernelExit` compares with the pid of
  idle (`process_coord_syscalls.c:155-156`). The model idles on as the code
  does, and no property claims otherwise;
* a fork loses the two frames of the kernel stack that `create_process` makes and
  `KCCopy` replaces (`kernel_context.c:65`);
* a process whose new image cannot be read lives on with part of it, although
  `load_program.c:137-139` is "committed to either loading succesfully or
  killing the process" (271);
* a forked child's break is the base of region 1 (`hardware.c:249`), so its
  first `Brk` maps new frames over the pages it inherited;
* `KernelDelay` returns without blocking (`process_coord_syscalls.h:56` says it
  blocks); `qconcat` leaves an empty second queue allocated (`queue.c:260`),
  although its own comment and `queue.h:60` say it is deallocated; `qisempty` is
  documented the other way round in `queue.h:64`; `qput` never tests `malloc` (`queue.c:71`); `Brk` without free frames runs off
  the bit array instead of returning ERROR (`process_coord_syscalls.c:293`);
* `region_1_sp` after a load is the page below the stack (`pcb.h:36`); with a
  kernel heap grown to its limit the lower window page of `KCCopy` is a heap page,
  which a fork unmaps;
* a call for which `trap_kernel_handler` has no case returns its first argument
  (`traps.c:98`), so `LockInit(&lock)` returns a pointer.

In the user library:

* `Brk` stores an unrounded break (`libc.c:308-309`); `Receive` does not pass its
  buffer on (`calls.c:139-141`);
* `%[` ignores its width, its ranges leave out their last character, a set that
  is not closed swallows the rest of the format, and `%*[` always ends the scan;
  `%*c` consumes nothing; `%s` does not skip white space; a sign alone converts
  to 0 (`vsscanf.c`);
* `toupper` of the y with diaeresis is the sharp s (`ctype.h:107`);
* `memmove` leaves the direction flag set (`memmove.c:18`), which is outside the
  model.

`Memory` and `Queue` stop at a fault (undefined behaviour of the C code), `Boot`
ends with `KernelStart`, a program of `Syscalls` exits, and one of `Library` is
done after its job: deadlock is not checked there; the other runs check it.

## 4. Fairness

`Process` assumes weak fairness of the clock trap (the simulated hardware
delivers a clock interrupt after every tick, and idle and every program are
interruptible in user mode) and of the completion of the kernel code after a
switch (it is straight-line code). Nothing is assumed of the programs: they may
loop, never exit and never wait. The other modules state safety only.

## 5. Proofs

TLAPS checks the following for every value of the constants, under the
assumptions that the modules state of them. Each safety theorem has the same
argument: an inductive invariant, one lemma per action (or per kind of change)
that it is kept, and the property read off it. What is added to a property to
make it inductive is what the code silently relies on, and is listed here.

`QueueTheorems.tla` proves what `qput`, `qget` and `qremove` do to a queue seen
as a sequence, and that a set of naturals has a least one (`LeastNatural`):
where an argument goes by induction over data, the proof takes the least
counterexample instead.

### Process: `ProcessProofs.tla`

For any number of processes and any sets of codes:

* `TypeCorrect`: `[]TypeOK`. Not inductive alone: the boot continuation would
  make idle its own child, so `TypeInv` adds that idle is never suspended in
  boot, fork or wait.
* `SchedulerCorrect`: `[]SchedulerPartition`, from `SchedulerInv`.
  `SwitchPartition` is the heart: whatever queues a handler leaves, if every
  process but the running one is in exactly one of them, then after the switch
  everyone is in exactly one place.
* `RoundRobin`: `NeverOvertaken`. Every handler changes the ready queue by at
  most one `qget` and some `qput`s.
* `FamilyCorrect`, `WakeupCorrect`, `WokenCorrect`, `ParentCorrect`:
  `FamilyConsistent`, `NoLostWakeup`, `WokenFindsChild`, `NoBadParent`. The four
  need one another and are proved together (`FamilyInv`): a parent in Wait is
  woken because the child names it as its parent, the parent has a child because
  `children` names it, and `children` is right because no child exits unseen by
  its parent. What they need besides is that a parent's pid is smaller than its
  child's (`Ancestry`: there are no cycles, and idle is nobody's child), which
  processes may be suspended in which call (`Contexts`), and that only defunct
  processes are freed.
* `IdleCorrect`: `IdleOnlyAtTheEnd`. If idle runs alone and someone still lives,
  take the youngest living process: it is blocked, so it waits, so it has a
  living child, which is younger.
* `WakesCorrect`: `OnlyChildWakes`.
* `TreeCorrect`: `Spec => Tree!TreeInit /\ [][Tree!TreeNext]_(Tree!tree)`, the
  refinement of `ProcessTree` step by step. `TreeInv` adds to `FamilyInv` what
  the mapping reads and nothing else did: only init is ever suspended in boot, a
  process that has not exited has the exit code SUCCESS, a defunct one was
  created with a parent, and idle has none.

### Queue: `QueueProofs.tla`

For any number of queues, nodes and elements, `malloc` failing at any time:

* `QueueTypes`, `FreedCorrect`, `NodesCorrect`: `TypeOK`, `NoFreedAccess`,
  `NodesAccountedFor`. `QueueInv` says that there is a sequence of nodes for
  each queue (`Shape`): `front` is its first node, `next` leads from each to the
  one after it and from the last to NULL, `back` is its last node *unless it is
  empty* (`qget` leaves it dangling, and no function may read it then), no node
  is in two sequences, and the allocated nodes are those in some sequence. The
  lemmas `PutShape`, `RemoveShape`, `CopyShape` and their like say what the
  pointer assignments of each function do to those sequences.
* `FifoCorrect`: `ImplementsFifo`, the refinement of `FifoQueue`: the chain that
  the mapping follows from `front` is that sequence, and each function does to
  its data what `FifoQueue` does to its queue. `qconcat` leaves open to its
  callers what `FifoQueue` does because the queue that leaks is not one of
  theirs any more and never is again (`LeakedStep`, `FifoConcatEmpty`).

### Memory: `MemoryProofs.tla`

For any number of processes and frames and any sizes of the regions:

* `MemoryTypes`: `[]TypeOK`, which includes that every entry names a frame that
  exists. At its heart are `FirstFree` and `FramesForPages`: the frame that
  `first_free_frame_idx` returns is free, and calls in a row give each page a
  frame of its own.
* `BelowBreakCorrect`, `LayoutCorrect`: `BelowBreakMapped`, `LayoutMatches`, from
  the same statements page by page (`UserLayout`).
* `KernelLayoutCorrect`: `KernelLayout`.
* `SingleOwnerCorrect`, `OwnedUsedCorrect`: `SingleOwner`, `OwnedUsed`.
  `SingleOwner` counts and compares sets of frames; `OwnersInv` says the same
  pairwise, of heap pages, user pages and kernel stacks, so that each step is one
  of a few changes to it (frames added, dropped, a child joining, the stack
  switched). A switch needs that the saved stack of the process left is the one
  mapped, and that the kernel has no page mapped to it but the stack pages.
* `StacksCorrect`: `KernelStackStable`.
* `FramesAccountedForCorrect`: `FramesAccountedFor`, from `KernelLayout`,
  `UserLayout` and `OwnersInv`: a step that takes frames gives each to one use,
  and one that drops a page knows whose frame it was.

No theorem has a hypothesis on the size of the kernel heap. `HeapMax <= PTLen - 3`
is the constants' assumption, and is the check of `hardware.c:293`. `KernelLayout`
is inductive as it stands, missing page included; `OwnersInv`, and what is read
off it, is proved to hold until `window_hit`. A step that closes the window on the heap
sets it, and nothing resets it.

### UserHeap: `UserHeapProofs.tla`

For any size of a page and of the region: `HeapTypes`; `BreakCorrect`,
`BreakAgrees`; `HeapCorrect`, `HeapMapped`. `HeapInv` has the heap's end below
the library's own break, not only below the kernel's page of it: the rounded
break does not tell what the next `sbrk` starts from.

### Context: `ContextProofs.tla`

For any number of processes, calls and images:

* `ContextTypes`, `SavedContextIsLive`: `[]TypeOK` and `[]SavedIsLive`, from
  `ContextInv`. `SavedIsLive` speaks of suspended processes only, so the
  invariant adds that the process in user mode is not suspended (else its next
  trap would part its two contexts), that a process not booted has no image (or
  its first image could be beyond the bound), and that a child not yet returned
  from Fork still has the context in which it was forked.
* `NothingRepeats`: `NeverRepeats`, an action property, from the same invariant:
  the steps that restore a saved context restore the live one, and all others
  go on from it.
* `ForkReturns`: `ForkReturnsTwice`, from `ForkHasClone`.

### Boot: `MemoryProofs.tla`

For any number of frames and pages, wherever the boot allocations raise the heap,
and for the largest heap:

* `HeapKeptCorrect`: `HeapKept`;
* `StartsMemoryCorrect`: `StartsMemory`.

`BootInv` carries through every phase after the reset of the break what
`KernelStart` relies on without a test:

* how the break as the kernel knows it, the page up to which it drew the kernel
  page table (`seen`) and the break of `malloc` lie to one another (`HeapNoted`);
* the kernel page table is first the identity on text, data, the heap it has seen
  and the stack (`TableDrawn`), and afterwards that heap stays in place and the
  one raised since is mapped (`BootHeap`), each page apart from those that the
  windows took (`Hit`). `BootHeap` also bounds the frames in use, so that the
  boot allocations cannot exhaust them: `Room` counts what is left;
* if `KernelStart` has seen all of the boot heap, `Memory`'s `OwnersInv` holds
  from the creation of idle on, unless a window was hit (`Owning`);
* if the heap has not grown since either, the frames were given in the order in
  which `Memory`'s `Init` gives them (`InOrder`). `TakenAfter` is the fact under
  it: two rows of calls of `first_free_frame_idx`, one after the other, take the
  frames that one longer row takes.

### Syscalls: `SyscallsProofs.tla`

For any size of a page and of the region, and any values, strings and images:

* `AnswersCorrect`: `CallsAnswered`. `Registered` adds what holds between the
  wrapper and the answer: the trap's code is the number of the wrapper called,
  register 0 is its first argument, and nothing has been served. From there on
  each wrapper's number is looked up in the handler's cases (`WrappersReach`).
* `StacksWellFormed`: `StackWellFormed`, for any number and lengths of arguments.
  Where a string lies is a sum over those before it (`Before`, a recursive
  function). That the function exists and never decreases is proved by the least
  argument at which it would not (`SumsExist`, `BeforeGrows`); what remains is
  arithmetic of rounding down to a double word and to a page, from which the one
  comparison that `LoadProgram` makes is enough.

### Library: `LibraryProofs.tla`

For every memory, text, format and buffer, and integers of any widths
(`BitsAssumption`, `RoomAssumption`, `LibraryAssumption`):

* `ClassesAreConsistent`: `ClassesAgree`, by the table's ranges.
* `SearchesAreExact`, `CopiesAreExact`: `SearchesFind`, `CopiesExact`. The
  invariants `SearchCalled` and `CopyCalled` say that what a call has left is the
  operator's value on the memory `before` it; the rest is about the operators.
  Each loop is a recursive function, and `Upwards` and `Downwards` (least
  counterexample over the bounded index) show that it equals what its loop is
  for: `StepsIs`, `MovesUpIs`, `MovesDownIs`, `CompareIs` and their like. `memmem`
  moves on by two after some mismatches: `MemmemFromIs` shows that no match
  begins at the place passed over, so the first one is still found
  (`FoundLater`). `memmove` and `memset` are exact wherever the areas lie, the
  other copies for areas apart.
* `ScansAreCounted`: `ScanContract`, from `ScanInv`: the place in the input never
  passes its end, the count is that of the values stored whole, no text
  stored for a `%s` or `%c` is longer than its width (nothing is said of `%[`,
  which ignores its width, `vsscanf.c:379`), and the loop gives up for the end of the input only
  where it is (`bail`). A literal of the format never matches past the end,
  because a format has no NUL in it (`FormatInv`). One lemma per conversion says
  what it stores and counts.
* `TokensAreTaken`: `TokensComplete`, from `TokenInv`: the memory is the string
  with every delimiter below the place `strtok` holds made a NUL (`Parted`), the
  tokens returned are those that begin below that place (`StartsBelow`), and
  that place follows a delimiter, so the next token is not one already begun.

### Model-checked only

* liveness, `ReadyRuns` and the fairness half of `ImplementsTree`: temporal
  reasoning under fairness is out of the prover's reach here;
* what `vsnprintf` writes, `PrintedIsRendered`, and that `vsscanf` reads it back,
  `ReadsBack`: both speak of a number's digits, that is of powers of the base,
  about which the provers have no fact (`b^(k+1) = b * b^k` with a variable `k`
  is induction over data), not even that the number of digits exists.

## 6. What is not modelled, and the plan

Not modelled:

* the terminals: the receive handler stores into queues declared with another
  type, `TtyRead` and `TtyWrite` are called without arguments, and their bodies
  are empty, so this revision does not build them and there is no behaviour to
  be faithful to. `TtyPrintf` is `vsprintf` and a call, which `Library` and
  `Syscalls` have;
* the stubs of pipes, locks, condition variables and disk: empty bodies;
* the allocator (`new_heap.c`) and the headers `atoi` and `atol` are made from:
  their source is not here;
* random numbers, `abort`, `assert` and the program start of the user library;
* the contents of memory but for the stack of a new program and the memory of
  the string functions; the simulated machine.

Done: all modules above, and the proofs of section 5.

Left: `Kernel`: `Process`, `Memory` and `Context` composed, so that a switch chosen
by the queues drives stacks and contexts. Each of the three leaves open what
the others decide, so the composition adds no behaviour; it would show that
they agree on the order of the steps within a handler.
