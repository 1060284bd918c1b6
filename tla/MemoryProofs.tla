---------------------------- MODULE MemoryProofs ----------------------------
(***************************************************************************)
(* Proofs about Memory for any number of processes, frames and pages: the  *)
(* types, what the kernel and the processes map, where the kernel stacks   *)
(* are, who owns the frames and which of them are lost; then about         *)
(* KernelStart of Boot, which is made of the same operations, wherever the *)
(* boot allocations raise the heap: which of it virtual memory comes on    *)
(* with, and that the kernel never runs out of frames on the way and, if   *)
(* it has seen the boot heap, ends in the state in which Memory starts.    *)
(***************************************************************************)
EXTENDS Boot, QueueTheorems, FiniteSetTheorems, TLAPS

(* What the code that follows the last free frame needs: the sizes.        *)
LEMMA Sizes ==
  /\ PTLen \in Nat /\ PTLen >= 4 /\ NFrames \in Nat /\ PTLen + 5 <= NFrames
  /\ KernelPages \in Nat /\ HeapMax \in Nat /\ 0 < KernelPages /\ KernelPages <= HeapMax
  /\ HeapMax <= PTLen - 3
  /\ MaxPid \in Nat /\ MaxPid >= 1
  /\ IDLE \in Pid /\ INIT \in Pid
  /\ \A i \in Page : i \in Frame /\ i \in Nat /\ i < PTLen
  /\ \A n \in 1..2 : StackPages[n] \in Page /\ WindowPages[n] \in Page
  /\ StackPages[1] = PTLen - 1 /\ StackPages[2] = PTLen - 2
  /\ WindowPages[1] = PTLen - 3 /\ WindowPages[2] = PTLen - 4
<1>1. PTLen >= 4 /\ PTLen \in Nat
  BY MemoryAssumption
<1> QED BY <1>1, MemoryAssumption DEF IDLE, INIT, Pid, Page, Frame, StackPages, WindowPages

----------------------------------------------------------------------------
(* The allocation of frames.                                               *)

(* first_free_frame_idx returns a free frame, as long as there are enough. *)
LEMMA FirstFree ==
  ASSUME NEW free, NEW n, HasFrames(free, n), NEW k \in 0..n-1
  PROVE  first_free_frame_idx(free, k) \in free /\ Below(free, first_free_frame_idx(free, k)) = k
BY DEF HasFrames, first_free_frame_idx

(* So several calls in a row return different free frames. *)
LEMMA TakenFree ==
  ASSUME NEW free, NEW n, HasFrames(free, n)
  PROVE  /\ Taken(free, n) \subseteq free
         /\ \A j, k \in 0..n-1 :
              first_free_frame_idx(free, j) = first_free_frame_idx(free, k) => j = k
BY FirstFree DEF Taken

(* The pages below the i-th of a set of pages are fewer than the pages,    *)
(* and each page has its own number of pages below it.                     *)
LEMMA PageRank ==
  ASSUME NEW pages \in SUBSET Page
  PROVE  /\ IsFiniteSet(pages) /\ Cardinality(pages) \in Nat
         /\ \A i \in pages :
              Cardinality({j \in pages : j < i}) \in 0..Cardinality(pages)-1
         /\ \A i, k \in pages :
              i < k => Cardinality({j \in pages : j < i}) < Cardinality({j \in pages : j < k})
<1>0. pages \subseteq Nat
  BY Sizes
<1>1. IsFiniteSet(pages) /\ Cardinality(pages) \in Nat
  <2>1. IsFiniteSet(Page)
    BY Sizes, FS_Interval DEF Page
  <2> QED BY <2>1, FS_Subset, FS_CardinalityType
<1>2. ASSUME NEW S \in SUBSET pages, NEW T \in SUBSET S, NEW x \in S, x \notin T
      PROVE  /\ Cardinality(T) \in Nat /\ Cardinality(S) \in Nat
             /\ Cardinality(T) < Cardinality(S)
  <2>1. IsFiniteSet(S)
    BY <1>1, FS_Subset
  <2>2. IsFiniteSet(T) /\ Cardinality(T) <= Cardinality(S) /\ Cardinality(S) # Cardinality(T)
    BY <1>2, <2>1, FS_Subset
  <2>3. Cardinality(T) \in Nat /\ Cardinality(S) \in Nat
    BY <2>1, <2>2, FS_CardinalityType
  <2> QED BY <2>2, <2>3
<1>3. ASSUME NEW i \in pages
      PROVE  Cardinality({j \in pages : j < i}) \in 0..Cardinality(pages)-1
  <2> DEFINE T == {j \in pages : j < i}
  <2>1. T \in SUBSET pages /\ i \notin T
    BY <1>0
  <2> HIDE DEF T
  <2>2. Cardinality(T) \in Nat /\ Cardinality(T) < Cardinality(pages)
    BY <1>2, <2>1
  <2>3. Cardinality(T) \in 0..Cardinality(pages)-1
    BY <1>1, <2>2
  <2> QED BY <2>3 DEF T
<1>4. ASSUME NEW i \in pages, NEW k \in pages, i < k
      PROVE  Cardinality({j \in pages : j < i}) < Cardinality({j \in pages : j < k})
  <2> DEFINE T == {j \in pages : j < i}
             S == {j \in pages : j < k}
  <2>0. i \in Nat /\ k \in Nat /\ \A j \in pages : j < i => j < k
    BY <1>0, <1>4
  <2>1. S \in SUBSET pages /\ T \in SUBSET S /\ i \in S /\ i \notin T
    <3>1. \A j \in T : j \in S
      BY <2>0
    <3>2. i \in S /\ i \notin T
      BY <1>4, <2>0
    <3> QED BY <3>1, <3>2
  <2> HIDE DEF S, T
  <2>2. Cardinality(T) < Cardinality(S)
    BY <1>2, <2>1
  <2> QED BY <2>2 DEF S, T
<1> QED BY <1>1, <1>3, <1>4

(* Filling a set of pages takes a free frame for each, all different, from *)
(* the calls that are made after the first `skip'.                         *)
LEMMA FramesForPages ==
  ASSUME NEW free, NEW n \in Nat, HasFrames(free, n),
         NEW pages \in SUBSET Page, NEW skip \in Nat, skip + Cardinality(pages) <= n
  PROVE  /\ \A i \in pages :
              /\ FrameFor(free, skip, pages, i) \in Taken(free, n)
              /\ FrameFor(free, skip, pages, i) \in free
         /\ \A i, k \in pages :
              FrameFor(free, skip, pages, i) = FrameFor(free, skip, pages, k) => i = k
         /\ \A i \in pages, k \in 0..n-1 :
              k < skip \/ k >= skip + Cardinality(pages)
                => FrameFor(free, skip, pages, i) # first_free_frame_idx(free, k)
<1> DEFINE rank(i) == Cardinality({j \in pages : j < i})
<1>1. /\ Cardinality(pages) \in Nat
      /\ \A i \in pages : rank(i) \in 0..Cardinality(pages)-1
      /\ \A i, k \in pages : i < k => rank(i) < rank(k)
  BY PageRank
<1>2. \A i : FrameFor(free, skip, pages, i) = first_free_frame_idx(free, skip + rank(i))
  BY DEF FrameFor
<1>3. \A i, k \in pages : rank(i) = rank(k) => i = k
  <2> SUFFICES ASSUME NEW i \in pages, NEW k \in pages, rank(i) = rank(k), i # k
               PROVE  FALSE
    OBVIOUS
  <2>1. i < k \/ k < i
    BY Sizes
  <2>2. rank(i) \in Nat /\ rank(k) \in Nat
    BY <1>1
  <2> HIDE DEF rank
  <2> QED BY <1>1, <2>1, <2>2
<1> HIDE DEF rank
<1>4. \A i \in pages : skip + rank(i) \in 0..n-1
  BY <1>1
<1>5. /\ Taken(free, n) \subseteq free
      /\ \A j, k \in 0..n-1 :
           first_free_frame_idx(free, j) = first_free_frame_idx(free, k) => j = k
  BY TakenFree
<1>6. \A i \in pages : FrameFor(free, skip, pages, i) \in Taken(free, n)
  BY <1>2, <1>4 DEF Taken
<1>7. ASSUME NEW i \in pages, NEW k \in pages,
             FrameFor(free, skip, pages, i) = FrameFor(free, skip, pages, k)
      PROVE  i = k
  <2>1. skip + rank(i) = skip + rank(k)
    BY <1>2, <1>4, <1>5, <1>7
  <2>2. rank(i) = rank(k)
    BY <1>1, <2>1
  <2> QED BY <1>3, <2>2
<1>8. ASSUME NEW i \in pages, NEW k \in 0..n-1, k < skip \/ k >= skip + Cardinality(pages)
      PROVE  FrameFor(free, skip, pages, i) # first_free_frame_idx(free, k)
  <2>1. skip + rank(i) # k
    BY <1>1, <1>8
  <2> QED BY <1>2, <1>4, <1>5, <2>1
<1> QED BY <1>5, <1>6, <1>7, <1>8

----------------------------------------------------------------------------
(* Types.                                                                  *)

Entry       == [valid : BOOLEAN, prot : {"none", "rx", "rw"}, pfn : Frame]
KernelEntry == [valid : BOOLEAN, pfn : Frame]

(* The entries the code writes into page tables are entries. *)
LEMMA EntryTypes ==
  /\ 0 \in Frame
  /\ Unmapped \in Entry /\ NoKernelPage \in KernelEntry
  /\ \A f \in Frame : /\ Mapped(f, "rw") \in Entry /\ Mapped(f, "rx") \in Entry
                      /\ KernelPage(f) \in KernelEntry
<1>1. 0 \in Frame
  BY Sizes DEF Frame
<1> QED BY <1>1 DEF Entry, KernelEntry, Unmapped, Mapped, KernelPage, NoKernelPage

(* The types, in the form in which the steps of the proofs use them. *)
LEMMA TypeFacts ==
  ASSUME TypeOK
  PROVE  /\ used \subseteq Frame /\ Free \subseteq Frame
         /\ kernel_page_table \in [Page -> KernelEntry]
         /\ user_page_table \in [Pid -> [Page -> Entry]]
         /\ alive \subseteq Pid /\ curr_pcb \in alive /\ next_pid \in Nat /\ next_pid \notin alive
         /\ \A p \in Pid, i \in Page :
              /\ user_page_table[p][i] \in Entry
              /\ kernel_page_table[i].pfn \in Frame
         /\ \A p \in Pid : kernel_stack[p][1] \in Frame /\ kernel_stack[p][2] \in Frame
         /\ \A p \in Pid : ValidPages(user_page_table[p]) \in SUBSET Page
         /\ \A p \in Pid : kernel_stack[p] = <<kernel_stack[p][1], kernel_stack[p][2]>>
<1>1. /\ used \subseteq Frame /\ Free \subseteq Frame
      /\ kernel_page_table \in [Page -> KernelEntry]
      /\ user_page_table \in [Pid -> [Page -> Entry]]
  BY DEF TypeOK, Free, Entry, KernelEntry
<1>2. alive \subseteq Pid /\ curr_pcb \in alive /\ next_pid \in Nat /\ next_pid \notin alive
  BY Sizes DEF TypeOK, Pid
<1>3. \A p \in Pid, i \in Page :
        user_page_table[p][i] \in Entry /\ kernel_page_table[i].pfn \in Frame
  BY <1>1 DEF KernelEntry
<1>4. \A p \in Pid : /\ kernel_stack[p][1] \in Frame /\ kernel_stack[p][2] \in Frame
                    /\ kernel_stack[p] = <<kernel_stack[p][1], kernel_stack[p][2]>>
  <2>1. kernel_stack \in [Pid -> Frame \X Frame]
    BY DEF TypeOK
  <2>2. \A x \in Frame \X Frame : x[1] \in Frame /\ x[2] \in Frame /\ x = <<x[1], x[2]>>
    OBVIOUS
  <2> QED BY <2>1, <2>2
<1>5. \A p \in Pid : ValidPages(user_page_table[p]) \in SUBSET Page
  BY DEF ValidPages
<1> QED BY <1>1, <1>2, <1>3, <1>4, <1>5

(* A switch of kernel stacks keeps the types. *)
LEMMA SwitchTypes ==
  ASSUME TypeOK, NEW q \in alive, KCSwitch(q)
  PROVE  /\ kernel_page_table' \in [Page -> KernelEntry]
         /\ kernel_stack' \in [Pid -> Frame \X Frame]
         /\ curr_pcb' = q /\ q \in Pid
<1>1. /\ kernel_page_table \in [Page -> KernelEntry] /\ q \in Pid /\ curr_pcb \in Pid
      /\ kernel_stack \in [Pid -> Frame \X Frame]
      /\ StackPages[1] \in Page /\ StackPages[2] \in Page
      /\ kernel_stack[q][1] \in Frame /\ kernel_stack[q][2] \in Frame
      /\ \A i \in Page : kernel_page_table[i].pfn \in Frame
  BY TypeFacts, Sizes DEF TypeOK
<1>2. kernel_stack' \in [Pid -> Frame \X Frame]
  BY <1>1 DEF KCSwitch, SavedStack
<1>3. kernel_page_table' \in [Page -> KernelEntry]
  BY <1>1, EntryTypes DEF KCSwitch
<1> QED BY <1>1, <1>2, <1>3 DEF KCSwitch

(* The kernel heap grows and shrinks. *)
LEMMA HeapTypes ==
  ASSUME TypeOK, NEW top \in KernelPages..HeapMax, SetKernelBrk(top)
  PROVE  TypeOK'
<1> DEFINE new == {i \in Page : KERNEL_BRK <= i /\ i < top}
           old == {i \in Page : top <= i /\ i < KERNEL_BRK}
<1>1. CASE /\ HasFrames(Free, Cardinality(new))
           /\ kernel_page_table' = [i \in Page |->
                IF i \in new THEN KernelPage(FrameFor(Free, 0, new, i)) ELSE kernel_page_table[i]]
           /\ used' = used \cup Taken(Free, Cardinality(new))
           /\ KERNEL_BRK' = top /\ UNCHANGED <<kernel_stack, process, user, fault, window_hit>>
  <2>0. new \in SUBSET Page /\ Cardinality(new) \in Nat
    BY PageRank
  <2> HIDE DEF new
  <2>1. /\ Taken(Free, Cardinality(new)) \subseteq Free
        /\ \A i \in new : FrameFor(Free, 0, new, i) \in Free
    BY <1>1, <2>0, TakenFree, FramesForPages
  <2>2. kernel_page_table' \in [Page -> KernelEntry] /\ used' \subseteq Frame
    BY <1>1, <2>1, TypeFacts, EntryTypes
  <2> QED BY <1>1, <2>2 DEF TypeOK, process, user, KernelEntry
<1>2. CASE OutOfFrames
  BY <1>2 DEF OutOfFrames, TypeOK, kernel, process, user
<1>3. CASE /\ used' = used \ {kernel_page_table[i].pfn : i \in old}
           /\ kernel_page_table' = LowerUnmaps(top)
           /\ KERNEL_BRK' = top /\ UNCHANGED <<kernel_stack, process, user, fault, window_hit>>
  <2>1. kernel_page_table' \in [Page -> KernelEntry] /\ used' \subseteq Frame
    BY <1>3, TypeFacts, EntryTypes DEF LowerUnmaps
  <2> QED BY <1>3, <2>1 DEF TypeOK, process, user, KernelEntry
<1> QED BY <1>1, <1>2, <1>3 DEF SetKernelBrk

(* A process gives up the processor, by the way of an exit or not. *)
LEMMA ScheduleTypes ==
  ASSUME TypeOK, NEW q, switch_to_next_ready_process(q) \/ KernelExit(q)
  PROVE  TypeOK'
<1>1. q \in alive \ {curr_pcb} /\ KCSwitch(q)
  BY DEF switch_to_next_ready_process, KernelExit
<1>2. /\ kernel_page_table' \in [Page -> KernelEntry]
      /\ kernel_stack' \in [Pid -> Frame \X Frame]
      /\ curr_pcb' = q /\ q \in Pid
  BY <1>1, SwitchTypes
<1>3. CASE switch_to_next_ready_process(q)
  BY <1>1, <1>2, <1>3 DEF switch_to_next_ready_process, TypeOK, user, KernelEntry
<1>4. CASE KernelExit(q)
  <2>1. EmptyTable \in [Page -> Entry]
    BY EntryTypes DEF EmptyTable
  <2>2. user_page_table' \in [Pid -> [Page -> Entry]]
    BY <1>4, <2>1, TypeFacts DEF KernelExit
  <2> QED BY <1>1, <1>2, <1>4, <2>2 DEF KernelExit, RunsProgram, TypeOK, KernelEntry, Entry
<1> QED BY <1>3, <1>4

(* What fork does to the page tables when there are enough frames, in the  *)
(* form in which the proofs use it.                                        *)
LEMMA ForkFrames ==
  ASSUME TypeOK,
         NEW pages, pages = ValidPages(user_page_table[curr_pcb]),
         NEW n, n = Cardinality(pages),
         HasFrames(Free, n + 4)
  PROVE  /\ Taken(Free, n + 4) \subseteq Free
         /\ CopiedTable(pages) \in [Page -> Entry]
         /\ \A i \in Page : CopiedTable(pages)[i].valid <=> i \in pages
         /\ \A i \in pages : CopiedTable(pages)[i].pfn \in Taken(Free, n + 4)
         /\ \A i, j \in pages : CopiedTable(pages)[i].pfn = CopiedTable(pages)[j].pfn => i = j
         /\ ClonedStack(n) \in Taken(Free, n + 4) \X Taken(Free, n + 4)
         /\ ClonedStack(n)[1] # ClonedStack(n)[2]
         /\ \A i \in pages : /\ CopiedTable(pages)[i].pfn # ClonedStack(n)[1]
                             /\ CopiedTable(pages)[i].pfn # ClonedStack(n)[2]
<1>0. curr_pcb \in Pid /\ pages \in SUBSET Page /\ Free \subseteq Frame
  BY TypeFacts
<1>1. n \in Nat
  BY <1>0, PageRank
<1>2. /\ n + 4 \in Nat /\ 2 + Cardinality(pages) <= n + 4
      /\ 2 \in Nat /\ n + 2 \in 0..(n + 4)-1 /\ n + 3 \in 0..(n + 4)-1
      /\ n + 2 >= 2 + Cardinality(pages) /\ n + 3 >= 2 + Cardinality(pages)
      /\ n + 2 # n + 3
  BY <1>1
<1>3. /\ Taken(Free, n + 4) \subseteq Free
      /\ \A j, k \in 0..(n + 4)-1 :
           first_free_frame_idx(Free, j) = first_free_frame_idx(Free, k) => j = k
  BY TakenFree
<1>4. /\ \A i \in pages : FrameFor(Free, 2, pages, i) \in Taken(Free, n + 4)
      /\ \A i, k \in pages :
           FrameFor(Free, 2, pages, i) = FrameFor(Free, 2, pages, k) => i = k
      /\ \A i \in pages, k \in 0..(n + 4)-1 :
           k < 2 \/ k >= 2 + Cardinality(pages)
             => FrameFor(Free, 2, pages, i) # first_free_frame_idx(Free, k)
  <2> HIDE DEF Free
  <2> QED BY <1>0, <1>2, FramesForPages
<1>5. \A i \in pages : FrameFor(Free, 2, pages, i) \in Frame
  BY <1>0, <1>3, <1>4
<1>6. \A i \in Page : user_page_table[curr_pcb][i].prot \in {"none", "rx", "rw"}
  BY <1>0, TypeFacts DEF Entry
<1>7. CopiedTable(pages) \in [Page -> Entry]
  BY <1>5, <1>6, EntryTypes DEF CopiedTable, Mapped, Entry
<1>8. /\ \A i \in pages : CopiedTable(pages)[i].pfn = FrameFor(Free, 2, pages, i)
      /\ \A i \in Page : CopiedTable(pages)[i].valid <=> i \in pages
  BY <1>0 DEF CopiedTable, Mapped, Unmapped
<1>9. /\ first_free_frame_idx(Free, n + 2) \in Taken(Free, n + 4)
      /\ first_free_frame_idx(Free, n + 3) \in Taken(Free, n + 4)
      /\ first_free_frame_idx(Free, n + 2) # first_free_frame_idx(Free, n + 3)
  BY <1>2, <1>3 DEF Taken
<1>10. /\ ClonedStack(n)[1] = first_free_frame_idx(Free, n + 2)
       /\ ClonedStack(n)[2] = first_free_frame_idx(Free, n + 3)
       /\ ClonedStack(n) \in Taken(Free, n + 4) \X Taken(Free, n + 4)
  BY <1>9 DEF ClonedStack
<1>11. \A i \in pages : /\ FrameFor(Free, 2, pages, i) # first_free_frame_idx(Free, n + 2)
                        /\ FrameFor(Free, 2, pages, i) # first_free_frame_idx(Free, n + 3)
  BY <1>2, <1>4
<1> QED BY <1>3, <1>4, <1>7, <1>8, <1>9, <1>10, <1>11

(* Fork keeps the types. *)
LEMMA ForkTypes ==
  ASSUME TypeOK, KernelFork
  PROVE  TypeOK'
<1> DEFINE pages == ValidPages(user_page_table[curr_pcb])
           n     == Cardinality(pages)
<1>1. CASE OutOfFrames
  BY <1>1 DEF OutOfFrames, TypeOK, kernel, process, user
<1>2. CASE HasFrames(Free, n + 4) /\ ~OutOfFrames
  <2>1. /\ Taken(Free, n + 4) \subseteq Frame
        /\ CopiedTable(pages) \in [Page -> Entry]
        /\ ClonedStack(n) \in Frame \X Frame
    <3>1. Taken(Free, n + 4) \subseteq Free /\ CopiedTable(pages) \in [Page -> Entry]
          /\ ClonedStack(n) \in Taken(Free, n + 4) \X Taken(Free, n + 4)
      BY <1>2, ForkFrames
    <3> HIDE DEF pages, n
    <3> QED BY <3>1, TypeFacts
  <2>2. /\ used' = used \cup Taken(Free, n + 4)
        /\ user_page_table' = [user_page_table EXCEPT ![next_pid] = CopiedTable(pages)]
        /\ brk' = [brk EXCEPT ![next_pid] = VMEM_1_BASE]
        /\ region_1_sp' = [region_1_sp EXCEPT ![next_pid] = VMEM_1_LIMIT]
        /\ image' = [image EXCEPT ![next_pid] = image[curr_pcb]]
        /\ kernel_stack' = [kernel_stack EXCEPT ![next_pid] = ClonedStack(n)]
        /\ kernel_page_table' = [kernel_page_table EXCEPT ![WindowPages[1]] = NoKernelPage,
                                                          ![WindowPages[2]] = NoKernelPage]
        /\ window_hit' = (window_hit \/ kernel_page_table[WindowPages[2]].valid)
        /\ next_pid' = next_pid + 1 /\ alive' = alive \cup {next_pid}
        /\ UNCHANGED <<KERNEL_BRK, curr_pcb, fault>>
        /\ next_pid <= MaxPid
    BY <1>2 DEF KernelFork
  <2> HIDE DEF pages, n
  <2>3. /\ used' \subseteq Frame
        /\ user_page_table' \in [Pid -> [Page -> Entry]]
        /\ kernel_page_table' \in [Page -> KernelEntry]
        /\ kernel_stack' \in [Pid -> Frame \X Frame]
        /\ image' \in [Pid -> {"none", "whole", "part"}]
    BY <2>1, <2>2, TypeFacts, EntryTypes, Sizes DEF TypeOK
  <2>4. brk' \in [Pid -> Address] /\ region_1_sp' \in [Pid -> Address]
    BY <2>2, Sizes DEF TypeOK, Address, VMEM_1_BASE, VMEM_1_LIMIT
  <2>5. /\ alive' \subseteq 0..next_pid'-1 /\ IDLE \in alive' /\ curr_pcb' \in alive'
        /\ next_pid' \in Pid \cup {MaxPid + 1}
    BY <2>2, Sizes DEF TypeOK, Pid
  <2>6. window_hit' \in BOOLEAN
    BY <2>2
  <2> QED BY <2>2, <2>3, <2>4, <2>5, <2>6 DEF TypeOK, Entry, KernelEntry
<1> QED BY <1>1, <1>2 DEF KernelFork

(* The pages a program is loaded to, and what else LoadProgram sets. *)
LoadedPages(im) ==
  Section(im.text_pg1, im.t_npg) \cup Section(im.data_pg1, im.data_npg)
    \cup Section(PTLen - im.stack_npg, im.stack_npg)

(* The pages of a program that LoadProgram accepts fit into region 1. *)
LEMMA ProgramSizes ==
  ASSUME NEW im \in Programs, Fits(im)
  PROVE  /\ LoadedPages(im) \in SUBSET Page
         /\ LoadedPages(im) = {i \in Page : i < im.data_pg1 + im.data_npg
                                              \/ PTLen - im.stack_npg <= i}
         /\ im.data_pg1 + im.data_npg \in Nat /\ im.stack_npg \in Nat \ {0}
         /\ im.data_pg1 + im.data_npg < PTLen - im.stack_npg
         /\ PTLen \in Nat
<1>1. /\ im.text_pg1 = 0 /\ im.t_npg \in Nat \ {0}
      /\ im.data_pg1 = im.t_npg /\ im.data_npg \in Nat /\ im.stack_npg \in Nat \ {0}
      /\ PTLen \in Nat
  BY MemoryAssumption
<1> DEFINE t == im.t_npg
           d == im.data_npg
           s == im.stack_npg
<1>2. t \in Nat /\ d \in Nat /\ s \in Nat \ {0} /\ s + t + d < PTLen
      /\ im.text_pg1 = 0 /\ im.data_pg1 = t
  BY <1>1 DEF Fits
<1> HIDE DEF t, d, s
<1>3. \A i \in Page :
        ((0 <= i /\ i < 0 + t) \/ (t <= i /\ i < t + d) \/ (PTLen - s <= i /\ i < PTLen - s + s))
          <=> (i < t + d \/ PTLen - s <= i)
  BY <1>1, <1>2 DEF Page
<1>4. LoadedPages(im) = {i \in Page : i < im.data_pg1 + im.data_npg \/ PTLen - im.stack_npg <= i}
  BY <1>1, <1>2, <1>3 DEF LoadedPages, Section, t, d, s
<1>5. im.data_pg1 + im.data_npg < PTLen - im.stack_npg /\ im.data_pg1 + im.data_npg \in Nat
  BY <1>1, <1>2 DEF t, d, s
<1> QED BY <1>1, <1>4, <1>5

(* The pages that are executable in the end: none, if the file could not   *)
(* be read.                                                                *)
Executable(im, read) == IF read THEN Section(im.text_pg1, im.t_npg) ELSE {}

LoadedTable(im, exec, old, free) ==
  [i \in Page |->
     IF i \in LoadedPages(im)
     THEN Mapped(FrameFor(free, 0, LoadedPages(im), i), IF i \in exec THEN "rx" ELSE "rw")
     ELSE [old[i] EXCEPT !.valid = FALSE]]

(* Every page of the program gets a frame of its own. *)
LEMMA LoadedEntries ==
  ASSUME NEW im \in Programs, Fits(im), NEW exec,
         NEW old \in [Page -> Entry], NEW free \in SUBSET Frame,
         HasFrames(free, Cardinality(LoadedPages(im)))
  PROVE  /\ Taken(free, Cardinality(LoadedPages(im))) \subseteq free
         /\ LoadedTable(im, exec, old, free) \in [Page -> Entry]
         /\ \A i \in Page : LoadedTable(im, exec, old, free)[i].valid <=> i \in LoadedPages(im)
         /\ \A i \in LoadedPages(im) :
              LoadedTable(im, exec, old, free)[i].pfn \in Taken(free, Cardinality(LoadedPages(im)))
         /\ \A i, j \in LoadedPages(im) :
              LoadedTable(im, exec, old, free)[i].pfn = LoadedTable(im, exec, old, free)[j].pfn => i = j
<1> DEFINE pages   == LoadedPages(im)
           n       == Cardinality(pages)
           table   == LoadedTable(im, exec, old, free)
           prot(i) == IF i \in exec THEN "rx" ELSE "rw"
<1>1. pages \in SUBSET Page
  BY ProgramSizes
<1>2. table = [i \in Page |->
        IF i \in pages THEN Mapped(FrameFor(free, 0, pages, i), prot(i))
                       ELSE [old[i] EXCEPT !.valid = FALSE]]
  BY DEF LoadedTable
<1>3. \A i : prot(i) = "rx" \/ prot(i) = "rw"
  OBVIOUS
<1>4. HasFrames(free, n)
  OBVIOUS
<1> HIDE DEF pages, table, prot
<1>5. n \in Nat /\ 0 \in Nat /\ 0 + n <= n
  <2>1. n \in Nat
    BY <1>1, PageRank
  <2> QED BY <2>1
<1>6. /\ Taken(free, n) \subseteq free
      /\ \A i \in pages : FrameFor(free, 0, pages, i) \in Taken(free, n)
      /\ \A i, k \in pages :
           FrameFor(free, 0, pages, i) = FrameFor(free, 0, pages, k) => i = k
  BY <1>1, <1>4, <1>5, TakenFree, FramesForPages
<1>7. /\ \A i \in pages : table[i].pfn = FrameFor(free, 0, pages, i)
      /\ \A i \in Page : table[i].valid <=> i \in pages
  BY <1>1, <1>2 DEF Mapped, Entry
<1>8. table \in [Page -> Entry]
  <2>1. \A i \in pages : Mapped(FrameFor(free, 0, pages, i), prot(i)) \in Entry
    BY <1>3, <1>6, EntryTypes
  <2>2. \A i \in Page : [old[i] EXCEPT !.valid = FALSE] \in Entry
    BY DEF Entry
  <2> QED BY <1>2, <2>1, <2>2
<1> QED BY <1>6, <1>7, <1>8 DEF pages, table

(* What LoadProgram does when there are enough frames. *)
LEMMA LoadFrames ==
  ASSUME TypeOK, NEW im \in Programs, NEW read \in BOOLEAN, LoadProgram(im, read), ~OutOfFrames
  PROVE  LET old   == user_page_table[curr_pcb]
             free  == Free \cup FramesOf(old)
             n     == Cardinality(LoadedPages(im))
             table == LoadedTable(im, Executable(im, read), old, free) IN
         /\ curr_pcb # IDLE /\ Fits(im) /\ HasFrames(free, n)
         /\ old \in [Page -> Entry] /\ free \in SUBSET Frame
         /\ used' = (used \ FramesOf(old)) \cup Taken(free, n)
         /\ user_page_table' = [user_page_table EXCEPT ![curr_pcb] = table]
         /\ brk' = [brk EXCEPT ![curr_pcb] = im.data_pg1 + im.data_npg + PTLen]
         /\ region_1_sp' = [region_1_sp EXCEPT ![curr_pcb] = (VMEM_1_LIMIT - 1) - im.stack_npg]
         /\ image' \in {[image EXCEPT ![curr_pcb] = "whole"], [image EXCEPT ![curr_pcb] = "part"]}
         /\ UNCHANGED <<kernel, process, fault, window_hit>>
<1> DEFINE old   == user_page_table[curr_pcb]
           free  == Free \cup FramesOf(old)
           pages == LoadedPages(im)
           n     == Cardinality(pages)
           text  == Section(im.text_pg1, im.t_npg)
           exec  == Executable(im, read)
<1>1. old \in [Page -> Entry] /\ free \in SUBSET Frame
  <2>1. old \in [Page -> Entry]
    BY TypeFacts
  <2>2. \A i \in Page : old[i].pfn \in Frame
    BY <2>1 DEF Entry
  <2> QED BY <2>1, <2>2, TypeFacts DEF FramesOf, ValidPages
<1>2. \A i : i \in exec <=> i \in text /\ read
  BY Zenon DEF Executable
<1>3. /\ curr_pcb # IDLE /\ Fits(im) /\ HasFrames(free, n)
      /\ used' = (used \ FramesOf(old)) \cup Taken(free, n)
      /\ user_page_table' = [user_page_table EXCEPT ![curr_pcb] = [i \in Page |->
           IF i \in pages
           THEN Mapped(FrameFor(free, 0, pages, i), IF i \in text /\ read THEN "rx" ELSE "rw")
           ELSE [old[i] EXCEPT !.valid = FALSE]]]
      /\ brk' = [brk EXCEPT ![curr_pcb] = im.data_pg1 + im.data_npg + PTLen]
      /\ region_1_sp' = [region_1_sp EXCEPT ![curr_pcb] = (VMEM_1_LIMIT - 1) - im.stack_npg]
      /\ image' = [image EXCEPT ![curr_pcb] = IF read THEN "whole" ELSE "part"]
      /\ UNCHANGED <<kernel, process, fault, window_hit>>
  BY DEF LoadProgram, FreedBy, LoadedPages
<1>4. [i \in Page |->
        IF i \in pages
        THEN Mapped(FrameFor(free, 0, pages, i), IF i \in text /\ read THEN "rx" ELSE "rw")
        ELSE [old[i] EXCEPT !.valid = FALSE]] = LoadedTable(im, exec, old, free)
  <2> HIDE DEF exec, old, free, text
  <2> QED BY <1>2, Zenon DEF LoadedTable
<1>5. image' \in {[image EXCEPT ![curr_pcb] = "whole"], [image EXCEPT ![curr_pcb] = "part"]}
  <2>1. (IF read THEN "whole" ELSE "part") = "whole" \/ (IF read THEN "whole" ELSE "part") = "part"
    BY Zenon
  <2> QED BY <1>3, <2>1, Zenon
<1>6. user_page_table' = [user_page_table EXCEPT ![curr_pcb] = LoadedTable(im, exec, old, free)]
  BY <1>3, <1>4, Zenon
<1> HIDE DEF old, free, exec, n
<1> QED BY <1>1, <1>3, <1>5, <1>6 DEF old, free, exec, n

(* LoadProgram keeps the types. *)
LEMMA LoadTypes ==
  ASSUME TypeOK, NEW im \in Programs, NEW read \in BOOLEAN, LoadProgram(im, read)
  PROVE  TypeOK'
<1> DEFINE old   == user_page_table[curr_pcb]
           free  == Free \cup FramesOf(old)
           n     == Cardinality(LoadedPages(im))
           table == LoadedTable(im, Executable(im, read), old, free)
<1>1. CASE OutOfFrames
  BY <1>1 DEF OutOfFrames, TypeOK, kernel, process, user
<1>2. CASE ~OutOfFrames
  <2>1. /\ Fits(im) /\ HasFrames(free, n) /\ old \in [Page -> Entry] /\ free \in SUBSET Frame
        /\ used' = (used \ FramesOf(old)) \cup Taken(free, n)
        /\ user_page_table' = [user_page_table EXCEPT ![curr_pcb] = table]
        /\ brk' = [brk EXCEPT ![curr_pcb] = im.data_pg1 + im.data_npg + PTLen]
        /\ region_1_sp' = [region_1_sp EXCEPT ![curr_pcb] = (VMEM_1_LIMIT - 1) - im.stack_npg]
        /\ image' \in {[image EXCEPT ![curr_pcb] = "whole"], [image EXCEPT ![curr_pcb] = "part"]}
        /\ UNCHANGED <<kernel, process, fault, window_hit>>
    BY <1>2, LoadFrames
  <2> HIDE DEF free, old
  <2>2. Taken(free, n) \subseteq free /\ table \in [Page -> Entry]
    BY <2>1, LoadedEntries
  <2> HIDE DEF n, table
  <2>3. used' \subseteq Frame /\ user_page_table' \in [Pid -> [Page -> Entry]]
    BY <2>1, <2>2, TypeFacts
  <2>4. /\ im.data_pg1 + im.data_npg + PTLen \in Address
        /\ (VMEM_1_LIMIT - 1) - im.stack_npg \in Address
    BY <2>1, ProgramSizes DEF Address, VMEM_1_BASE, VMEM_1_LIMIT
  <2> QED BY <2>1, <2>3, <2>4 DEF TypeOK, kernel, process, Entry
<1> QED BY <1>1, <1>2

(* What KernelBrk does when there are enough frames: the pages between the *)
(* old break and the new one are mapped or unmapped.                       *)
RaisedTable(addr) ==
  [i \in Page |-> IF i \in Raised(addr) THEN Mapped(FrameFor(Free, 0, Raised(addr), i), "rw")
                                        ELSE user_page_table[curr_pcb][i]]

(* The frames with which Brk raises the break were free, and each is for *)
(* one page. *)
LEMMA RaiseFrames ==
  ASSUME TypeOK, NEW addr \in Nat,
         NEW n, n = Cardinality(Raised(addr)), HasFrames(Free, n)
  PROVE  /\ Taken(Free, n) \subseteq Free
         /\ Raised(addr) \in SUBSET Page
         /\ RaisedTable(addr) \in [Page -> Entry]
         /\ \A i \in Page \ Raised(addr) : RaisedTable(addr)[i] = user_page_table[curr_pcb][i]
         /\ \A i \in Raised(addr) : /\ RaisedTable(addr)[i].valid
                                    /\ RaisedTable(addr)[i].pfn \in Taken(Free, n)
         /\ \A i, j \in Raised(addr) : RaisedTable(addr)[i].pfn = RaisedTable(addr)[j].pfn => i = j
<1>1. Raised(addr) \in SUBSET Page
  BY DEF Raised
<1>2. n \in Nat /\ 0 + Cardinality(Raised(addr)) <= n
  <2>1. Cardinality(Raised(addr)) \in Nat
    BY <1>1, PageRank
  <2> QED BY <2>1
<1>3. /\ Taken(Free, n) \subseteq Free
      /\ \A i \in Raised(addr) : FrameFor(Free, 0, Raised(addr), i) \in Taken(Free, n)
      /\ \A i, k \in Raised(addr) :
           FrameFor(Free, 0, Raised(addr), i) = FrameFor(Free, 0, Raised(addr), k) => i = k
  <2> HIDE DEF Free
  <2> QED BY <1>1, <1>2, TakenFree, FramesForPages
<1>4. /\ \A i \in Raised(addr) : /\ RaisedTable(addr)[i].valid
                                /\ RaisedTable(addr)[i].pfn = FrameFor(Free, 0, Raised(addr), i)
      /\ \A i \in Page \ Raised(addr) : RaisedTable(addr)[i] = user_page_table[curr_pcb][i]
  BY <1>1 DEF RaisedTable, Mapped
<1>5. RaisedTable(addr) \in [Page -> Entry]
  <2>1. \A i \in Raised(addr) : FrameFor(Free, 0, Raised(addr), i) \in Frame
    BY <1>3, TypeFacts
  <2>2. \A i \in Page : user_page_table[curr_pcb][i] \in Entry
    BY TypeFacts
  <2> QED BY <2>1, <2>2, EntryTypes DEF RaisedTable
<1> QED BY <1>1, <1>3, <1>4, <1>5

(* Brk keeps the types. *)
LEMMA BrkTypes ==
  ASSUME TypeOK, NEW addr \in Nat, KernelBrk(addr)
  PROVE  TypeOK'
<1> DEFINE old == {i \in Page : addr <= i + PTLen /\ i + PTLen < brk[curr_pcb]}
           n   == Cardinality(Raised(addr))
<1>0. addr \in Address
  BY Sizes, TypeFacts DEF KernelBrk, WithinBound, TypeOK, Address, VMEM_1_BASE, VMEM_1_LIMIT
<1>1. CASE OutOfFrames
  BY <1>1 DEF OutOfFrames, TypeOK, kernel, process, user
<1>2. CASE /\ used' = used \ {user_page_table[curr_pcb][i].pfn : i \in old}
           /\ user_page_table' =
                [user_page_table EXCEPT ![curr_pcb] = Lowered(user_page_table[curr_pcb], old)]
           /\ brk' = [brk EXCEPT ![curr_pcb] = addr]
           /\ UNCHANGED <<kernel, process, region_1_sp, image, fault, window_hit>>
  <2>1. Lowered(user_page_table[curr_pcb], old) \in [Page -> Entry]
    BY EntryTypes, TypeFacts DEF Lowered
  <2>2. used' \subseteq Frame /\ user_page_table' \in [Pid -> [Page -> Entry]]
    BY <1>2, <2>1, TypeFacts
  <2> QED BY <1>0, <1>2, <2>2 DEF TypeOK, kernel, process, Entry
<1>3. CASE /\ HasFrames(Free, n)
           /\ used' = used \cup Taken(Free, n)
           /\ user_page_table' = [user_page_table EXCEPT ![curr_pcb] = RaisedTable(addr)]
           /\ brk' = [brk EXCEPT ![curr_pcb] = addr]
           /\ UNCHANGED <<kernel, process, region_1_sp, image, fault, window_hit>>
  <2>1. Taken(Free, n) \subseteq Free /\ RaisedTable(addr) \in [Page -> Entry]
    BY <1>3, RaiseFrames
  <2> HIDE DEF n
  <2>2. used' \subseteq Frame /\ user_page_table' \in [Pid -> [Page -> Entry]]
    BY <1>3, <2>1, TypeFacts
  <2> QED BY <1>0, <1>3, <2>2 DEF TypeOK, kernel, process, Entry
<1> QED BY <1>1, <1>2, <1>3 DEF KernelBrk, RaisedTable

(* Every step of the kernel keeps the types of the memory. *)
LEMMA TypeStep == TypeOK /\ [Next]_vars => TypeOK'
<1> SUFFICES ASSUME TypeOK, [Next]_vars
             PROVE  TypeOK'
  OBVIOUS
<1>1. CASE UNCHANGED vars
  BY <1>1 DEF vars, kernel, process, user, TypeOK
<1>2. ASSUME NEW addr, trap_memory_handler(addr)
      PROVE  TypeOK'
  <2>1. CASE fault' = "overrun" /\ UNCHANGED <<used, kernel, process, user, window_hit>>
    BY <2>1 DEF kernel, process, user, TypeOK
  <2> QED BY <1>1, <1>2, <2>1, ScheduleTypes DEF trap_memory_handler
<1>3. Breaks \subseteq Nat
  BY MemoryAssumption
<1> QED BY <1>1, <1>2, <1>3, HeapTypes, ScheduleTypes, ForkTypes, LoadTypes, BrkTypes DEF Next

(* After boot the types are right. *)
LEMMA TypeInit == Init => TypeOK
<1> SUFFICES ASSUME Init
             PROVE  TypeOK
  OBVIOUS
<1> DEFINE free   == Frame \ BootFrames
           new(k) == first_free_frame_idx(free, k)
<1>1. /\ HasFrames(free, 5) /\ used = BootFrames \cup Taken(free, 5)
      /\ BootFrames \subseteq Page
  BY Sizes, SMTT(30) DEF Init, BootFrames, Page
<1>2. Taken(free, 5) \subseteq free /\ \A k \in 0..4 : new(k) \in free
  <2>1. \A k \in 0..4 : k \in 0..5-1
    OBVIOUS
  <2> HIDE DEF free
  <2> QED BY <1>1, <2>1, TakenFree, FirstFree
<1>3. new(0) \in Frame /\ new(3) \in Frame /\ new(4) \in Frame /\ used \subseteq Frame
  <2>1. 0 \in 0..4 /\ 3 \in 0..4 /\ 4 \in 0..4
    OBVIOUS
  <2>2. free \subseteq Frame /\ BootFrames \subseteq Frame
    BY <1>1, Sizes
  <2> HIDE DEF free, new
  <2> QED BY <1>1, <1>2, <2>1, <2>2
<1> HIDE DEF new, free
<1>4. kernel_page_table \in [Page -> KernelEntry]
  <2>1. \A i \in Page : [NoKernelPage EXCEPT !.pfn = i] \in KernelEntry
    BY Sizes DEF NoKernelPage, KernelEntry
  <2> QED BY <2>1, EntryTypes, Sizes DEF Init
<1>5. user_page_table \in [Pid -> [Page -> Entry]]
  <2>1. EmptyTable \in [Page -> Entry]
    BY EntryTypes DEF EmptyTable
  <2>2. [EmptyTable EXCEPT ![PTLen - 1] = Mapped(new(0), "rw")] \in [Page -> Entry]
    BY <1>3, <2>1, EntryTypes
  <2>3. user_page_table = [p \in Pid |->
          IF p = IDLE THEN [EmptyTable EXCEPT ![PTLen - 1] = Mapped(new(0), "rw")] ELSE EmptyTable]
    BY DEF Init, new, free
  <2> QED BY <2>1, <2>2, <2>3
<1>6. kernel_stack \in [Pid -> Frame \X Frame]
  <2>1. kernel_stack = [p \in Pid |-> IF p = INIT THEN <<new(3), new(4)>> ELSE <<0, 0>>]
    BY DEF Init, new, free
  <2> QED BY <1>3, <2>1, EntryTypes
<1>7. /\ alive \subseteq 0..next_pid-1 /\ IDLE \in alive /\ curr_pcb \in alive
      /\ next_pid \in Pid \cup {MaxPid + 1} /\ KERNEL_BRK \in KernelPages..HeapMax
      /\ brk \in [Pid -> Address] /\ region_1_sp \in [Pid -> Address]
  <2>1. /\ KERNEL_BRK = KernelPages /\ curr_pcb = IDLE /\ next_pid = INIT + 1
        /\ alive = {IDLE, INIT}
        /\ brk = [p \in Pid |-> VMEM_1_BASE] /\ region_1_sp = [p \in Pid |-> VMEM_1_LIMIT]
    BY DEF Init
  <2> QED BY <2>1, Sizes DEF IDLE, INIT, Pid, Address, VMEM_1_BASE, VMEM_1_LIMIT
<1>8. /\ image \in [Pid -> {"none", "whole", "part"}]
      /\ fault \in {"none", "exhausted", "overrun"} /\ window_hit \in BOOLEAN
  <2>1. /\ image = [p \in Pid |-> "none"] /\ fault = "none"
        /\ window_hit = (WindowPages[2] < KernelPages)
    BY DEF Init
  <2>2. (WindowPages[2] < KernelPages) \in BOOLEAN
    OBVIOUS
  <2> QED BY <2>1, <2>2
<1> QED BY <1>3, <1>4, <1>5, <1>6, <1>7, <1>8 DEF TypeOK, KernelEntry, Entry

(* Every variable of the memory keeps its type, the running process is     *)
(* alive and breaks and stack pointers stay in region 1, for any number of *)
(* processes, frames and pages.                                            *)
THEOREM MemoryTypes == Spec => []TypeOK
BY TypeInit, TypeStep, PTL DEF Spec

----------------------------------------------------------------------------
(* What the kernel maps.                                                   *)

(* KernelLayout, page by page. *)
MappedByKernel ==
  /\ \A i \in Page : i # WindowPages[2] \/ ~window_hit =>
       (kernel_page_table[i].valid <=> (i < KERNEL_BRK \/ i = StackPages[1] \/ i = StackPages[2]))
  /\ kernel_page_table[WindowPages[2]].valid => WindowPages[2] < KERNEL_BRK

(* KernelLayout says of each page of region 0 what maps it. *)
LEMMA KernelLayoutByPage == TypeOK => (KernelLayout <=> MappedByKernel)
<1> SUFFICES ASSUME TypeOK
             PROVE  KernelLayout <=> MappedByKernel
  OBVIOUS
<1> DEFINE w      == WindowPages[2]
           needed == (0..KERNEL_BRK-1) \cup {StackPages[1], StackPages[2]}
<1>1. KERNEL_BRK \in Nat /\ KERNEL_BRK <= PTLen - 3 /\ PTLen \in Nat
  BY Sizes DEF TypeOK
<1>2. \A i : i \in needed <=> i \in Page /\ (i < KERNEL_BRK \/ i = StackPages[1] \/ i = StackPages[2])
  BY <1>1, Sizes DEF Page
<1>3. \A i : i \in KernelUses <=> i \in Page /\ kernel_page_table[i].valid
  BY DEF KernelUses
<1>4. w \in Page /\ w # StackPages[1] /\ w # StackPages[2] /\ window_hit \in BOOLEAN
  BY Sizes DEF TypeOK
<1>5. KernelLayout <=> KernelUses = needed \/ (window_hit /\ KernelUses = needed \ {w})
  BY DEF KernelLayout
<1>6. MappedByKernel <=>
        /\ \A i \in Page : i # w \/ ~window_hit => (i \in KernelUses <=> i \in needed)
        /\ w \in KernelUses => w \in needed
  BY <1>2, <1>3, <1>4 DEF MappedByKernel
<1> HIDE DEF needed, w
<1>7. (\A i : i \in KernelUses => i \in Page) /\ (\A i : i \in needed => i \in Page)
  BY <1>2, <1>3
<1>8. ASSUME KernelLayout
      PROVE  MappedByKernel
  BY <1>5, <1>6, <1>8
<1>9. ASSUME MappedByKernel
      PROVE  KernelLayout
  <2>1. CASE KernelUses = needed
    BY <1>5, <2>1
  <2>2. CASE KernelUses # needed
    <3>1. window_hit /\ w \notin KernelUses
      BY <1>6, <1>7, <1>9, <2>2
    <3>2. KernelUses = needed \ {w}
      BY <1>6, <1>7, <1>9, <3>1
    <3> QED BY <1>5, <3>1, <3>2
  <2> QED BY <2>1, <2>2
<1> QED BY <1>8, <1>9

(* Once a window has hit the heap it has. *)
LEMMA HitStays ==
  ASSUME window_hit, [Next]_vars
  PROVE  window_hit'
<1>1. ASSUME NEW top, SetKernelBrk(top)
      PROVE  window_hit'
  BY <1>1 DEF SetKernelBrk, OutOfFrames
<1>2. ASSUME NEW q, switch_to_next_ready_process(q) \/ KernelExit(q)
      PROVE  window_hit'
  BY <1>2 DEF switch_to_next_ready_process, KernelExit
<1>3. ASSUME NEW addr, trap_memory_handler(addr)
      PROVE  window_hit'
  BY <1>2, <1>3 DEF trap_memory_handler, vars
<1> QED BY <1>1, <1>2, <1>3 DEF Next, KernelFork, LoadProgram, KernelBrk, OutOfFrames, vars

(* No operation unmaps a page of the kernel that it needs, or leaves one   *)
(* mapped that it does not, but for the window that a fork closes.         *)
LEMMA KernelLayoutStep ==
  ASSUME TypeOK, KernelLayout, [Next]_vars
  PROVE  KernelLayout'
<1> SUFFICES MappedByKernel'
  <2>1. (TypeOK => (KernelLayout <=> MappedByKernel))'
    BY KernelLayoutByPage, PTL
  <2> QED BY <2>1, TypeStep
<1>0. /\ MappedByKernel /\ TypeOK'
      /\ kernel_page_table \in [Page -> KernelEntry] /\ window_hit \in BOOLEAN
      /\ KERNEL_BRK \in Nat /\ KERNEL_BRK <= PTLen - 3 /\ PTLen \in Nat /\ PTLen >= 4
      /\ WindowPages[2] \in Page /\ WindowPages[2] # StackPages[1] /\ WindowPages[2] # StackPages[2]
  BY TypeStep, TypeFacts, KernelLayoutByPage, Sizes DEF TypeOK
<1>1. ASSUME UNCHANGED <<kernel_page_table, KERNEL_BRK, window_hit>>
      PROVE  MappedByKernel'
  BY <1>0, <1>1 DEF MappedByKernel
<1>2. ASSUME NEW top \in KernelPages..HeapMax, SetKernelBrk(top)
      PROVE  MappedByKernel'
  <2> DEFINE new == {i \in Page : KERNEL_BRK <= i /\ i < top}
             old == {i \in Page : top <= i /\ i < KERNEL_BRK}
  <2>0. top \in Nat /\ top <= PTLen - 3 /\ \A i \in Page : i \in Nat
    BY Sizes
  <2>1. ASSUME new # {}, KERNEL_BRK' = top, window_hit' = window_hit,
               kernel_page_table' = [i \in Page |->
                 IF i \in new THEN KernelPage(FrameFor(Free, 0, new, i)) ELSE kernel_page_table[i]]
        PROVE  MappedByKernel'
    <3>1. KERNEL_BRK < top
      BY <1>0, <2>0, <2>1
    <3>2. \A i \in Page : kernel_page_table'[i].valid <=> i \in new \/ kernel_page_table[i].valid
      BY <2>1 DEF KernelPage
    <3> QED BY <1>0, <2>0, <2>1, <3>1, <3>2, Sizes DEF MappedByKernel
  <2>2. ASSUME old # {}, KERNEL_BRK' = top, window_hit' = window_hit,
               kernel_page_table' = LowerUnmaps(top)
        PROVE  MappedByKernel'
    <3>1. top < KERNEL_BRK
      BY <1>0, <2>0, <2>2
    <3>2. \A i \in Page : kernel_page_table'[i].valid <=> i \notin old /\ kernel_page_table[i].valid
      BY <2>2 DEF LowerUnmaps, NoKernelPage
    <3> QED BY <1>0, <2>0, <2>2, <3>1, <3>2, Sizes DEF MappedByKernel
  <2>3. CASE OutOfFrames
    BY <1>1, <2>3 DEF OutOfFrames, kernel
  <2> QED BY <1>2, <2>1, <2>2, <2>3 DEF SetKernelBrk
<1>3. ASSUME NEW q, KCSwitch(q), KERNEL_BRK' = KERNEL_BRK, window_hit' = window_hit
      PROVE  MappedByKernel'
  <2>1. /\ \A i \in Page : i # StackPages[1] /\ i # StackPages[2]
                             => kernel_page_table'[i] = kernel_page_table[i]
        /\ kernel_page_table'[StackPages[1]].valid /\ kernel_page_table'[StackPages[2]].valid
    BY <1>0, <1>3, Sizes DEF KCSwitch, KernelPage
  <2> QED BY <1>0, <1>3, <2>1 DEF MappedByKernel
<1>4. ASSUME KernelFork
      PROVE  MappedByKernel'
  <2>1. CASE /\ kernel_page_table' = [kernel_page_table EXCEPT ![WindowPages[1]] = NoKernelPage,
                                                               ![WindowPages[2]] = NoKernelPage]
             /\ window_hit' = (window_hit \/ kernel_page_table[WindowPages[2]].valid)
             /\ KERNEL_BRK' = KERNEL_BRK
    <3>1. \A i \in Page : kernel_page_table'[i].valid <=>
            kernel_page_table[i].valid /\ i # WindowPages[1] /\ i # WindowPages[2]
      BY <1>0, <2>1, Sizes DEF NoKernelPage
    <3>2. /\ ~(WindowPages[1] < KERNEL_BRK)
          /\ WindowPages[1] # StackPages[1] /\ WindowPages[1] # StackPages[2]
      BY <1>0, Sizes
    <3> QED BY <1>0, <2>1, <3>1, <3>2 DEF MappedByKernel
  <2>2. CASE OutOfFrames
    BY <1>1, <2>2 DEF OutOfFrames, kernel
  <2> QED BY <1>4, <2>1, <2>2 DEF KernelFork
<1>5. ASSUME NEW q, switch_to_next_ready_process(q) \/ KernelExit(q)
      PROVE  MappedByKernel'
  BY <1>3, <1>5 DEF switch_to_next_ready_process, KernelExit
<1>6. ASSUME NEW im, NEW read, LoadProgram(im, read)
      PROVE  MappedByKernel'
  BY <1>1, <1>6 DEF LoadProgram, OutOfFrames, kernel
<1>7. ASSUME NEW addr, KernelBrk(addr)
      PROVE  MappedByKernel'
  BY <1>1, <1>7 DEF KernelBrk, OutOfFrames, kernel
<1>8. ASSUME NEW addr, trap_memory_handler(addr)
      PROVE  MappedByKernel'
  BY <1>1, <1>5, <1>8 DEF trap_memory_handler, vars, kernel
<1>9. CASE UNCHANGED vars
  BY <1>1, <1>9 DEF vars, kernel
<1> QED BY <1>2, <1>4, <1>5, <1>6, <1>7, <1>8, <1>9 DEF Next

(* KernelLayout holds when Memory starts. *)
LEMMA KernelLayoutInit == Init => KernelLayout
<1> SUFFICES ASSUME Init
             PROVE  MappedByKernel
  BY TypeInit, KernelLayoutByPage
<1>1. KERNEL_BRK = KernelPages /\ window_hit = (WindowPages[2] < KernelPages)
  BY DEF Init
<1>2. kernel_page_table = [i \in Page |->
        IF i \in {WindowPages[1], WindowPages[2]} THEN NoKernelPage
        ELSE IF i \in BootFrames THEN KernelPage(i)
        ELSE [NoKernelPage EXCEPT !.pfn = i]]
  BY DEF Init
<1>3. /\ \A i \in Page : i \in BootFrames <=> (i < KERNEL_BRK \/ i = StackPages[1] \/ i = StackPages[2])
      /\ WindowPages[1] \notin BootFrames /\ WindowPages[2] \in Page
      /\ ~(WindowPages[2] < KERNEL_BRK) => WindowPages[2] \notin BootFrames
  BY <1>1, Sizes DEF BootFrames, Page
<1>4. \A i \in Page : kernel_page_table[i].valid <=>
        i \in BootFrames /\ i # WindowPages[1] /\ i # WindowPages[2]
  BY <1>2 DEF KernelPage, NoKernelPage
<1> QED BY <1>1, <1>3, <1>4 DEF MappedByKernel

(* For every size of the heap that SetKernelBrk allows, the kernel maps    *)
(* its text, data and heap, and the kernel stack, and no window page of a  *)
(* fork or of KCCopy stays mapped; the heap page that can be missing is    *)
(* the one in the lower window, and only once a copy has run with the heap *)
(* that high.                                                              *)
THEOREM KernelLayoutCorrect == Spec => []KernelLayout
<1>1. TypeOK /\ KernelLayout /\ [Next]_vars => TypeOK' /\ KernelLayout'
  BY TypeStep, KernelLayoutStep
<1> QED BY <1>1, TypeInit, KernelLayoutInit, PTL DEF Spec

----------------------------------------------------------------------------
(* What the processes map.                                                 *)

(* LayoutMatches, page by page. *)
MappedByProcess ==
  \A p \in alive : Loaded(p) =>
    /\ brk[p] <= region_1_sp[p]
    /\ \A i \in Page : user_page_table[p][i].valid <=>
                       (i + PTLen < brk[p] \/ region_1_sp[p] < i + PTLen)

(* LayoutMatches says of each page of each process what maps it. *)
LEMMA LayoutByPage == TypeOK => (LayoutMatches <=> MappedByProcess)
<1> SUFFICES ASSUME TypeOK
             PROVE  LayoutMatches <=> MappedByProcess
  OBVIOUS
<1>0. PTLen \in Nat
  BY Sizes
<1> SUFFICES ASSUME NEW p \in alive, Loaded(p)
             PROVE  {i + PTLen : i \in ValidPages(user_page_table[p])} =
                      (VMEM_1_BASE..brk[p]-1) \cup (region_1_sp[p]+1..VMEM_1_LIMIT-1)
                    <=> \A i \in Page : user_page_table[p][i].valid <=>
                                       (i + PTLen < brk[p] \/ region_1_sp[p] < i + PTLen)
  BY DEF LayoutMatches, MappedByProcess
<1> DEFINE valid == ValidPages(user_page_table[p])
           A == {i + PTLen : i \in valid}
           B == (VMEM_1_BASE..brk[p]-1) \cup (region_1_sp[p]+1..VMEM_1_LIMIT-1)
<1>1. /\ brk[p] \in Nat /\ region_1_sp[p] \in Nat
      /\ PTLen <= brk[p] /\ brk[p] <= 2 * PTLen
      /\ PTLen <= region_1_sp[p] /\ region_1_sp[p] <= 2 * PTLen
  <2>1. brk[p] \in Address /\ region_1_sp[p] \in Address
    BY TypeFacts DEF TypeOK
  <2> QED BY <1>0, <2>1 DEF Address, VMEM_1_BASE, VMEM_1_LIMIT
<1>2. \A i : i \in valid <=> i \in Page /\ user_page_table[p][i].valid
  BY DEF ValidPages
<1>3. \A i \in Page : i + PTLen \in B <=> (i + PTLen < brk[p] \/ region_1_sp[p] < i + PTLen)
  BY <1>0, <1>1 DEF Page, VMEM_1_BASE, VMEM_1_LIMIT
<1>4. \A x \in B : \E i \in Page : x = i + PTLen
  <2> SUFFICES ASSUME NEW x \in B
               PROVE  x - PTLen \in Page /\ x = (x - PTLen) + PTLen
    OBVIOUS
  <2> QED BY <1>0, <1>1 DEF Page, VMEM_1_BASE, VMEM_1_LIMIT
<1>5. \A i \in Page : i + PTLen \in A <=> i \in valid
  <2>1. \A i, j \in Page : i + PTLen = j + PTLen => i = j
    BY <1>0 DEF Page
  <2> HIDE DEF valid
  <2> QED BY <1>2, <2>1
<1>6. \A x \in A : \E i \in Page : x = i + PTLen
  <2> HIDE DEF valid
  <2> QED BY <1>2
<1> HIDE DEF A, B, valid
<1>7. ASSUME \A i \in Page : i + PTLen \in A <=> i + PTLen \in B
      PROVE  A = B
  BY <1>4, <1>6, <1>7
<1>8. A = B <=> \A i \in Page : user_page_table[p][i].valid <=>
                                (i + PTLen < brk[p] \/ region_1_sp[p] < i + PTLen)
  <2>1. \A i \in Page : i + PTLen \in A <=> user_page_table[p][i].valid
    BY <1>2, <1>5
  <2>2. ASSUME A = B, NEW i \in Page
        PROVE  user_page_table[p][i].valid <=> (i + PTLen < brk[p] \/ region_1_sp[p] < i + PTLen)
    BY <1>3, <2>1, <2>2
  <2>3. ASSUME \A i \in Page : user_page_table[p][i].valid <=>
                                (i + PTLen < brk[p] \/ region_1_sp[p] < i + PTLen)
        PROVE  A = B
    BY <1>3, <1>7, <2>1, <2>3
  <2> QED BY <2>2, <2>3
<1> QED BY <1>8 DEF A, B, valid

(* Below the break every page is mapped, and a loaded process maps, apart  *)
(* from its stack, nothing else.                                           *)
UserLayout == BelowBreakMapped /\ MappedByProcess

(* What the invariant says of one process. *)
Layout(p) ==
  /\ \A i \in Page : i + PTLen < brk[p] => user_page_table[p][i].valid
  /\ Loaded(p) =>
       /\ brk[p] <= region_1_sp[p]
       /\ \A i \in Page : user_page_table[p][i].valid <=>
                          (i + PTLen < brk[p] \/ region_1_sp[p] < i + PTLen)

(* UserLayout is the layout of each process. *)
LEMMA UserLayoutEach == UserLayout <=> \A p \in alive : Layout(p)
BY DEF UserLayout, BelowBreakMapped, MappedByProcess, Layout

(* A process whose table, break and stack pointer stay keeps its layout. *)
LEMMA LayoutKept ==
  ASSUME NEW p, Layout(p), UNCHANGED <<user_page_table[p], brk[p], region_1_sp[p]>>
  PROVE  Layout(p)'
BY DEF Layout, Loaded

(* Processes only grow older: those alive after a step were alive before   *)
(* it, or are the child of this fork.                                      *)
LEMMA UserLayoutKept ==
  ASSUME UserLayout, UNCHANGED <<user_page_table, brk, region_1_sp>>, alive' \subseteq alive
  PROVE  UserLayout'
BY DEF UserLayout, BelowBreakMapped, MappedByProcess, Loaded

(* If every process alive after a step has its layout, the invariant holds.*)
LEMMA UserLayoutNext ==
  ASSUME \A p \in alive' : Layout(p)'
  PROVE  UserLayout'
<1>1. UserLayout' <=> \A p \in alive' : Layout(p)'
  BY DEF UserLayout, BelowBreakMapped, MappedByProcess, Layout, Loaded
<1> QED BY <1>1

(* An exit empties the page table of a process that is no longer alive. *)
LEMMA ExitLayout ==
  ASSUME TypeOK, UserLayout, NEW q, KernelExit(q)
  PROVE  UserLayout'
<1>1. /\ user_page_table' = [user_page_table EXCEPT ![curr_pcb] = EmptyTable]
      /\ alive' = alive \ {curr_pcb} /\ UNCHANGED <<brk, region_1_sp>>
  BY DEF KernelExit
<1>2. ASSUME NEW p \in alive'
      PROVE  Layout(p)'
  <2>1. p \in alive /\ user_page_table'[p] = user_page_table[p]
    BY <1>1, TypeFacts
  <2> QED BY <1>1, <2>1, LayoutKept, UserLayoutEach
<1> QED BY <1>2, UserLayoutNext

(* The child of a fork has the break and the stack pointer of a process    *)
(* that was never loaded.                                                  *)
LEMMA ForkLayout ==
  ASSUME TypeOK, UserLayout, KernelFork
  PROVE  UserLayout'
<1>1. CASE OutOfFrames
  BY <1>1, UserLayoutKept DEF OutOfFrames, user, process
<1>2. CASE ~OutOfFrames
  <2> DEFINE table == CopiedTable(ValidPages(user_page_table[curr_pcb]))
  <2>1. /\ user_page_table' = [user_page_table EXCEPT ![next_pid] = table]
        /\ brk' = [brk EXCEPT ![next_pid] = VMEM_1_BASE]
        /\ region_1_sp' = [region_1_sp EXCEPT ![next_pid] = VMEM_1_LIMIT]
        /\ alive' = alive \cup {next_pid} /\ next_pid <= MaxPid
    BY <1>2 DEF KernelFork
  <2> HIDE DEF table
  <2>2. next_pid \in Pid /\ next_pid \notin alive /\ alive \subseteq Pid
        /\ brk \in [Pid -> Address] /\ region_1_sp \in [Pid -> Address]
        /\ user_page_table \in [Pid -> [Page -> Entry]]
    <3>1. next_pid \in Nat /\ next_pid \notin alive /\ alive \subseteq Pid
      BY TypeFacts DEF TypeOK
    <3>2. next_pid \in Pid
      BY <2>1, <3>1, Sizes DEF Pid
    <3>3. brk \in [Pid -> Address] /\ region_1_sp \in [Pid -> Address]
          /\ user_page_table \in [Pid -> [Page -> Entry]]
      BY TypeFacts DEF TypeOK
    <3> QED BY <3>1, <3>2, <3>3
  <2>3. ASSUME NEW p \in alive'
        PROVE  Layout(p)'
    <3>1. CASE p = next_pid
      <4>1. brk'[p] = PTLen /\ region_1_sp'[p] = VMEM_1_LIMIT
        BY <2>1, <2>2, <3>1 DEF VMEM_1_BASE
      <4>2. \A i \in Page : ~(i + PTLen < PTLen)
        BY Sizes
      <4>3. ~(VMEM_1_LIMIT < VMEM_1_LIMIT)
        BY Sizes DEF VMEM_1_LIMIT
      <4> QED BY <4>1, <4>2, <4>3 DEF Layout, Loaded
    <3>2. CASE p # next_pid
      <4>1. p \in alive /\ UNCHANGED <<user_page_table[p], brk[p], region_1_sp[p]>>
        BY <2>1, <2>2, <3>2
      <4> QED BY <4>1, LayoutKept, UserLayoutEach
    <3> QED BY <3>1, <3>2
  <2> QED BY <2>3, UserLayoutNext
<1> QED BY <1>1, <1>2

(* LoadProgram maps the pages below the break and the pages above the      *)
(* stack pointer that it sets.                                             *)
LEMMA LoadLayout ==
  ASSUME TypeOK, UserLayout, NEW im \in Programs, NEW read \in BOOLEAN, LoadProgram(im, read)
  PROVE  UserLayout'
<1> DEFINE old   == user_page_table[curr_pcb]
           free  == Free \cup FramesOf(old)
           n     == Cardinality(LoadedPages(im))
           table == LoadedTable(im, Executable(im, read), old, free)
<1>1. CASE OutOfFrames
  BY <1>1, UserLayoutKept DEF OutOfFrames, user, process
<1>2. CASE ~OutOfFrames
  <2>1. /\ Fits(im) /\ HasFrames(free, n) /\ old \in [Page -> Entry] /\ free \in SUBSET Frame
        /\ user_page_table' = [user_page_table EXCEPT ![curr_pcb] = table]
        /\ brk' = [brk EXCEPT ![curr_pcb] = im.data_pg1 + im.data_npg + PTLen]
        /\ region_1_sp' = [region_1_sp EXCEPT ![curr_pcb] = (VMEM_1_LIMIT - 1) - im.stack_npg]
        /\ alive' = alive
    BY <1>2, LoadFrames DEF process
  <2> HIDE DEF free, old
  <2>2. \A i \in Page : table[i].valid <=> i \in LoadedPages(im)
    BY <2>1, LoadedEntries
  <2> HIDE DEF n, table
  <2>3. curr_pcb \in Pid /\ curr_pcb \in alive /\ alive \subseteq Pid
        /\ brk \in [Pid -> Address] /\ region_1_sp \in [Pid -> Address]
        /\ user_page_table \in [Pid -> [Page -> Entry]]
    BY TypeFacts DEF TypeOK
  <2>4. ASSUME NEW p \in alive'
        PROVE  Layout(p)'
    <3>1. CASE p = curr_pcb
      <4>1. /\ user_page_table'[p] = table
            /\ brk'[p] = im.data_pg1 + im.data_npg + PTLen
            /\ region_1_sp'[p] = (2 * PTLen - 1) - im.stack_npg
        BY <2>1, <2>3, <3>1 DEF VMEM_1_LIMIT
      <4> DEFINE d == im.data_pg1 + im.data_npg
                 k == im.stack_npg
      <4>2. d \in Nat /\ k \in Nat /\ d < PTLen - k /\ PTLen \in Nat
            /\ LoadedPages(im) = {i \in Page : i < d \/ PTLen - k <= i}
        BY <2>1, ProgramSizes
      <4> HIDE DEF d, k
      <4>3. \A i \in Page : /\ i + PTLen < d + PTLen <=> i < d
                            /\ (2 * PTLen - 1) - k < i + PTLen <=> PTLen - k <= i
        BY <4>2 DEF Page
      <4>4. d + PTLen <= (2 * PTLen - 1) - k
        BY <4>2
      <4>5. brk'[p] = d + PTLen /\ region_1_sp'[p] = (2 * PTLen - 1) - k
        BY <4>1 DEF d, k
      <4>6. \A i \in Page : user_page_table'[p][i].valid <=> (i < d \/ PTLen - k <= i)
        BY <2>2, <4>1, <4>2
      <4>7. /\ \A i \in Page : i + PTLen < brk'[p] => user_page_table'[p][i].valid
            /\ brk'[p] <= region_1_sp'[p]
            /\ \A i \in Page : user_page_table'[p][i].valid
                                <=> (i + PTLen < brk'[p] \/ region_1_sp'[p] < i + PTLen)
        <5>1. brk'[p] <= region_1_sp'[p]
          BY <4>4, <4>5
        <5>2. ASSUME NEW i \in Page
              PROVE  /\ i + PTLen < brk'[p] <=> i < d
                     /\ region_1_sp'[p] < i + PTLen <=> PTLen - k <= i
          BY <4>3, <4>5
        <5> QED BY <4>6, <5>1, <5>2
      <4> QED BY <4>7 DEF Layout, Loaded
    <3>2. CASE p # curr_pcb
      <4>1. p \in alive /\ UNCHANGED <<user_page_table[p], brk[p], region_1_sp[p]>>
        BY <2>1, <2>3, <3>2
      <4> QED BY <4>1, LayoutKept, UserLayoutEach
    <3> QED BY <3>1, <3>2
  <2> QED BY <2>4, UserLayoutNext
<1> QED BY <1>1, <1>2

(* Brk maps or unmaps the pages between the old break and the new one. *)
LEMMA BrkLayout ==
  ASSUME TypeOK, UserLayout, NEW addr \in Nat, KernelBrk(addr)
  PROVE  UserLayout'
<1> DEFINE old == {i \in Page : addr <= i + PTLen /\ i + PTLen < brk[curr_pcb]}
           n   == Cardinality(Raised(addr))
<1>0. curr_pcb \in Pid /\ curr_pcb \in alive /\ alive \subseteq Pid
      /\ brk \in [Pid -> Address] /\ region_1_sp \in [Pid -> Address]
      /\ user_page_table \in [Pid -> [Page -> Entry]]
      /\ brk[curr_pcb] \in Nat /\ region_1_sp[curr_pcb] \in Nat /\ PTLen \in Nat
      /\ addr <= region_1_sp[curr_pcb]
      /\ \A i \in Page : i \in Nat
  BY TypeFacts, Sizes DEF TypeOK, Address, VMEM_1_BASE, VMEM_1_LIMIT, KernelBrk, WithinBound
<1>1. CASE OutOfFrames
  BY <1>1, UserLayoutKept DEF OutOfFrames, user, process
<1>2. ASSUME NEW table, user_page_table' = [user_page_table EXCEPT ![curr_pcb] = table],
             brk' = [brk EXCEPT ![curr_pcb] = addr], UNCHANGED <<region_1_sp, alive>>,
             \A i \in Page : table[i].valid <=>
               IF addr < brk[curr_pcb]
               THEN user_page_table[curr_pcb][i].valid /\ (i + PTLen < addr \/ brk[curr_pcb] <= i + PTLen)
               ELSE user_page_table[curr_pcb][i].valid \/ (brk[curr_pcb] <= i + PTLen /\ i + PTLen < addr)
      PROVE  UserLayout'
  <2>1. ASSUME NEW p \in alive'
        PROVE  Layout(p)'
    <3>1. CASE p = curr_pcb
      <4>1. user_page_table'[p] = table /\ brk'[p] = addr /\ region_1_sp'[p] = region_1_sp[p]
        BY <1>0, <1>2, <3>1
      <4>2. Layout(p)
        BY <1>0, <3>1, UserLayoutEach
      <4> DEFINE b == brk[p]
                 r == region_1_sp[p]
                 v(i) == user_page_table[p][i].valid
      <4>3. /\ b \in Nat /\ r \in Nat /\ addr <= r
            /\ \A i \in Page : i + PTLen < b => v(i)
            /\ r < VMEM_1_LIMIT => b <= r /\ \A i \in Page : v(i) <=> (i + PTLen < b \/ r < i + PTLen)
            /\ \A i \in Page : table[i].valid <=>
                 IF addr < b THEN v(i) /\ (i + PTLen < addr \/ b <= i + PTLen)
                             ELSE v(i) \/ (b <= i + PTLen /\ i + PTLen < addr)
        BY <1>0, <1>2, <3>1, <4>2 DEF Layout, Loaded
      <4>4. /\ \A i \in Page : i + PTLen < addr => table[i].valid
            /\ r < VMEM_1_LIMIT => \A i \in Page : table[i].valid <=> (i + PTLen < addr \/ r < i + PTLen)
        <5> HIDE DEF b, r, v
        <5> QED BY <1>0, <4>3
      <4> QED BY <4>1, <4>3, <4>4 DEF Layout, Loaded
    <3>2. CASE p # curr_pcb
      <4>1. p \in alive /\ UNCHANGED <<user_page_table[p], brk[p], region_1_sp[p]>>
        BY <1>0, <1>2, <3>2
      <4> QED BY <4>1, LayoutKept, UserLayoutEach
    <3> QED BY <3>1, <3>2
  <2> QED BY <2>1, UserLayoutNext
<1>3. CASE /\ addr < brk[curr_pcb]
           /\ user_page_table' =
                [user_page_table EXCEPT ![curr_pcb] = Lowered(user_page_table[curr_pcb], old)]
           /\ brk' = [brk EXCEPT ![curr_pcb] = addr] /\ UNCHANGED <<region_1_sp, process>>
  <2>1. \A i \in Page : Lowered(user_page_table[curr_pcb], old)[i].valid <=>
          user_page_table[curr_pcb][i].valid /\ (i + PTLen < addr \/ brk[curr_pcb] <= i + PTLen)
    BY <1>0 DEF Lowered, Unmapped
  <2> HIDE DEF old
  <2> QED BY <1>2, <1>3, <2>1 DEF process
<1>4. CASE /\ addr >= brk[curr_pcb] /\ HasFrames(Free, n)
           /\ user_page_table' = [user_page_table EXCEPT ![curr_pcb] = RaisedTable(addr)]
           /\ brk' = [brk EXCEPT ![curr_pcb] = addr] /\ UNCHANGED <<region_1_sp, process>>
  <2>1. /\ \A i \in Page \ Raised(addr) : RaisedTable(addr)[i] = user_page_table[curr_pcb][i]
        /\ \A i \in Raised(addr) : RaisedTable(addr)[i].valid
    BY <1>4, RaiseFrames
  <2>2. \A i \in Page : RaisedTable(addr)[i].valid <=>
          user_page_table[curr_pcb][i].valid \/ (brk[curr_pcb] <= i + PTLen /\ i + PTLen < addr)
    BY <2>1 DEF Raised
  <2>3. ~(addr < brk[curr_pcb])
    BY <1>0, <1>4
  <2> QED BY <1>2, <1>4, <2>2, <2>3 DEF process
<1> QED BY <1>1, <1>3, <1>4 DEF KernelBrk, RaisedTable

(* Every step keeps the layout of every process. *)
LEMMA UserLayoutStep == TypeOK /\ UserLayout /\ [Next]_vars => UserLayout'
<1> SUFFICES ASSUME TypeOK, UserLayout, [Next]_vars
             PROVE  UserLayout'
  OBVIOUS
<1>1. CASE UNCHANGED vars
  BY <1>1, UserLayoutKept DEF vars, user, process
<1>2. ASSUME NEW top, SetKernelBrk(top)
      PROVE  UserLayout'
  BY <1>2, UserLayoutKept DEF SetKernelBrk, OutOfFrames, user, process
<1>3. ASSUME NEW q, switch_to_next_ready_process(q)
      PROVE  UserLayout'
  BY <1>3, UserLayoutKept DEF switch_to_next_ready_process, user
<1>4. ASSUME NEW addr, trap_memory_handler(addr)
      PROVE  UserLayout'
  BY <1>1, <1>4, UserLayoutKept, ExitLayout DEF trap_memory_handler, user, process
<1>5. Breaks \subseteq Nat
  BY MemoryAssumption
<1> QED BY <1>1, <1>2, <1>3, <1>4, <1>5, ExitLayout, ForkLayout, LoadLayout, BrkLayout DEF Next

(* After boot nobody is loaded, and all breaks are at the base. *)
LEMMA UserLayoutInit == Init => UserLayout
<1> SUFFICES ASSUME Init
             PROVE  UserLayout
  OBVIOUS
<1>1. TypeOK /\ brk = [p \in Pid |-> VMEM_1_BASE] /\ region_1_sp = [p \in Pid |-> VMEM_1_LIMIT]
  BY TypeInit DEF Init
<1>2. ASSUME NEW p \in alive
      PROVE  Layout(p)
  <2>1. brk[p] = PTLen /\ region_1_sp[p] = 2 * PTLen
    BY <1>1, TypeFacts DEF VMEM_1_BASE, VMEM_1_LIMIT
  <2>2. \A i \in Page : ~(i + PTLen < PTLen)
    BY Sizes
  <2>3. ~(2 * PTLen < 2 * PTLen)
    BY Sizes
  <2> QED BY <2>1, <2>2, <2>3 DEF Layout, Loaded, VMEM_1_LIMIT
<1> QED BY <1>2, UserLayoutEach

(* The invariant holds of every state. *)
LEMMA UserLayoutAlways == Spec => [](TypeOK /\ UserLayout)
<1>1. TypeOK /\ UserLayout /\ [Next]_vars => TypeOK' /\ UserLayout'
  BY TypeStep, UserLayoutStep
<1> QED BY <1>1, TypeInit, UserLayoutInit, PTL DEF Spec

(* Every page below the break of a process is mapped, in forked processes  *)
(* too, so that a break that is lowered frees frames of the process only.  *)
THEOREM BelowBreakCorrect == Spec => []BelowBreakMapped
<1>1. UserLayout => BelowBreakMapped
  BY DEF UserLayout
<1> QED BY <1>1, UserLayoutAlways, PTL

(* A loaded process maps exactly the pages below its break and above its   *)
(* stack pointer, whatever it passes to Brk.                               *)
THEOREM LayoutCorrect == Spec => []LayoutMatches
<1>1. TypeOK /\ UserLayout => LayoutMatches
  BY LayoutByPage DEF UserLayout
<1> QED BY <1>1, UserLayoutAlways, PTL

----------------------------------------------------------------------------
(* Who owns the frames: no frame is mapped twice, none in use is marked    *)
(* free, nothing but fork and exit loses any, and every process keeps the  *)
(* frames of its kernel stack.                                             *)

(* SingleOwner and OwnedUsed take a process's kernel stack from two places *)
(* (the kernel page table while it runs, kernel_stack while it does not).  *)
(* The invariant below counts the frames of the three kinds of page        *)
(* separately: the kernel's pages below the break, the user pages, and the *)
(* kernel stacks, one of each living process, running or not.  It speaks   *)
(* of any tables, so that one step of the kernel can be taken apart into   *)
(* several changes: K is the kernel page table, b its break, T the user    *)
(* page tables of the processes A, S their kernel stacks, U the frames     *)
(* marked used.                                                            *)
HeapOwned(K, b, U) ==
  \A i \in Page : i < b =>
    /\ K[i].pfn \in U
    /\ \A j \in Page : j < b /\ K[i].pfn = K[j].pfn => i = j
UserOwned(T, A, U) ==
  \A p \in A, i \in Page : T[p][i].valid =>
    /\ T[p][i].pfn \in U
    /\ \A q \in A, j \in Page : T[q][j].valid /\ T[p][i].pfn = T[q][j].pfn => p = q /\ i = j
StackOwned(S, A, U) ==
  \A p \in A :
    /\ S[p][1] \in U /\ S[p][2] \in U /\ S[p][1] # S[p][2]
    /\ \A q \in A : q # p => /\ S[p][1] # S[q][1] /\ S[p][1] # S[q][2]
                             /\ S[p][2] # S[q][1] /\ S[p][2] # S[q][2]
HeapUserApart(K, b, T, A) ==
  \A i \in Page, p \in A, j \in Page : i < b /\ T[p][j].valid => K[i].pfn # T[p][j].pfn
HeapStackApart(K, b, S, A) ==
  \A i \in Page, p \in A : i < b => K[i].pfn # S[p][1] /\ K[i].pfn # S[p][2]
UserStackApart(T, S, A) ==
  \A p \in A, i \in Page, q \in A :
    T[p][i].valid => T[p][i].pfn # S[q][1] /\ T[p][i].pfn # S[q][2]

Owners(K, b, T, A, S, U) ==
  /\ HeapOwned(K, b, U) /\ UserOwned(T, A, U) /\ StackOwned(S, A, U)
  /\ HeapUserApart(K, b, T, A) /\ HeapStackApart(K, b, S, A) /\ UserStackApart(T, S, A)

Stacks == [p \in Pid |-> StackOf(p)]

OwnersInv == Owners(kernel_page_table, KERNEL_BRK, user_page_table, alive, Stacks, used)

----------------------------------------------------------------------------
(* The changes that the steps of the kernel are made of.                   *)

(* The kernel's break rises over pages with frames N that were not used. *)
LEMMA HeapRaised ==
  ASSUME NEW K, NEW b \in Nat, NEW T, NEW A, NEW S, NEW U, Owners(K, b, T, A, S, U),
         NEW L, NEW c \in Nat, NEW N, N \cap U = {},
         \A i \in Page : i < c => IF i < b THEN L[i].pfn = K[i].pfn ELSE L[i].pfn \in N,
         \A i, j \in Page : i < c /\ j < c /\ ~(i < b) /\ ~(j < b) /\ L[i].pfn = L[j].pfn => i = j
  PROVE  Owners(L, c, T, A, S, U \cup N)
<1>1. HeapOwned(K, b, U) /\ UserOwned(T, A, U) /\ StackOwned(S, A, U)
      /\ HeapUserApart(K, b, T, A) /\ HeapStackApart(K, b, S, A) /\ UserStackApart(T, S, A)
  BY DEF Owners
<1>2. HeapOwned(L, c, U \cup N)
  BY <1>1 DEF HeapOwned
<1>3. UserOwned(T, A, U \cup N) /\ StackOwned(S, A, U \cup N)
  BY <1>1 DEF UserOwned, StackOwned
<1>4. HeapUserApart(L, c, T, A)
  BY <1>1 DEF HeapUserApart, UserOwned
<1>5. HeapStackApart(L, c, S, A)
  BY <1>1 DEF HeapStackApart, StackOwned
<1> QED BY <1>1, <1>2, <1>3, <1>4, <1>5 DEF Owners

(* The kernel's break falls, and the frames above it are freed. *)
LEMMA HeapLowered ==
  ASSUME NEW K, NEW b \in Nat, NEW T, NEW A, NEW S, NEW U, Owners(K, b, T, A, S, U),
         NEW L, NEW c \in Nat, c <= b, \A i \in Page : i < c => L[i].pfn = K[i].pfn,
         NEW D \in SUBSET Page, \A i \in D : c <= i /\ i < b
  PROVE  Owners(L, c, T, A, S, U \ {K[i].pfn : i \in D})
<1> DEFINE freed == {K[i].pfn : i \in D}
<1>0. \A i \in Page : (i < c => i < b) /\ ~(i < c /\ c <= i)
  BY Sizes
<1>1. HeapOwned(K, b, U) /\ UserOwned(T, A, U) /\ StackOwned(S, A, U)
      /\ HeapUserApart(K, b, T, A) /\ HeapStackApart(K, b, S, A) /\ UserStackApart(T, S, A)
  BY DEF Owners
<1>2. \A f \in freed : \E i \in Page : c <= i /\ i < b /\ f = K[i].pfn
  OBVIOUS
<1> HIDE DEF freed
<1>3. HeapOwned(L, c, U \ freed)
  <2> SUFFICES ASSUME NEW i \in Page, i < c
               PROVE  /\ K[i].pfn \in U /\ K[i].pfn \notin freed
                      /\ \A j \in Page : j < c /\ K[i].pfn = K[j].pfn => i = j
    BY DEF HeapOwned
  <2> QED BY <1>0, <1>1, <1>2 DEF HeapOwned
<1>4. UserOwned(T, A, U \ freed)
  BY <1>1, <1>2 DEF UserOwned, HeapUserApart
<1>5. StackOwned(S, A, U \ freed)
  BY <1>1, <1>2 DEF StackOwned, HeapStackApart
<1>6. HeapUserApart(L, c, T, A) /\ HeapStackApart(L, c, S, A)
  BY <1>0, <1>1 DEF HeapUserApart, HeapStackApart
<1> QED BY <1>1, <1>3, <1>4, <1>5, <1>6 DEF Owners, freed

(* Pages D of process p are unmapped, and their frames F freed. *)
Drops(T, A, V, p, D, F) ==
  /\ p \in A /\ \A q \in A : q # p => V[q] = T[q]
  /\ D \in SUBSET Page /\ \A i \in D : T[p][i].valid
  /\ \A i \in Page : V[p][i].valid => T[p][i].valid /\ i \notin D /\ V[p][i].pfn = T[p][i].pfn
  /\ \A f \in F : \E i \in D : f = T[p][i].pfn

(* Pages unmapped and their frames freed: the other pages keep theirs. *)
LEMMA PagesDropped ==
  ASSUME NEW K, NEW b, NEW T, NEW A, NEW S, NEW U, Owners(K, b, T, A, S, U),
         NEW V, NEW p, NEW D, NEW F, Drops(T, A, V, p, D, F)
  PROVE  Owners(K, b, V, A, S, U \ F)
<1>1. HeapOwned(K, b, U) /\ UserOwned(T, A, U) /\ StackOwned(S, A, U)
      /\ HeapUserApart(K, b, T, A) /\ HeapStackApart(K, b, S, A) /\ UserStackApart(T, S, A)
  BY DEF Owners
<1>2. p \in A /\ \A f \in F : \E i \in Page : T[p][i].valid /\ i \in D /\ f = T[p][i].pfn
  BY DEF Drops
<1>3. \A q \in A, i \in Page :
        V[q][i].valid => T[q][i].valid /\ V[q][i].pfn = T[q][i].pfn /\ ~(q = p /\ i \in D)
  BY DEF Drops
<1>4. HeapOwned(K, b, U \ F)
  BY <1>1, <1>2 DEF HeapOwned, HeapUserApart
<1>5. UserOwned(V, A, U \ F)
  BY <1>1, <1>2, <1>3 DEF UserOwned
<1>6. StackOwned(S, A, U \ F)
  BY <1>1, <1>2 DEF StackOwned, UserStackApart
<1>7. HeapUserApart(K, b, V, A) /\ UserStackApart(V, S, A)
  BY <1>1, <1>3 DEF HeapUserApart, UserStackApart
<1> QED BY <1>1, <1>4, <1>5, <1>6, <1>7 DEF Owners

(* Pages D of process p are mapped to frames N that were not used. *)
Adds(T, A, V, p, D, N) ==
  /\ p \in A /\ \A q \in A : q # p => V[q] = T[q]
  /\ D \in SUBSET Page
  /\ \A i \in D : V[p][i].pfn \in N
  /\ \A i, j \in D : V[p][i].pfn = V[p][j].pfn => i = j
  /\ \A i \in Page \ D : V[p][i].valid => T[p][i].valid /\ V[p][i].pfn = T[p][i].pfn

(* Pages mapped to frames that were free: no frame gets two. *)
LEMMA PagesAdded ==
  ASSUME NEW K, NEW b, NEW T, NEW A, NEW S, NEW U, Owners(K, b, T, A, S, U),
         NEW V, NEW p, NEW D, NEW N, Adds(T, A, V, p, D, N), N \cap U = {}
  PROVE  Owners(K, b, V, A, S, U \cup N)
<1>1. HeapOwned(K, b, U) /\ UserOwned(T, A, U) /\ StackOwned(S, A, U)
      /\ HeapUserApart(K, b, T, A) /\ HeapStackApart(K, b, S, A) /\ UserStackApart(T, S, A)
  BY DEF Owners
<1>2. \A q \in A, i \in Page :
        V[q][i].valid => \/ T[q][i].valid /\ V[q][i].pfn = T[q][i].pfn /\ V[q][i].pfn \in U
                         \/ V[q][i].pfn \in N /\ V[q][i].pfn \notin U /\ q = p /\ i \in D
  BY <1>1 DEF UserOwned, Adds
<1>3. \A i, j \in D : V[p][i].pfn = V[p][j].pfn => i = j
  BY DEF Adds
<1>4. HeapOwned(K, b, U \cup N) /\ StackOwned(S, A, U \cup N)
  BY <1>1 DEF HeapOwned, StackOwned
<1>5. UserOwned(V, A, U \cup N)
  BY <1>1, <1>2, <1>3 DEF UserOwned
<1>6. HeapUserApart(K, b, V, A)
  BY <1>1, <1>2 DEF HeapUserApart, HeapOwned
<1>7. UserStackApart(V, S, A)
  BY <1>1, <1>2 DEF UserStackApart, StackOwned
<1> QED BY <1>1, <1>4, <1>5, <1>6, <1>7 DEF Owners

(* A process is added, with frames N that were not used. *)
Joins(T, A, S, c, V, R, N) ==
  /\ c \notin A /\ \A p \in A : V[p] = T[p] /\ R[p] = S[p]
  /\ \A i \in Page : V[c][i].valid => /\ V[c][i].pfn \in N
                                      /\ V[c][i].pfn # R[c][1] /\ V[c][i].pfn # R[c][2]
  /\ \A i, j \in Page : V[c][i].valid /\ V[c][j].valid /\ V[c][i].pfn = V[c][j].pfn => i = j
  /\ R[c][1] \in N /\ R[c][2] \in N /\ R[c][1] # R[c][2]

(* A process added with frames that were free: no frame gets two. *)
LEMMA ProcessAdded ==
  ASSUME NEW K, NEW b, NEW T, NEW A, NEW S, NEW U, Owners(K, b, T, A, S, U),
         NEW c, NEW V, NEW R, NEW N, Joins(T, A, S, c, V, R, N), N \cap U = {}
  PROVE  Owners(K, b, V, A \cup {c}, R, U \cup N)
<1>0. /\ c \notin A /\ \A p \in A : V[p] = T[p] /\ R[p] = S[p]
      /\ \A i \in Page : V[c][i].valid => /\ V[c][i].pfn \in N
                                          /\ V[c][i].pfn # R[c][1] /\ V[c][i].pfn # R[c][2]
      /\ \A i, j \in Page : V[c][i].valid /\ V[c][j].valid /\ V[c][i].pfn = V[c][j].pfn => i = j
      /\ R[c][1] \in N /\ R[c][2] \in N /\ R[c][1] # R[c][2]
  BY DEF Joins
<1>1. HeapOwned(K, b, U) /\ UserOwned(T, A, U) /\ StackOwned(S, A, U)
      /\ HeapUserApart(K, b, T, A) /\ HeapStackApart(K, b, S, A) /\ UserStackApart(T, S, A)
  BY DEF Owners
<1>2. \A p \in A \cup {c}, i \in Page :
        V[p][i].valid => \/ p \in A /\ T[p][i].valid /\ V[p][i].pfn = T[p][i].pfn /\ V[p][i].pfn \in U
                         \/ p = c /\ V[p][i].pfn \in N /\ V[p][i].pfn \notin U
  BY <1>0, <1>1 DEF UserOwned
<1>3. \A p \in A : \A n \in {1, 2} : R[p][n] = S[p][n] /\ R[p][n] \in U /\ R[p][n] \notin N
  BY <1>0, <1>1 DEF StackOwned
<1>4. HeapOwned(K, b, U \cup N)
  BY <1>0, <1>1 DEF HeapOwned
<1>5. UserOwned(V, A \cup {c}, U \cup N)
  BY <1>0, <1>1, <1>2 DEF UserOwned
<1>6. StackOwned(R, A \cup {c}, U \cup N)
  BY <1>0, <1>1, <1>3 DEF StackOwned
<1>7. HeapUserApart(K, b, V, A \cup {c})
  BY <1>0, <1>1, <1>2 DEF HeapUserApart, HeapOwned
<1>8. HeapStackApart(K, b, R, A \cup {c})
  BY <1>0, <1>1, <1>3 DEF HeapStackApart, HeapOwned
<1>9. UserStackApart(V, R, A \cup {c})
  BY <1>0, <1>1, <1>2, <1>3 DEF UserStackApart
<1> QED BY <1>4, <1>5, <1>6, <1>7, <1>8, <1>9 DEF Owners

(* Some processes go, or none, and those that stay keep what they have. *)
LEMMA OwnersKept ==
  ASSUME NEW K, NEW b, NEW T, NEW A, NEW S, NEW U, Owners(K, b, T, A, S, U),
         NEW L, NEW V, NEW B \in SUBSET A, NEW R,
         \A i \in Page : i < b => L[i].pfn = K[i].pfn,
         \A p \in B : V[p] = T[p] /\ R[p] = S[p]
  PROVE  Owners(L, b, V, B, R, U)
BY DEF Owners, HeapOwned, UserOwned, StackOwned, HeapUserApart, HeapStackApart, UserStackApart

----------------------------------------------------------------------------
(* The kernel stacks.                                                      *)

(* A switch moves frames between the kernel page table and kernel_stack,   *)
(* and every process keeps its own.                                        *)
LEMMA SwitchStacks ==
  ASSUME TypeOK, NEW q \in alive \ {curr_pcb}, KCSwitch(q)
  PROVE  /\ \A p \in Pid : StackOf(p)' = StackOf(p)
         /\ \A i \in Page : i # StackPages[1] /\ i # StackPages[2]
                              => kernel_page_table'[i] = kernel_page_table[i]
<1>1. /\ kernel_page_table \in [Page -> KernelEntry] /\ q \in Pid /\ curr_pcb \in Pid
      /\ kernel_stack \in [Pid -> Frame \X Frame]
      /\ StackPages[1] \in Page /\ StackPages[2] \in Page /\ StackPages[1] # StackPages[2]
      /\ \A p \in Pid : kernel_stack[p] = <<kernel_stack[p][1], kernel_stack[p][2]>>
  BY TypeFacts, Sizes DEF TypeOK
<1>2. /\ kernel_page_table'[StackPages[1]].pfn = kernel_stack[q][1]
      /\ kernel_page_table'[StackPages[2]].pfn = kernel_stack[q][2]
      /\ \A i \in Page : i # StackPages[1] /\ i # StackPages[2]
                           => kernel_page_table'[i] = kernel_page_table[i]
  BY <1>1 DEF KCSwitch, KernelPage
<1>3. /\ kernel_stack'[curr_pcb] = StackOf(curr_pcb)
      /\ \A p \in Pid : p # curr_pcb => kernel_stack'[p] = kernel_stack[p]
      /\ curr_pcb' = q
  BY <1>1 DEF KCSwitch, SavedStack, StackOf
<1>4. ASSUME NEW p \in Pid
      PROVE  StackOf(p)' = StackOf(p)
  <2>1. CASE p = q
    BY <1>1, <1>2, <1>3, <2>1 DEF StackOf
  <2>2. CASE p # q
    BY <1>1, <1>3, <2>2 DEF StackOf
  <2> QED BY <2>1, <2>2
<1> QED BY <1>2, <1>4

(* A step that leaves the current process, the kernel stacks and their     *)
(* pages alone moves no stack.                                             *)
LEMMA SameStacks ==
  ASSUME NEW p,
         curr_pcb' = curr_pcb, kernel_stack'[p] = kernel_stack[p],
         kernel_page_table'[StackPages[1]] = kernel_page_table[StackPages[1]],
         kernel_page_table'[StackPages[2]] = kernel_page_table[StackPages[2]]
  PROVE  StackOf(p)' = StackOf(p)
BY DEF StackOf

(* The kernel's heap does not reach its stack. *)
LEMMA HeapStacks ==
  ASSUME TypeOK, NEW top \in KernelPages..HeapMax, SetKernelBrk(top)
  PROVE  \A p \in Pid : StackOf(p)' = StackOf(p)
<1>1. /\ kernel_page_table'[StackPages[1]] = kernel_page_table[StackPages[1]]
      /\ kernel_page_table'[StackPages[2]] = kernel_page_table[StackPages[2]]
  <2>1. /\ StackPages[1] \in Page /\ StackPages[2] \in Page
        /\ ~(StackPages[1] < top) /\ ~(StackPages[2] < top)
        /\ ~(StackPages[1] < KERNEL_BRK) /\ ~(StackPages[2] < KERNEL_BRK)
    BY Sizes DEF TypeOK
  <2> QED BY <2>1 DEF SetKernelBrk, LowerUnmaps, OutOfFrames, kernel
<1>2. curr_pcb' = curr_pcb /\ kernel_stack' = kernel_stack
  BY DEF SetKernelBrk, OutOfFrames, kernel, process
<1> QED BY <1>1, <1>2, SameStacks

(* Fork gives the child's stack two frames and leaves those of the others. *)
LEMMA ForkStacks ==
  ASSUME TypeOK, KernelFork
  PROVE  \A p \in alive : StackOf(p)' = StackOf(p)
<1>1. CASE OutOfFrames
  BY <1>1, SameStacks DEF OutOfFrames, kernel, process
<1>2. CASE ~OutOfFrames
  <2>1. kernel_page_table' = [kernel_page_table EXCEPT ![WindowPages[1]] = NoKernelPage,
                                                       ![WindowPages[2]] = NoKernelPage]
        /\ kernel_stack' =
             [kernel_stack EXCEPT ![next_pid] = ClonedStack(Cardinality(ValidPages(user_page_table[curr_pcb])))]
        /\ curr_pcb' = curr_pcb
    BY <1>2 DEF KernelFork
  <2>2. /\ kernel_page_table'[StackPages[1]] = kernel_page_table[StackPages[1]]
        /\ kernel_page_table'[StackPages[2]] = kernel_page_table[StackPages[2]]
    <3>1. StackPages[1] \notin {WindowPages[1], WindowPages[2]}
          /\ StackPages[2] \notin {WindowPages[1], WindowPages[2]}
      BY Sizes
    <3>2. kernel_page_table \in [Page -> KernelEntry] /\ StackPages[1] \in Page /\ StackPages[2] \in Page
      BY TypeFacts, Sizes
    <3> QED BY <2>1, <3>1, <3>2
  <2>3. \A p \in alive : kernel_stack'[p] = kernel_stack[p]
    BY <2>1, TypeFacts DEF TypeOK
  <2> QED BY <2>1, <2>2, <2>3, SameStacks
<1> QED BY <1>1, <1>2

(* The other steps touch no kernel stack. *)
LEMMA OtherStacks ==
  ASSUME UNCHANGED <<kernel, curr_pcb>>
  PROVE  \A p \in Pid : StackOf(p)' = StackOf(p)
BY SameStacks DEF kernel

(* Every step keeps the kernel stacks of the processes. *)
LEMMA StackStep ==
  ASSUME TypeOK, [Next]_vars
  PROVE  \A p \in alive \cap alive' : StackOf(p)' = StackOf(p)
<1>0. alive \subseteq Pid
  BY TypeFacts
<1>1. ASSUME NEW q, switch_to_next_ready_process(q) \/ KernelExit(q)
      PROVE  \A p \in Pid : StackOf(p)' = StackOf(p)
  BY <1>1, SwitchStacks DEF switch_to_next_ready_process, KernelExit
<1>2. ASSUME NEW im, NEW read, LoadProgram(im, read)
      PROVE  \A p \in Pid : StackOf(p)' = StackOf(p)
  BY <1>2, OtherStacks DEF LoadProgram, OutOfFrames, process
<1>3. ASSUME NEW addr, KernelBrk(addr)
      PROVE  \A p \in Pid : StackOf(p)' = StackOf(p)
  BY <1>3, OtherStacks DEF KernelBrk, OutOfFrames, process
<1>4. CASE UNCHANGED vars
  BY <1>0, <1>4, OtherStacks DEF vars, process
<1>5. ASSUME NEW addr, trap_memory_handler(addr)
      PROVE  \A p \in Pid : StackOf(p)' = StackOf(p)
  BY <1>1, <1>5, OtherStacks DEF trap_memory_handler, vars, process
<1> QED BY <1>0, <1>1, <1>2, <1>3, <1>4, <1>5, HeapStacks, ForkStacks DEF Next

(* For any number of processes, the kernel stack of a process stays in its *)
(* two frames from its creation to its exit.                               *)
THEOREM StacksCorrect == Spec => KernelStackStable
<1> DEFINE Body == \A p \in alive \cap alive' : StackOf(p)' = StackOf(p)
<1>1. TypeOK /\ [Next]_vars => [Body]_vars
  BY StackStep
<1>2. [][Body]_vars => KernelStackStable
  BY DEF KernelStackStable
<1> HIDE DEF Body
<1> QED BY <1>1, <1>2, MemoryTypes, PTL DEF Spec

----------------------------------------------------------------------------
(* The frames.                                                             *)

(* What the steps need of the types. *)
LEMMA OwnerTypes ==
  ASSUME TypeOK
  PROVE  /\ KERNEL_BRK \in Nat /\ alive \in SUBSET Pid /\ curr_pcb \in alive
         /\ user_page_table \in [Pid -> [Page -> Entry]]
         /\ kernel_page_table \in [Page -> KernelEntry]
         /\ Free \cap used = {} /\ Free \subseteq Frame
BY TypeFacts, Sizes DEF TypeOK, Free

(* A step that moves no stack of those that live on leaves Stacks as it is *)
(* for them.                                                               *)
LEMMA StacksFollow ==
  ASSUME TypeOK, NEW B \in SUBSET Pid, \A p \in B : StackOf(p)' = StackOf(p)
  PROVE  \A p \in B : Stacks'[p] = Stacks[p]
BY DEF Stacks

(* A step that changes neither tables nor breaks changes no owner. *)
LEMMA SameOwners ==
  ASSUME TypeOK, OwnersInv, [Next]_vars,
         UNCHANGED <<KERNEL_BRK, user_page_table, used>>, alive' \subseteq alive,
         \A i \in Page : i < KERNEL_BRK => kernel_page_table'[i] = kernel_page_table[i]
  PROVE  OwnersInv'
<1>1. \A p \in alive' : Stacks'[p] = Stacks[p]
  BY StackStep, StacksFollow, OwnerTypes
<1> QED BY <1>1, OwnersKept DEF OwnersInv

(* The heap takes frames that were free, and frees those it gives up. *)
LEMMA HeapOwners ==
  ASSUME TypeOK, OwnersInv, NEW top \in KernelPages..HeapMax, SetKernelBrk(top), [Next]_vars
  PROVE  OwnersInv'
<1> DEFINE new == {i \in Page : KERNEL_BRK <= i /\ i < top}
           old == {i \in Page : top <= i /\ i < KERNEL_BRK}
           n   == Cardinality(new)
<1>0. top \in Nat /\ KERNEL_BRK \in Nat /\ (\A i \in Page : i \in Nat)
      /\ alive \subseteq Pid /\ Free \cap used = {}
  BY OwnerTypes, Sizes
<1>1. ASSUME UNCHANGED <<process, user>>
      PROVE  /\ UNCHANGED <<alive, user_page_table>>
             /\ Stacks' = Stacks
  BY <1>1, HeapStacks DEF process, user, Stacks
<1>2. CASE /\ new # {} /\ HasFrames(Free, n)
           /\ kernel_page_table' = [i \in Page |->
                IF i \in new THEN KernelPage(FrameFor(Free, 0, new, i)) ELSE kernel_page_table[i]]
           /\ used' = used \cup Taken(Free, n)
           /\ KERNEL_BRK' = top /\ UNCHANGED <<kernel_stack, process, user, fault, window_hit>>
  <2>1. new \in SUBSET Page /\ n \in Nat /\ 0 + n <= n
    <3>1. new \in SUBSET Page
      OBVIOUS
    <3> HIDE DEF new
    <3>2. n \in Nat
      BY <3>1, PageRank
    <3> QED BY <3>1, <3>2
  <2>2. KERNEL_BRK < top /\ \A i \in Page : i < top => (i \in new <=> ~(i < KERNEL_BRK))
    BY <1>0, <1>2
  <2> HIDE DEF new
  <2>3. /\ Taken(Free, n) \subseteq Free
        /\ \A i \in new : FrameFor(Free, 0, new, i) \in Taken(Free, n)
        /\ \A i, k \in new : FrameFor(Free, 0, new, i) = FrameFor(Free, 0, new, k) => i = k
    <3> HIDE DEF Free
    <3> QED BY <1>2, <2>1, TakenFree, FramesForPages
  <2>4. /\ \A i \in new : kernel_page_table'[i].pfn = FrameFor(Free, 0, new, i)
        /\ \A i \in Page \ new : kernel_page_table'[i] = kernel_page_table[i]
    BY <1>2, <2>1 DEF KernelPage
  <2>5. Taken(Free, n) \cap used = {}
    BY <1>0, <2>3
  <2>6. \A i \in Page : i < top => IF i < KERNEL_BRK THEN kernel_page_table'[i].pfn = kernel_page_table[i].pfn
                                   ELSE kernel_page_table'[i].pfn \in Taken(Free, n)
    BY <2>2, <2>3, <2>4
  <2>7. \A i, j \in Page : i < top /\ j < top /\ ~(i < KERNEL_BRK) /\ ~(j < KERNEL_BRK)
                           /\ kernel_page_table'[i].pfn = kernel_page_table'[j].pfn => i = j
    BY <2>2, <2>3, <2>4
  <2> HIDE DEF n
  <2>8. Owners(kernel_page_table', top, user_page_table, alive, Stacks, used \cup Taken(Free, n))
    BY <1>0, <2>5, <2>6, <2>7, HeapRaised DEF OwnersInv
  <2> QED BY <1>1, <1>2, <2>8 DEF OwnersInv
<1>3. CASE OutOfFrames
  BY <1>3, SameOwners DEF OutOfFrames, kernel, process, user
<1>4. CASE /\ old # {}
           /\ used' = used \ {kernel_page_table[i].pfn : i \in old}
           /\ kernel_page_table' = LowerUnmaps(top)
           /\ KERNEL_BRK' = top /\ UNCHANGED <<kernel_stack, process, user, fault, window_hit>>
  <2>1. top <= KERNEL_BRK
    BY <1>0, <1>4
  <2>2. \A i \in Page : i < top => kernel_page_table'[i].pfn = kernel_page_table[i].pfn
    BY <1>0, <1>4 DEF LowerUnmaps
  <2>3. old \in SUBSET Page /\ \A i \in old : top <= i /\ i < KERNEL_BRK
    OBVIOUS
  <2> HIDE DEF old
  <2>4. Owners(kernel_page_table', top, user_page_table, alive, Stacks,
               used \ {kernel_page_table[i].pfn : i \in old})
    BY <1>0, <2>1, <2>2, <2>3, HeapLowered DEF OwnersInv
  <2> QED BY <1>1, <1>4, <2>4 DEF OwnersInv
<1> QED BY <1>2, <1>3, <1>4 DEF SetKernelBrk

(* Every page and the kernel stack of a forked child get frames that were  *)
(* free; and unless the fork hits the heap, the windows that it closes are *)
(* no pages of the heap.                                                   *)
LEMMA ForkOwners ==
  ASSUME TypeOK, KernelLayout, OwnersInv, ~window_hit, ~window_hit', KernelFork, [Next]_vars
  PROVE  OwnersInv'
<1> DEFINE pages == ValidPages(user_page_table[curr_pcb])
           n     == Cardinality(pages)
           table == CopiedTable(pages)
           stack == ClonedStack(n)
           taken == Taken(Free, n + 4)
<1>1. CASE OutOfFrames
  BY <1>1, SameOwners DEF OutOfFrames, kernel, process, user
<1>2. CASE ~OutOfFrames
  <2>1. /\ HasFrames(Free, n + 4)
        /\ used' = used \cup taken
        /\ user_page_table' = [user_page_table EXCEPT ![next_pid] = table]
        /\ kernel_stack' = [kernel_stack EXCEPT ![next_pid] = stack]
        /\ kernel_page_table' = [kernel_page_table EXCEPT ![WindowPages[1]] = NoKernelPage,
                                                          ![WindowPages[2]] = NoKernelPage]
        /\ alive' = alive \cup {next_pid} /\ next_pid <= MaxPid
        /\ KERNEL_BRK' = KERNEL_BRK /\ curr_pcb' = curr_pcb
        /\ window_hit' = (window_hit \/ kernel_page_table[WindowPages[2]].valid)
    BY <1>2 DEF KernelFork
  <2>2. /\ taken \subseteq Free
        /\ \A i \in Page : table[i].valid <=> i \in pages
        /\ \A i \in pages : table[i].pfn \in taken
        /\ \A i, j \in pages : table[i].pfn = table[j].pfn => i = j
        /\ stack \in taken \X taken /\ stack[1] # stack[2]
        /\ \A i \in pages : table[i].pfn # stack[1] /\ table[i].pfn # stack[2]
    BY <2>1, ForkFrames
  <2> HIDE DEF pages, n, table, stack, taken
  <2>3. /\ next_pid \in Pid /\ next_pid \notin alive /\ alive \in SUBSET Pid
        /\ user_page_table \in [Pid -> [Page -> Entry]] /\ KERNEL_BRK \in Nat
        /\ taken \cap used = {}
    <3>1. next_pid \in Pid
      <4>1. next_pid \in Nat
        BY TypeFacts
      <4> QED BY <2>1, <4>1, Sizes DEF Pid
    <3> QED BY <2>2, <3>1, OwnerTypes, TypeFacts
  <2>4. /\ \A p \in alive : user_page_table'[p] = user_page_table[p]
        /\ user_page_table'[next_pid] = table
    BY <2>1, <2>3
  <2>5. \A p \in alive : Stacks'[p] = Stacks[p]
    BY <2>3, ForkStacks, StacksFollow
  <2>6. Stacks'[next_pid] = stack
    <3>1. kernel_stack'[next_pid] = stack /\ next_pid # curr_pcb'
      BY <2>1, <2>3, OwnerTypes DEF TypeOK
    <3>2. ASSUME NEW c, c = next_pid
          PROVE  Stacks'[c] = stack
      <4>1. Stacks'[c] = StackOf(c)'
        BY <2>3, <3>2 DEF Stacks
      <4>2. kernel_stack'[c] = stack /\ c # curr_pcb'
        BY <3>1, <3>2
      <4> QED BY <4>1, <4>2 DEF StackOf
    <3> QED BY <3>2
  <2>7. /\ stack[1] \in taken /\ stack[2] \in taken
    BY <2>2
  <2>8. Owners(kernel_page_table, KERNEL_BRK, user_page_table', alive \cup {next_pid}, Stacks',
               used \cup taken)
    <3>1. Joins(user_page_table, alive, Stacks, next_pid, user_page_table', Stacks', taken)
      BY <2>2, <2>3, <2>4, <2>5, <2>6, <2>7 DEF Joins
    <3> QED BY <2>3, <3>1, ProcessAdded DEF OwnersInv
  <2>9. \A i \in Page : i < KERNEL_BRK => kernel_page_table'[i].pfn = kernel_page_table[i].pfn
    <3>1. ~(WindowPages[2] < KERNEL_BRK)
      <4>1. /\ WindowPages[2] \in Page
            /\ WindowPages[2] # StackPages[1] /\ WindowPages[2] # StackPages[2]
        BY Sizes
      <4> QED BY <2>1, <4>1, KernelLayoutByPage DEF MappedByKernel
    <3>2. ASSUME NEW i \in Page, i < KERNEL_BRK
          PROVE  i # WindowPages[1] /\ i # WindowPages[2]
      BY <2>3, <3>1, <3>2, Sizes
    <3> QED BY <2>1, <3>2, OwnerTypes
  <2> QED BY <2>1, <2>8, <2>9, OwnersKept DEF OwnersInv
<1> QED BY <1>1, <1>2

(* LoadProgram frees the frames of the old pages, and the new pages get    *)
(* frames that are free then.                                              *)
LEMMA LoadOwners ==
  ASSUME TypeOK, OwnersInv, NEW im \in Programs, NEW read \in BOOLEAN, LoadProgram(im, read),
         [Next]_vars
  PROVE  OwnersInv'
<1> DEFINE old   == user_page_table[curr_pcb]
           free  == Free \cup FramesOf(old)
           pages == LoadedPages(im)
           n     == Cardinality(pages)
           exec  == Executable(im, read)
           table == LoadedTable(im, exec, old, free)
           valid == ValidPages(old)
           rest  == used \ FramesOf(old)
<1>1. CASE OutOfFrames
  BY <1>1, SameOwners DEF OutOfFrames, kernel, process, user
<1>2. CASE ~OutOfFrames
  <2>1. /\ Fits(im) /\ HasFrames(free, n) /\ old \in [Page -> Entry] /\ free \in SUBSET Frame
        /\ used' = (used \ FramesOf(old)) \cup Taken(free, n)
        /\ user_page_table' = [user_page_table EXCEPT ![curr_pcb] = table]
        /\ UNCHANGED <<kernel, process, fault, window_hit>>
    BY <1>2, LoadFrames
  <2>2. /\ valid \in SUBSET Page /\ \A i : i \in valid <=> i \in Page /\ user_page_table[curr_pcb][i].valid
        /\ \A f \in FramesOf(old) : \E i \in valid : f = user_page_table[curr_pcb][i].pfn
    BY DEF FramesOf, ValidPages
  <2>3. /\ alive \in SUBSET Pid /\ curr_pcb \in alive /\ KERNEL_BRK \in Nat
        /\ user_page_table \in [Pid -> [Page -> Entry]]
    BY OwnerTypes
  <2>4. \A i \in Page : ~EmptyTable[i].valid
    BY DEF EmptyTable, Unmapped
  <2>5. pages \in SUBSET Page
    BY <2>1, ProgramSizes
  <2> HIDE DEF free, old, exec
  <2>6. /\ Taken(free, n) \subseteq free
        /\ (\A i \in Page : table[i].valid <=> i \in pages)
        /\ (\A i \in pages : table[i].pfn \in Taken(free, n))
        /\ (\A i, j \in pages : table[i].pfn = table[j].pfn => i = j)
    <3>1. Taken(free, n) \subseteq free /\ \A i \in Page : table[i].valid <=> i \in pages
      BY <2>1, LoadedEntries
    <3>2. \A i \in pages : table[i].pfn \in Taken(free, n)
      BY <2>1, LoadedEntries
    <3>3. \A i, j \in pages : table[i].pfn = table[j].pfn => i = j
      BY <2>1, LoadedEntries
    <3> QED BY <3>1, <3>2, <3>3
  <2> HIDE DEF pages, table, n, valid
  <2>7. Taken(free, n) \cap rest = {}
    BY <2>6 DEF free, Free
  <2> DEFINE between == [user_page_table EXCEPT ![curr_pcb] = EmptyTable]
  <2>8. between[curr_pcb] = EmptyTable /\ \A q \in alive : q # curr_pcb => between[q] = user_page_table[q]
    BY <2>3
  <2>9. /\ user_page_table'[curr_pcb] = table
        /\ \A q \in alive : q # curr_pcb => user_page_table'[q] = between[q]
    BY <2>1, <2>3
  <2> HIDE DEF between
  <2>10. Owners(kernel_page_table, KERNEL_BRK, between, alive, Stacks, rest)
    <3>1. Drops(user_page_table, alive, between, curr_pcb, valid, FramesOf(old))
      BY <2>2, <2>3, <2>4, <2>8 DEF Drops
    <3> QED BY <3>1, PagesDropped DEF OwnersInv
  <2> HIDE DEF rest
  <2>11. Owners(kernel_page_table, KERNEL_BRK, user_page_table', alive, Stacks, rest \cup Taken(free, n))
    <3>1. Adds(between, alive, user_page_table', curr_pcb, pages, Taken(free, n))
      BY <2>3, <2>5, <2>6, <2>8, <2>9 DEF Adds
    <3> QED BY <2>7, <2>10, <3>1, PagesAdded
  <2>12. Stacks' = Stacks /\ UNCHANGED <<kernel_page_table, KERNEL_BRK, alive>>
    BY <2>1, OtherStacks DEF Stacks, kernel, process
  <2> QED BY <2>1, <2>11, <2>12 DEF OwnersInv, rest
<1> QED BY <1>1, <1>2

(* Brk frees the frames of the pages it unmaps; all of them are mapped. The *)
(* pages it maps get frames that were free.                                *)
LEMMA BrkOwners ==
  ASSUME TypeOK, BelowBreakMapped, OwnersInv, NEW addr \in Nat, KernelBrk(addr), [Next]_vars
  PROVE  OwnersInv'
<1> DEFINE old == {i \in Page : addr <= i + PTLen /\ i + PTLen < brk[curr_pcb]}
           n   == Cardinality(Raised(addr))
<1>0. /\ alive \in SUBSET Pid /\ curr_pcb \in alive /\ KERNEL_BRK \in Nat
      /\ user_page_table \in [Pid -> [Page -> Entry]]
      /\ Free \cap used = {}
  BY OwnerTypes
<1>1. CASE OutOfFrames
  BY <1>1, SameOwners DEF OutOfFrames, kernel, process, user
<1>2. CASE /\ used' = used \ {user_page_table[curr_pcb][i].pfn : i \in old}
           /\ user_page_table' =
                [user_page_table EXCEPT ![curr_pcb] = Lowered(user_page_table[curr_pcb], old)]
           /\ UNCHANGED <<kernel, process>>
  <2>1. old \in SUBSET Page /\ \A i \in old : user_page_table[curr_pcb][i].valid
    BY <1>0 DEF BelowBreakMapped
  <2> HIDE DEF old
  <2>2. \A i \in Page : user_page_table'[curr_pcb][i].valid =>
          /\ user_page_table[curr_pcb][i].valid /\ i \notin old
          /\ user_page_table'[curr_pcb][i].pfn = user_page_table[curr_pcb][i].pfn
    BY <1>0, <1>2 DEF Lowered, Unmapped
  <2>3. \A q \in alive : q # curr_pcb => user_page_table'[q] = user_page_table[q]
    BY <1>0, <1>2
  <2> DEFINE freed == {user_page_table[curr_pcb][i].pfn : i \in old}
  <2>4. \A f \in freed : \E i \in old : f = user_page_table[curr_pcb][i].pfn
    OBVIOUS
  <2> HIDE DEF freed
  <2>5. Owners(kernel_page_table, KERNEL_BRK, user_page_table', alive, Stacks, used \ freed)
    <3>1. Drops(user_page_table, alive, user_page_table', curr_pcb, old, freed)
      BY <1>0, <2>1, <2>2, <2>3, <2>4 DEF Drops
    <3> QED BY <3>1, PagesDropped DEF OwnersInv
  <2>6. Stacks' = Stacks /\ UNCHANGED <<kernel_page_table, KERNEL_BRK, alive>>
    BY <1>2, OtherStacks DEF Stacks, kernel, process
  <2> QED BY <1>2, <2>5, <2>6 DEF OwnersInv, freed
<1>3. CASE /\ HasFrames(Free, n)
           /\ used' = used \cup Taken(Free, n)
           /\ user_page_table' = [user_page_table EXCEPT ![curr_pcb] = RaisedTable(addr)]
           /\ UNCHANGED <<kernel, process>>
  <2>1. /\ Taken(Free, n) \subseteq Free /\ Raised(addr) \in SUBSET Page
        /\ \A i \in Page \ Raised(addr) : RaisedTable(addr)[i] = user_page_table[curr_pcb][i]
        /\ \A i \in Raised(addr) : RaisedTable(addr)[i].pfn \in Taken(Free, n)
        /\ \A i, j \in Raised(addr) : RaisedTable(addr)[i].pfn = RaisedTable(addr)[j].pfn => i = j
    BY <1>3, RaiseFrames
  <2> HIDE DEF n
  <2>2. Taken(Free, n) \cap used = {}
    BY <1>0, <2>1
  <2>3. /\ user_page_table'[curr_pcb] = RaisedTable(addr)
        /\ \A q \in alive : q # curr_pcb => user_page_table'[q] = user_page_table[q]
    BY <1>0, <1>3
  <2>5. Owners(kernel_page_table, KERNEL_BRK, user_page_table', alive, Stacks, used \cup Taken(Free, n))
    <3>1. Adds(user_page_table, alive, user_page_table', curr_pcb, Raised(addr), Taken(Free, n))
      BY <1>0, <2>1, <2>3 DEF Adds
    <3> QED BY <2>2, <3>1, PagesAdded DEF OwnersInv
  <2>6. Stacks' = Stacks /\ UNCHANGED <<kernel_page_table, KERNEL_BRK, alive>>
    BY <1>3, OtherStacks DEF Stacks, kernel, process
  <2> QED BY <1>3, <2>5, <2>6 DEF OwnersInv
<1> QED BY <1>1, <1>2, <1>3 DEF KernelBrk, RaisedTable

(* Every step keeps the invariant, but for a fork that hits the heap. *)
LEMMA OwnersStep ==
  ASSUME TypeOK, KernelLayout, BelowBreakMapped, OwnersInv, ~window_hit, ~window_hit', [Next]_vars
  PROVE  OwnersInv'
<1>1. CASE UNCHANGED vars
  BY <1>1, SameOwners DEF vars, kernel, process, user
<1>0. \A i \in Page : i < KERNEL_BRK => i # StackPages[1] /\ i # StackPages[2]
  BY Sizes DEF TypeOK
<1>2. ASSUME NEW q, switch_to_next_ready_process(q)
      PROVE  OwnersInv'
  <2>1. \A i \in Page : i < KERNEL_BRK => kernel_page_table'[i] = kernel_page_table[i]
    BY <1>0, <1>2, SwitchStacks DEF switch_to_next_ready_process
  <2> QED BY <1>2, <2>1, SameOwners DEF switch_to_next_ready_process, user
<1>3. ASSUME NEW q, KernelExit(q)
      PROVE  OwnersInv'
  <2>1. \A i \in Page : i < KERNEL_BRK => kernel_page_table'[i].pfn = kernel_page_table[i].pfn
    BY <1>0, <1>3, SwitchStacks DEF KernelExit
  <2>2. /\ alive' \in SUBSET alive /\ UNCHANGED <<KERNEL_BRK, used>>
        /\ \A p \in alive' : user_page_table'[p] = user_page_table[p]
    BY <1>3, OwnerTypes DEF KernelExit
  <2>3. \A p \in alive' : Stacks'[p] = Stacks[p]
    BY <2>2, StackStep, StacksFollow, OwnerTypes
  <2> QED BY <2>1, <2>2, <2>3, OwnersKept DEF OwnersInv
<1>4. ASSUME NEW addr, trap_memory_handler(addr)
      PROVE  OwnersInv'
  <2>1. CASE fault' = "overrun" /\ UNCHANGED <<used, kernel, process, user, window_hit>>
    BY <2>1, SameOwners DEF kernel, process, user
  <2> QED BY <1>1, <1>3, <1>4, <2>1 DEF trap_memory_handler
<1>5. Breaks \subseteq Nat
  BY MemoryAssumption
<1> QED BY <1>1, <1>2, <1>3, <1>4, <1>5, HeapOwners, ForkOwners, LoadOwners, BrkOwners DEF Next

(* After boot the kernel owns the frames with the numbers of its pages,    *)
(* idle its user stack and the boot stack, and init its kernel stack.      *)
LEMMA OwnersInit == Init => (~window_hit => OwnersInv)
<1> SUFFICES ASSUME Init, ~window_hit
             PROVE  OwnersInv
  OBVIOUS
<1> DEFINE free   == Frame \ BootFrames
           new(k) == first_free_frame_idx(free, k)
<1>1. /\ HasFrames(free, 5) /\ used = BootFrames \cup Taken(free, 5)
      /\ kernel_page_table = [i \in Page |->
           IF i \in {WindowPages[1], WindowPages[2]} THEN NoKernelPage
           ELSE IF i \in BootFrames THEN KernelPage(i)
           ELSE [NoKernelPage EXCEPT !.pfn = i]]
      /\ KERNEL_BRK = KernelPages /\ ~(WindowPages[2] < KernelPages) /\ curr_pcb = IDLE /\ alive = {IDLE, INIT}
      /\ user_page_table = [p \in Pid |->
           IF p = IDLE THEN [EmptyTable EXCEPT ![PTLen - 1] = Mapped(new(0), "rw")] ELSE EmptyTable]
      /\ kernel_stack = [p \in Pid |-> IF p = INIT THEN <<new(3), new(4)>> ELSE <<0, 0>>]
  BY DEF Init
<1> HIDE DEF free
<1>2. /\ new(0) \in Taken(free, 5) /\ new(3) \in Taken(free, 5) /\ new(4) \in Taken(free, 5)
      /\ new(0) # new(3) /\ new(0) # new(4) /\ new(3) # new(4)
      /\ new(0) \in free /\ new(3) \in free /\ new(4) \in free
  <2>1. 0 \in 0..5-1 /\ 3 \in 0..5-1 /\ 4 \in 0..5-1
    OBVIOUS
  <2> QED BY <1>1, <2>1, TakenFree DEF Taken
<1> HIDE DEF new
<1>3. /\ PTLen - 1 \in BootFrames /\ PTLen - 2 \in BootFrames /\ IDLE # INIT
      /\ IDLE \in Pid /\ INIT \in Pid
      /\ \A i \in Page : i < KERNEL_BRK => i \in BootFrames /\ i # PTLen - 1 /\ i # PTLen - 2
  BY <1>1, Sizes DEF BootFrames, IDLE, INIT
<1>4. /\ PTLen - 1 \in Page /\ PTLen - 2 \in Page /\ PTLen - 1 # PTLen - 2
      /\ \A i \in Page \cap BootFrames : kernel_page_table[i].pfn = i
  <2>1. \A i \in BootFrames : i # WindowPages[1] /\ i # WindowPages[2]
    BY <1>1, Sizes DEF BootFrames
  <2> QED BY <1>1, <2>1, Sizes DEF KernelPage
<1>5. /\ Stacks[IDLE][1] = PTLen - 1 /\ Stacks[IDLE][2] = PTLen - 2
      /\ Stacks[INIT][1] = new(3) /\ Stacks[INIT][2] = new(4)
  BY <1>1, <1>3, <1>4, Sizes DEF Stacks, StackOf
<1>6. \A p \in alive, i \in Page :
        user_page_table[p][i].valid => p = IDLE /\ i = PTLen - 1 /\ user_page_table[p][i].pfn = new(0)
  BY <1>1, <1>3, <1>4 DEF EmptyTable, Unmapped, Mapped
<1>7. \A f \in free : f \notin BootFrames
  BY DEF free
<1>8. HeapOwned(kernel_page_table, KERNEL_BRK, used)
  BY <1>1, <1>3, <1>4 DEF HeapOwned
<1>9. UserOwned(user_page_table, alive, used)
  <2>1. new(0) \in used
    BY <1>1, <1>2
  <2>2. \A p \in alive, i \in Page : user_page_table[p][i].valid => user_page_table[p][i].pfn \in used
    BY <1>6, <2>1
  <2>3. \A p, q \in alive, i, j \in Page :
          user_page_table[p][i].valid /\ user_page_table[q][j].valid => p = q /\ i = j
    BY <1>6
  <2> QED BY <2>2, <2>3 DEF UserOwned
<1>10. StackOwned(Stacks, alive, used)
  BY <1>1, <1>2, <1>3, <1>4, <1>5, <1>7 DEF StackOwned
<1>11. HeapUserApart(kernel_page_table, KERNEL_BRK, user_page_table, alive)
  BY <1>2, <1>3, <1>4, <1>6, <1>7 DEF HeapUserApart
<1>12. HeapStackApart(kernel_page_table, KERNEL_BRK, Stacks, alive)
  BY <1>1, <1>2, <1>3, <1>4, <1>5, <1>7 DEF HeapStackApart
<1>13. UserStackApart(user_page_table, Stacks, alive)
  BY <1>1, <1>2, <1>3, <1>5, <1>6, <1>7 DEF UserStackApart
<1> QED BY <1>8, <1>9, <1>10, <1>11, <1>12, <1>13 DEF OwnersInv, Owners

(* The invariant holds of every state that no copy hitting the heap has    *)
(* come before.                                                            *)
LEMMA OwnersAlways ==
  Spec => [](TypeOK /\ KernelLayout /\ UserLayout /\ (~window_hit => OwnersInv))
<1> DEFINE Inv == TypeOK /\ KernelLayout /\ UserLayout /\ (~window_hit => OwnersInv)
<1>1. Init => Inv
  BY TypeInit, KernelLayoutInit, UserLayoutInit, OwnersInit
<1>2. Inv /\ [Next]_vars => Inv'
  <2> SUFFICES ASSUME Inv, [Next]_vars
               PROVE  Inv'
    OBVIOUS
  <2>1. TypeOK' /\ KernelLayout' /\ UserLayout'
    BY TypeStep, KernelLayoutStep, UserLayoutStep
  <2>2. ASSUME ~window_hit'
        PROVE  OwnersInv'
    BY <2>2, HitStays, OwnersStep DEF UserLayout
  <2> QED BY <2>1, <2>2
<1> HIDE DEF Inv
<1>3. Spec => []Inv
  BY <1>1, <1>2, PTL DEF Spec
<1> QED BY <1>3 DEF Inv

(* The frames in use: those of the kernel's pages below its break, of the  *)
(* user pages, and of the kernel stacks.                                   *)
HeapFrame(f)  ==
  \E i \in Page : /\ i < KERNEL_BRK /\ kernel_page_table[i].valid
                 /\ f = kernel_page_table[i].pfn
UserFrame(f)  == \E p \in alive, i \in Page : user_page_table[p][i].valid /\ f = user_page_table[p][i].pfn
StackFrame(f) == \E p \in alive : f = Stacks[p][1] \/ f = Stacks[p][2]

(* The owners that SingleOwner counts, said frame by frame. *)
LEMMA OwnedFrames ==
  ASSUME TypeOK, KernelLayout
  PROVE  /\ \A f : f \in UserFrames <=> UserFrame(f)
         /\ \A f : f \in KernelFrames <=> \/ HeapFrame(f)
                                          \/ f = Stacks[curr_pcb][1] \/ f = Stacks[curr_pcb][2]
         /\ \A f : f \in StackFrames <=>
              \E p \in alive : p # curr_pcb /\ (f = Stacks[p][1] \/ f = Stacks[p][2])
<1>1. \A f : f \in UserFrames <=> UserFrame(f)
  <2>1. \A u : u \in UserUses <=> /\ u \in alive \X Page
                                  /\ user_page_table[u[1]][u[2]].valid
    BY DEF UserUses
  <2>2. ASSUME NEW f \in UserFrames
        PROVE  UserFrame(f)
    <3>1. PICK u \in UserUses : f = user_page_table[u[1]][u[2]].pfn
      BY <2>2 DEF UserFrames
    <3>2. u[1] \in alive /\ u[2] \in Page /\ user_page_table[u[1]][u[2]].valid
      BY <2>1
    <3> QED BY <3>1, <3>2 DEF UserFrame
  <2>3. ASSUME NEW f, UserFrame(f)
        PROVE  f \in UserFrames
    <3>1. PICK p \in alive, i \in Page : user_page_table[p][i].valid /\ f = user_page_table[p][i].pfn
      BY <2>3 DEF UserFrame
    <3> DEFINE u == <<p, i>>
    <3>2. u \in alive \X Page /\ u[1] = p /\ u[2] = i
      OBVIOUS
    <3> HIDE DEF u
    <3>3. u \in UserUses /\ f = user_page_table[u[1]][u[2]].pfn
      BY <2>1, <3>1, <3>2
    <3> QED BY <3>3 DEF UserFrames
  <2> QED BY <2>2, <2>3
<1>2. curr_pcb \in Pid /\ Stacks[curr_pcb][1] = kernel_page_table[StackPages[1]].pfn
      /\ Stacks[curr_pcb][2] = kernel_page_table[StackPages[2]].pfn
  BY TypeFacts DEF Stacks, StackOf
<1>3. \A f : f \in KernelFrames <=> \/ HeapFrame(f)
                                   \/ f = Stacks[curr_pcb][1] \/ f = Stacks[curr_pcb][2]
  <2>1. \A i : i \in KernelUses <=>
          /\ i \in Page
          /\ (i < KERNEL_BRK /\ kernel_page_table[i].valid) \/ i = StackPages[1] \/ i = StackPages[2]
    <3>1. StackPages[1] # WindowPages[2] /\ StackPages[2] # WindowPages[2]
      BY Sizes
    <3> QED BY <3>1, KernelLayoutByPage DEF MappedByKernel, KernelUses
  <2>2. StackPages[1] \in Page /\ StackPages[2] \in Page
    BY Sizes
  <2> QED BY <1>2, <2>1, <2>2 DEF KernelFrames, HeapFrame
<1>4. \A p \in alive : p # curr_pcb => Stacks[p][1] = kernel_stack[p][1] /\ Stacks[p][2] = kernel_stack[p][2]
  BY TypeFacts DEF Stacks, StackOf
<1>5. \A f : f \in StackFrames <=>
        \E p \in alive : p # curr_pcb /\ (f = Stacks[p][1] \/ f = Stacks[p][2])
  <2>1. ASSUME NEW f \in StackFrames
        PROVE  \E p \in alive : p # curr_pcb /\ (f = Stacks[p][1] \/ f = Stacks[p][2])
    <3>1. PICK u \in StackUses : f = kernel_stack[u[1]][u[2]]
      BY <2>1 DEF StackFrames
    <3>2. u[1] \in alive /\ u[1] # curr_pcb /\ (u[2] = 1 \/ u[2] = 2)
      BY DEF StackUses
    <3> QED BY <1>4, <3>1, <3>2
  <2>2. ASSUME NEW p \in alive, p # curr_pcb, NEW n \in {1, 2}
        PROVE  kernel_stack[p][n] \in StackFrames
    <3> DEFINE u == <<p, n>>
    <3>1. u \in StackUses /\ u[1] = p /\ u[2] = n
      BY <2>2 DEF StackUses
    <3> HIDE DEF u
    <3> QED BY <3>1 DEF StackFrames
  <2> QED BY <1>4, <2>1, <2>2
<1> QED BY <1>1, <1>3, <1>5

(* So the invariant says what SingleOwner and OwnedUsed say. *)
LEMMA OwnersMean ==
  ASSUME TypeOK, KernelLayout, ~window_hit => OwnersInv
  PROVE  SingleOwner /\ OwnedUsed
<1> SUFFICES ASSUME ~window_hit, OwnersInv
             PROVE  SingleOwner /\ OwnedUsed
  BY DEF SingleOwner, OwnedUsed
<1>1. /\ HeapOwned(kernel_page_table, KERNEL_BRK, used) /\ UserOwned(user_page_table, alive, used)
      /\ StackOwned(Stacks, alive, used)
      /\ HeapUserApart(kernel_page_table, KERNEL_BRK, user_page_table, alive)
      /\ HeapStackApart(kernel_page_table, KERNEL_BRK, Stacks, alive)
      /\ UserStackApart(user_page_table, Stacks, alive)
  BY DEF OwnersInv, Owners
<1>2. /\ curr_pcb \in alive /\ alive \subseteq Pid
      /\ Stacks[curr_pcb][1] = kernel_page_table[StackPages[1]].pfn
      /\ Stacks[curr_pcb][2] = kernel_page_table[StackPages[2]].pfn
      /\ \A p \in alive : p # curr_pcb => /\ Stacks[p][1] = kernel_stack[p][1]
                                         /\ Stacks[p][2] = kernel_stack[p][2]
  BY TypeFacts DEF Stacks, StackOf
<1>3. OwnedUsed
  <2>1. \A f : HeapFrame(f) => f \in used
    BY <1>1 DEF HeapFrame, HeapOwned
  <2>2. \A f : UserFrame(f) => f \in used
    BY <1>1 DEF UserFrame, UserOwned
  <2>3. \A p \in alive : Stacks[p][1] \in used /\ Stacks[p][2] \in used
    BY <1>1 DEF StackOwned
  <2> QED BY <1>2, <2>1, <2>2, <2>3, OwnedFrames DEF OwnedUsed, Owned
<1>4. \A i, j \in KernelUses : kernel_page_table[i].pfn = kernel_page_table[j].pfn => i = j
  <2>1. \A i \in KernelUses : i \in Page /\ (i < KERNEL_BRK \/ i = StackPages[1] \/ i = StackPages[2])
    BY KernelLayoutByPage DEF KernelUses, MappedByKernel
  <2>2. \A i \in Page : i < KERNEL_BRK => /\ kernel_page_table[i].pfn # Stacks[curr_pcb][1]
                                         /\ kernel_page_table[i].pfn # Stacks[curr_pcb][2]
    BY <1>1, <1>2 DEF HeapStackApart
  <2>3. Stacks[curr_pcb][1] # Stacks[curr_pcb][2]
    BY <1>1, <1>2 DEF StackOwned
  <2> QED BY <1>1, <1>2, <2>1, <2>2, <2>3 DEF HeapOwned
<1>5. \A u, v \in UserUses :
        user_page_table[u[1]][u[2]].pfn = user_page_table[v[1]][v[2]].pfn => u = v
  <2>1. \A u \in UserUses : /\ u[1] \in alive /\ u[2] \in Page /\ u = <<u[1], u[2]>>
                           /\ user_page_table[u[1]][u[2]].valid
    BY DEF UserUses
  <2>2. ASSUME NEW u \in UserUses, NEW v \in UserUses,
               user_page_table[u[1]][u[2]].pfn = user_page_table[v[1]][v[2]].pfn
        PROVE  u[1] = v[1] /\ u[2] = v[2]
    BY <1>1, <2>1, <2>2 DEF UserOwned
  <2> QED BY <2>1, <2>2
<1>6. \A u, v \in StackUses : kernel_stack[u[1]][u[2]] = kernel_stack[v[1]][v[2]] => u = v
  <2>1. \A u \in StackUses : /\ u[1] \in alive /\ u[1] # curr_pcb /\ u[2] \in {1, 2}
                            /\ u = <<u[1], u[2]>>
                            /\ kernel_stack[u[1]][u[2]] = Stacks[u[1]][u[2]]
    <3>1. \A u \in StackUses : /\ u[1] \in alive /\ u[1] # curr_pcb /\ u[2] \in {1, 2}
                              /\ u = <<u[1], u[2]>>
      BY DEF StackUses
    <3> QED BY <1>2, <3>1
  <2>2. ASSUME NEW u \in StackUses, NEW v \in StackUses,
               kernel_stack[u[1]][u[2]] = kernel_stack[v[1]][v[2]]
        PROVE  u[1] = v[1] /\ u[2] = v[2]
    <3>1. \A p, q \in alive : \A m, n \in {1, 2} : Stacks[p][m] = Stacks[q][n] => p = q /\ m = n
      BY <1>1 DEF StackOwned
    <3> QED BY <2>1, <2>2, <3>1
  <2> QED BY <2>1, <2>2
<1>7. KernelFrames \cap UserFrames = {}
  <2>1. \A f : HeapFrame(f) => ~UserFrame(f)
    BY <1>1 DEF HeapFrame, UserFrame, HeapUserApart
  <2>2. ~UserFrame(Stacks[curr_pcb][1]) /\ ~UserFrame(Stacks[curr_pcb][2])
    BY <1>1, <1>2 DEF UserFrame, UserStackApart
  <2> QED BY <2>1, <2>2, OwnedFrames
<1>8. KernelFrames \cap StackFrames = {}
  <2>1. \A f, p : HeapFrame(f) /\ p \in alive => f # Stacks[p][1] /\ f # Stacks[p][2]
    BY <1>1 DEF HeapFrame, HeapStackApart
  <2>2. \A p \in alive : p # curr_pcb =>
          /\ Stacks[p][1] # Stacks[curr_pcb][1] /\ Stacks[p][1] # Stacks[curr_pcb][2]
          /\ Stacks[p][2] # Stacks[curr_pcb][1] /\ Stacks[p][2] # Stacks[curr_pcb][2]
    BY <1>1, <1>2 DEF StackOwned
  <2> QED BY <2>1, <2>2, OwnedFrames
<1>9. UserFrames \cap StackFrames = {}
  <2>1. \A f, p : UserFrame(f) /\ p \in alive => f # Stacks[p][1] /\ f # Stacks[p][2]
    BY <1>1 DEF UserFrame, UserStackApart
  <2> QED BY <2>1, OwnedFrames
<1> QED BY <1>3, <1>4, <1>5, <1>6, <1>7, <1>8, <1>9 DEF SingleOwner

(* For any number of processes, frames and pages, and a heap as high as    *)
(* SetKernelBrk allows, no two pages of the kernel, of a process, or of    *)
(* two processes share a frame, until a copy hits the heap.                *)
THEOREM SingleOwnerCorrect == Spec => []SingleOwner
BY OwnersAlways, OwnersMean, PTL

(* Until then, first_free_frame_idx never returns a frame in use. *)
THEOREM OwnedUsedCorrect == Spec => []OwnedUsed
BY OwnersAlways, OwnersMean, PTL

----------------------------------------------------------------------------
(* The frames that are lost.                                               *)

(* Filling pages after `skip' calls uses every frame that the next calls   *)
(* return.                                                                 *)
LEMMA AllTaken ==
  ASSUME NEW free, NEW pages \in SUBSET Page, NEW skip \in Nat
  PROVE  \A k \in skip..skip + Cardinality(pages) - 1 :
           \E i \in pages : FrameFor(free, skip, pages, i) = first_free_frame_idx(free, k)
<1> DEFINE n == Cardinality(pages)
           N == 0..n-1
           r == [i \in pages |-> Cardinality({j \in pages : j < i})]
<1>1. /\ n \in Nat
      /\ \A i \in pages : r[i] \in N
      /\ \A i, k \in pages : i < k => r[i] < r[k]
  BY PageRank
<1>2. r \in [pages -> N]
  BY <1>1
<1>3. \A i \in pages : FrameFor(free, skip, pages, i) = first_free_frame_idx(free, skip + r[i])
  BY DEF FrameFor
<1> HIDE DEF r
<1>4. \A i, k \in pages : r[i] = r[k] => i = k
  <2> SUFFICES ASSUME NEW i \in pages, NEW k \in pages, r[i] = r[k], i # k
               PROVE  FALSE
    OBVIOUS
  <2>1. i < k \/ k < i
    BY Sizes
  <2>2. r[i] \in Nat /\ r[k] \in Nat
    BY <1>1
  <2> QED BY <1>1, <2>1, <2>2
<1>5. IsFiniteSet(N) /\ Cardinality(N) = n
  BY <1>1, FS_Interval
<1>6. r \in Injection(pages, N)
  BY <1>2, <1>4 DEF Injection, IsInjective
<1>7. r \in Surjection(pages, N)
  <2> HIDE DEF N
  <2>1. Cardinality(pages) = Cardinality(N)
    BY <1>5
  <2> QED BY <1>5, <1>6, <2>1, FS_Injection
<1>8. \A k \in N : \E i \in pages : r[i] = k
  BY <1>7 DEF Surjection
<1>9. ASSUME NEW k \in skip..skip + n - 1
      PROVE  \E i \in pages : FrameFor(free, skip, pages, i) = first_free_frame_idx(free, k)
  <2>1. k - skip \in N /\ skip + (k - skip) = k
    BY <1>1
  <2>2. PICK i \in pages : r[i] = k - skip
    BY <1>8, <2>1
  <2> QED BY <1>3, <2>1, <2>2
<1> QED BY <1>9 DEF n

(* So every frame of a set of calls gets a page. *)
LEMMA AllFilled ==
  ASSUME NEW free, NEW pages \in SUBSET Page
  PROVE  \A f \in Taken(free, Cardinality(pages)) : \E i \in pages : f = FrameFor(free, 0, pages, i)
<1>1. Cardinality(pages) \in Nat
  BY PageRank
<1>2. \A k \in 0..Cardinality(pages)-1 :
        \E i \in pages : FrameFor(free, 0, pages, i) = first_free_frame_idx(free, k)
  <2>1. 0 + Cardinality(pages) - 1 = Cardinality(pages) - 1 /\ 0 \in Nat
    BY <1>1
  <2> QED BY <2>1, AllTaken
<1> QED BY <1>2 DEF Taken

(* A frame is in use by the kernel's heap, by a user page or by a stack. *)
InUse(f) == HeapFrame(f) \/ UserFrame(f) \/ StackFrame(f)

LEMMA OwnedMeans == TypeOK /\ KernelLayout => \A f : f \in Owned <=> InUse(f)
<1> SUFFICES ASSUME TypeOK, KernelLayout
             PROVE  \A f : f \in Owned <=> InUse(f)
  OBVIOUS
<1>1. curr_pcb \in alive
  BY TypeFacts
<1> QED BY <1>1, OwnedFrames DEF Owned, InUse, StackFrame

(* What the steps are taken from: the frames in use are each for one page  *)
(* of the heap, one user page or one stack, and marked used.               *)
Settled ==
  TypeOK /\ TypeOK' /\ KernelLayout /\ KernelLayout' /\ UserLayout /\ ~window_hit /\ OwnersInv

LEMMA SettledMeans ==
  ASSUME Settled
  PROVE  /\ \A f : InUse(f) => f \in used
         /\ \A f : HeapFrame(f) => ~UserFrame(f) /\ ~StackFrame(f)
         /\ \A f : UserFrame(f) => ~StackFrame(f)
         /\ \A i, j \in Page : i < KERNEL_BRK /\ j < KERNEL_BRK
                                 /\ kernel_page_table[i].pfn = kernel_page_table[j].pfn => i = j
         /\ \A i \in Page : i < KERNEL_BRK => kernel_page_table[i].valid
                                              /\ HeapFrame(kernel_page_table[i].pfn)
         /\ \A p, q \in alive, i, j \in Page :
              user_page_table[p][i].valid /\ user_page_table[q][j].valid
                /\ user_page_table[p][i].pfn = user_page_table[q][j].pfn => p = q /\ i = j
         /\ \A p \in alive, i \in Page :
              user_page_table[p][i].valid => UserFrame(user_page_table[p][i].pfn)
         /\ \A p \in alive : StackFrame(Stacks[p][1]) /\ StackFrame(Stacks[p][2])
<1>1. /\ HeapOwned(kernel_page_table, KERNEL_BRK, used) /\ UserOwned(user_page_table, alive, used)
      /\ StackOwned(Stacks, alive, used)
      /\ HeapUserApart(kernel_page_table, KERNEL_BRK, user_page_table, alive)
      /\ HeapStackApart(kernel_page_table, KERNEL_BRK, Stacks, alive)
      /\ UserStackApart(user_page_table, Stacks, alive)
  BY DEF Settled, OwnersInv, Owners
<1>2. \A f : InUse(f) => f \in used
  <2>1. \A f : HeapFrame(f) => f \in used
    BY <1>1 DEF HeapFrame, HeapOwned
  <2>2. \A f : UserFrame(f) => f \in used
    BY <1>1 DEF UserFrame, UserOwned
  <2>3. \A f : StackFrame(f) => f \in used
    BY <1>1 DEF StackFrame, StackOwned
  <2> QED BY <2>1, <2>2, <2>3 DEF InUse
<1>3. \A f : HeapFrame(f) => ~UserFrame(f) /\ ~StackFrame(f)
  BY <1>1 DEF HeapFrame, UserFrame, StackFrame, HeapUserApart, HeapStackApart
<1>4. \A f : UserFrame(f) => ~StackFrame(f)
  BY <1>1 DEF UserFrame, StackFrame, UserStackApart
<1>5. \A i \in Page : i < KERNEL_BRK => kernel_page_table[i].valid
                                        /\ HeapFrame(kernel_page_table[i].pfn)
  BY KernelLayoutByPage DEF Settled, MappedByKernel, HeapFrame
<1> QED BY <1>1, <1>2, <1>3, <1>4, <1>5 DEF HeapOwned, UserOwned, UserFrame, StackFrame

(* A step frees F, takes N of which M get a use, and leaves D without one. *)
Balance(F, N, M, D) ==
  /\ used' = (used \ F) \cup N /\ N \cap (used \ F) = {} /\ M \subseteq N
  /\ \A f \in F : InUse(f)
  /\ \A f \in D : InUse(f) /\ f \notin F
  /\ \A f : InUse(f)' <=> (InUse(f) /\ f \notin F /\ f \notin D) \/ f \in M

(* Then it loses D, and what it took for no use. *)
LEMMA Accounts ==
  ASSUME Settled, NEW F, NEW N, NEW M, NEW D, Balance(F, N, M, D)
  PROVE  Lost' = Lost \cup D \cup (N \ M)
<1>1. \A f : f \in Owned <=> InUse(f)
  BY OwnedMeans DEF Settled
<1>2. \A f : f \in Owned' <=> InUse(f)'
  <2>1. (TypeOK /\ KernelLayout => \A f : f \in Owned <=> InUse(f))'
    BY OwnedMeans, PTL
  <2> QED BY <2>1 DEF Settled
<1>3. \A f : f \in Owned => f \in used
  BY <1>1, SettledMeans
<1>4. \A f : f \in Owned' <=> (f \in Owned /\ f \notin F /\ f \notin D) \/ f \in M
  BY <1>1, <1>2 DEF Balance
<1>5. (\A f \in F : f \in Owned) /\ (\A f \in D : f \in Owned /\ f \notin F)
  BY <1>1 DEF Balance
<1>6. \A f : f \in used' \ Owned' <=> f \in used \ Owned \/ f \in D \/ (f \in N /\ f \notin M)
  BY <1>3, <1>4, <1>5 DEF Balance
<1> QED BY <1>6 DEF Lost

(* Steps that fork nothing, end nothing and move no break lose nothing by  *)
(* that.                                                                   *)
LEMMA NoneLost ==
  /\ next_pid' = next_pid => ForkLoses = {}
  /\ alive \subseteq alive' => ExitLoses = {}
  /\ TypeOK /\ brk'[curr_pcb] = brk[curr_pcb] => BrkLoses = {}
<1>1. ASSUME TypeOK, brk'[curr_pcb] = brk[curr_pcb]
      PROVE  RaisedOver = {}
  <2>1. brk[curr_pcb] \in Int /\ \A i \in Page : i + PTLen \in Int
    <3>1. curr_pcb \in Pid /\ PTLen \in Int
      BY <1>1, TypeFacts, Sizes
    <3> QED BY <1>1, <3>1 DEF TypeOK, Address, VMEM_1_BASE, VMEM_1_LIMIT, Page
  <2> QED BY <1>1, <2>1 DEF RaisedOver, ValidPages
<1> QED BY <1>1 DEF ForkLoses, ExitLoses, BrkLoses

Accounted == Lost' = Lost \cup ForkLoses \cup ExitLoses \cup BrkLoses

(* A step that moves no stack, and after which the same processes live,    *)
(* leaves the frames of the stacks in use.                                 *)
LEMMA StacksInUse ==
  ASSUME TypeOK, [Next]_vars, alive' = alive, NEW f
  PROVE  StackFrame(f)' <=> StackFrame(f)
<1>1. \A p \in alive : Stacks'[p] = Stacks[p]
  BY StackStep, StacksFollow, OwnerTypes
<1> QED BY <1>1 DEF StackFrame

(* A step that changes no page and no process loses nothing. *)
LEMMA SameInUse ==
  ASSUME Settled, [Next]_vars,
         UNCHANGED <<KERNEL_BRK, user_page_table, alive, next_pid, used, brk>>,
         \A i \in Page : i < KERNEL_BRK => kernel_page_table'[i] = kernel_page_table[i]
  PROVE  Accounted
<1>1. ASSUME NEW f
      PROVE  (HeapFrame(f)' <=> HeapFrame(f)) /\ (UserFrame(f)' <=> UserFrame(f))
  BY DEF HeapFrame, UserFrame
<1>2. \A f : InUse(f)' <=> InUse(f)
  BY <1>1, StacksInUse DEF InUse, Settled
<1> DEFINE none == {}
<1>3. Balance(none, none, none, none)
  BY <1>2 DEF Balance
<1> HIDE DEF none
<1>4. Lost' = Lost \cup none \cup (none \ none)
  BY <1>3, Accounts
<1>5. ForkLoses = {} /\ ExitLoses = {} /\ BrkLoses = {}
  BY NoneLost DEF Settled
<1> QED BY <1>4, <1>5 DEF Accounted, none

(* Raising the kernel heap loses no frame, and lowering it frees those it  *)
(* gives up.                                                               *)
LEMMA HeapAccount ==
  ASSUME Settled, [Next]_vars, NEW top \in KernelPages..HeapMax, SetKernelBrk(top)
  PROVE  Accounted
<1> DEFINE new   == {i \in Page : KERNEL_BRK <= i /\ i < top}
           old   == {i \in Page : top <= i /\ i < KERNEL_BRK}
           n     == Cardinality(new)
           freed == {kernel_page_table[i].pfn : i \in old}
           none  == {}
<1>0. /\ top \in Nat /\ KERNEL_BRK \in Nat /\ (\A i \in Page : i \in Nat)
      /\ Free \cap used = {} /\ TypeOK
  BY OwnerTypes, Sizes DEF Settled
<1>1. ASSUME UNCHANGED <<process, user>>
      PROVE  /\ \A f : (UserFrame(f)' <=> UserFrame(f)) /\ (StackFrame(f)' <=> StackFrame(f))
             /\ ForkLoses = {} /\ ExitLoses = {} /\ BrkLoses = {}
  <2>1. UNCHANGED <<alive, user_page_table, next_pid, brk>>
    BY <1>1 DEF process, user
  <2> QED BY <1>0, <2>1, StacksInUse, NoneLost DEF UserFrame
<1>2. CASE /\ new # {} /\ HasFrames(Free, n)
           /\ kernel_page_table' = [i \in Page |->
                IF i \in new THEN KernelPage(FrameFor(Free, 0, new, i)) ELSE kernel_page_table[i]]
           /\ used' = used \cup Taken(Free, n)
           /\ KERNEL_BRK' = top /\ UNCHANGED <<kernel_stack, process, user, fault, window_hit>>
  <2>1. KERNEL_BRK < top /\ \A i \in Page : i < top <=> i < KERNEL_BRK \/ i \in new
    BY <1>0, <1>2
  <2>2. new \in SUBSET Page /\ \A i \in new : ~(i < KERNEL_BRK)
    BY <1>0
  <2> HIDE DEF new
  <2>3. n \in Nat /\ 0 + n <= n
    <3>1. n \in Nat
      BY <2>2, PageRank
    <3> QED BY <3>1
  <2>4. /\ \A f \in Taken(Free, n) : \E i \in new : f = FrameFor(Free, 0, new, i)
        /\ \A i \in new : FrameFor(Free, 0, new, i) \in Taken(Free, n)
        /\ Taken(Free, n) \subseteq Free
    <3> HIDE DEF Free
    <3> QED BY <1>2, <2>2, <2>3, AllFilled, TakenFree, FramesForPages
  <2>5. /\ \A i \in new : /\ kernel_page_table'[i].pfn = FrameFor(Free, 0, new, i)
                          /\ kernel_page_table'[i].valid
        /\ \A i \in Page \ new : kernel_page_table'[i] = kernel_page_table[i]
    BY <1>2, <2>2 DEF KernelPage
  <2>6. ASSUME NEW f
        PROVE  HeapFrame(f)' <=> HeapFrame(f) \/ f \in Taken(Free, n)
    <3>1. HeapFrame(f)' <=> \E i \in Page : /\ i < top /\ kernel_page_table'[i].valid
                                            /\ f = kernel_page_table'[i].pfn
      BY <1>2 DEF HeapFrame
    <3> QED BY <2>1, <2>2, <2>4, <2>5, <3>1 DEF HeapFrame
  <2>7. \A f : InUse(f)' <=> InUse(f) \/ f \in Taken(Free, n)
    BY <1>1, <1>2, <2>6 DEF InUse
  <2>8. Balance(none, Taken(Free, n), Taken(Free, n), none)
    BY <1>0, <1>2, <2>4, <2>7 DEF Balance
  <2> HIDE DEF none, n
  <2>9. Lost' = Lost \cup none \cup (Taken(Free, n) \ Taken(Free, n))
    BY <2>8, Accounts
  <2> QED BY <1>1, <1>2, <2>9 DEF Accounted, none
<1>3. CASE OutOfFrames
  BY <1>3, SameInUse DEF OutOfFrames, kernel, process, user
<1>4. CASE /\ old # {}
           /\ used' = used \ freed
           /\ kernel_page_table' = LowerUnmaps(top)
           /\ KERNEL_BRK' = top /\ UNCHANGED <<kernel_stack, process, user, fault, window_hit>>
  <2>1. \A i \in Page : i < top <=> i < KERNEL_BRK /\ i \notin old
    BY <1>0, <1>4
  <2>2. \A i \in Page : i \notin old => kernel_page_table'[i] = kernel_page_table[i]
    BY <1>4 DEF LowerUnmaps
  <2>3. old \in SUBSET Page /\ \A i \in old : i < KERNEL_BRK
    OBVIOUS
  <2> HIDE DEF old
  <2>4. \A f : f \in freed <=> \E i \in old : f = kernel_page_table[i].pfn
    OBVIOUS
  <2> HIDE DEF freed
  <2>5. \A f \in freed : HeapFrame(f) /\ ~UserFrame(f) /\ ~StackFrame(f)
    BY <2>3, <2>4, SettledMeans
  <2>6. ASSUME NEW f
        PROVE  HeapFrame(f)' <=> HeapFrame(f) /\ f \notin freed
    <3>1. HeapFrame(f)' <=> \E i \in Page : /\ i < top /\ kernel_page_table'[i].valid
                                            /\ f = kernel_page_table'[i].pfn
      BY <1>4 DEF HeapFrame
    <3>2. \A i, j \in Page : i < KERNEL_BRK /\ j < KERNEL_BRK
                               /\ kernel_page_table[i].pfn = kernel_page_table[j].pfn => i = j
      BY SettledMeans
    <3> QED BY <2>1, <2>2, <2>3, <2>4, <3>1, <3>2 DEF HeapFrame
  <2>7. \A f : InUse(f)' <=> InUse(f) /\ f \notin freed
    BY <1>1, <1>4, <2>5, <2>6 DEF InUse
  <2>8. Balance(freed, none, none, none)
    BY <1>4, <2>5, <2>7 DEF InUse, Balance
  <2> HIDE DEF none
  <2>9. Lost' = Lost \cup none \cup (none \ none)
    BY <2>8, Accounts
  <2> QED BY <1>1, <1>4, <2>9 DEF Accounted, none
<1> QED BY <1>2, <1>3, <1>4 DEF SetKernelBrk

(* Fork takes two frames for a kernel stack that nobody gets; all others   *)
(* that it takes are for a page or the stack of the child.                 *)
LEMMA ForkAccount ==
  ASSUME Settled, [Next]_vars, KernelFork
  PROVE  Accounted
<1> DEFINE pages == ValidPages(user_page_table[curr_pcb])
           n     == Cardinality(pages)
           table == CopiedTable(pages)
           stack == ClonedStack(n)
           taken == Taken(Free, n + 4)
           first == Taken(Free, 2)
           hit   == {kernel_page_table[i].pfn : i \in KernelUses \cap {WindowPages[1], WindowPages[2]}}
           none  == {}
<1>1. CASE OutOfFrames
  BY <1>1, SameInUse DEF OutOfFrames, kernel, process, user
<1>2. CASE ~OutOfFrames
  <2>1. /\ HasFrames(Free, n + 4)
        /\ used' = used \cup taken
        /\ user_page_table' = [user_page_table EXCEPT ![next_pid] = table]
        /\ brk' = [brk EXCEPT ![next_pid] = VMEM_1_BASE]
        /\ kernel_stack' = [kernel_stack EXCEPT ![next_pid] = stack]
        /\ kernel_page_table' = [kernel_page_table EXCEPT ![WindowPages[1]] = NoKernelPage,
                                                          ![WindowPages[2]] = NoKernelPage]
        /\ alive' = alive \cup {next_pid} /\ next_pid <= MaxPid /\ next_pid' = next_pid + 1
        /\ KERNEL_BRK' = KERNEL_BRK /\ curr_pcb' = curr_pcb
    BY <1>2 DEF KernelFork
  <2>2. /\ TypeOK /\ next_pid \in Pid /\ next_pid \in Nat /\ next_pid \notin alive
        /\ alive \in SUBSET Pid /\ curr_pcb \in alive
        /\ user_page_table \in [Pid -> [Page -> Entry]] /\ KERNEL_BRK \in Nat
        /\ kernel_page_table \in [Page -> KernelEntry]
        /\ Free \cap used = {} /\ pages \in SUBSET Page
    <3>1. next_pid \in Pid
      <4>1. next_pid \in Nat
        BY TypeFacts DEF Settled
      <4> QED BY <2>1, <4>1, Sizes DEF Pid
    <3> QED BY <3>1, OwnerTypes, TypeFacts DEF Settled
  <2>3. n \in Nat
    BY <2>2, PageRank
  <2>4. /\ taken \subseteq Free
        /\ \A i \in Page : table[i].valid <=> i \in pages
        /\ \A i \in pages : table[i].pfn \in taken
        /\ stack[1] \in taken /\ stack[2] \in taken
    BY <2>1, <2>2, ForkFrames
  <2>5. /\ \A i \in pages : table[i].pfn = FrameFor(Free, 2, pages, i)
        /\ stack[1] = first_free_frame_idx(Free, n + 2) /\ stack[2] = first_free_frame_idx(Free, n + 3)
    BY <2>2 DEF CopiedTable, Mapped, ClonedStack
  <2>6. /\ \A j, k \in 0..(n + 4)-1 :
             first_free_frame_idx(Free, j) = first_free_frame_idx(Free, k) => j = k
        /\ \A i \in pages, k \in 0..(n + 4)-1 :
             k < 2 \/ k >= 2 + n => FrameFor(Free, 2, pages, i) # first_free_frame_idx(Free, k)
        /\ \A k \in 2..2 + n - 1 :
             \E i \in pages : FrameFor(Free, 2, pages, i) = first_free_frame_idx(Free, k)
    <3>1. n + 4 \in Nat /\ 2 + Cardinality(pages) <= n + 4 /\ 2 \in Nat
      BY <2>3
    <3> HIDE DEF Free, pages
    <3>2. \A j, k \in 0..(n + 4)-1 :
            first_free_frame_idx(Free, j) = first_free_frame_idx(Free, k) => j = k
      BY <2>1, TakenFree
    <3>3. \A i \in pages, k \in 0..(n + 4)-1 :
            k < 2 \/ k >= 2 + n => FrameFor(Free, 2, pages, i) # first_free_frame_idx(Free, k)
      BY <2>1, <2>2, <3>1, FramesForPages
    <3>4. \A k \in 2..2 + n - 1 :
            \E i \in pages : FrameFor(Free, 2, pages, i) = first_free_frame_idx(Free, k)
      BY <2>2, <3>1, AllTaken
    <3> QED BY <3>2, <3>3, <3>4
  <2> HIDE DEF pages, n, table, stack
  <2>7. \A f : f \in taken /\ f \notin first <=>
               f = stack[1] \/ f = stack[2] \/ \E i \in pages : f = table[i].pfn
    <3>1. \A f : f \in taken <=> \E k \in 0..(n + 4)-1 : f = first_free_frame_idx(Free, k)
      BY DEF Taken
    <3>2. \A f : f \in first <=> \E k \in 0..2-1 : f = first_free_frame_idx(Free, k)
      BY DEF Taken
    <3>3. /\ \A k \in 0..2-1 : k \in 0..(n + 4)-1 /\ k < 2 /\ k # n + 2 /\ k # n + 3
          /\ \A k \in 0..(n + 4)-1 : k \in 0..2-1 \/ k \in 2..2 + n - 1 \/ k = n + 2 \/ k = n + 3
          /\ n + 2 \in 0..(n + 4)-1 /\ n + 3 \in 0..(n + 4)-1
      BY <2>3
    <3> HIDE DEF taken, first
    <3>4. ASSUME NEW f \in taken, f \notin first
          PROVE  f = stack[1] \/ f = stack[2] \/ \E i \in pages : f = table[i].pfn
      <4>1. PICK k \in 0..(n + 4)-1 : f = first_free_frame_idx(Free, k)
        BY <3>1
      <4>2. k \notin 0..2-1
        BY <3>2, <3>4, <4>1
      <4> QED BY <2>5, <2>6, <3>3, <4>1, <4>2
    <3>5. stack[1] \notin first /\ stack[2] \notin first
      BY <2>5, <2>6, <3>2, <3>3
    <3>6. \A i \in pages : table[i].pfn \notin first
      BY <2>5, <2>6, <3>2, <3>3
    <3> QED BY <2>4, <3>4, <3>5, <3>6
  <2>8. first \subseteq taken
    BY <2>3 DEF Taken
  <2> HIDE DEF taken, first
  <2>9. \A f : HeapFrame(f)' <=> HeapFrame(f) /\ f \notin hit
    <3>1. /\ WindowPages[1] \in Page /\ WindowPages[2] \in Page
          /\ \A i \in KernelUses \cap {WindowPages[1], WindowPages[2]} :
               i \in Page /\ i < KERNEL_BRK /\ kernel_page_table[i].valid
      BY KernelLayoutByPage, Sizes DEF KernelUses, MappedByKernel, Settled
    <3>2. \A f : f \in hit <=> \E i \in Page : /\ i < KERNEL_BRK /\ kernel_page_table[i].valid
                                              /\ i \in {WindowPages[1], WindowPages[2]}
                                              /\ f = kernel_page_table[i].pfn
      BY <3>1 DEF KernelUses
    <3>3. \A i \in Page : /\ i \in {WindowPages[1], WindowPages[2]} => ~kernel_page_table'[i].valid
                          /\ i \notin {WindowPages[1], WindowPages[2]}
                               => kernel_page_table'[i] = kernel_page_table[i]
      BY <2>1, <2>2, <3>1 DEF NoKernelPage
    <3>4. \A i, j \in Page : i < KERNEL_BRK /\ j < KERNEL_BRK
                               /\ kernel_page_table[i].pfn = kernel_page_table[j].pfn => i = j
      BY SettledMeans
    <3> HIDE DEF hit
    <3>5. ASSUME NEW f
          PROVE  HeapFrame(f)' <=> \E i \in Page : /\ i < KERNEL_BRK /\ kernel_page_table'[i].valid
                                                  /\ f = kernel_page_table'[i].pfn
      BY <2>1 DEF HeapFrame
    <3> QED BY <3>2, <3>3, <3>4, <3>5 DEF HeapFrame
  <2>10. \A f \in hit : HeapFrame(f) /\ ~UserFrame(f) /\ ~StackFrame(f)
    <3>1. \A i \in KernelUses \cap {WindowPages[1], WindowPages[2]} : i \in Page /\ i < KERNEL_BRK
      BY KernelLayoutByPage, Sizes DEF KernelUses, MappedByKernel, Settled
    <3> QED BY <3>1, SettledMeans
  <2> HIDE DEF hit
  <2>11. /\ \A p \in alive : user_page_table'[p] = user_page_table[p]
         /\ user_page_table'[next_pid] = table
    BY <2>1, <2>2
  <2>12. /\ \A p \in alive : Stacks'[p] = Stacks[p]
         /\ Stacks'[next_pid] = stack
    <3>1. \A p \in alive : Stacks'[p] = Stacks[p]
      BY <2>2, ForkStacks, StacksFollow
    <3>2. kernel_stack'[next_pid] = stack /\ next_pid # curr_pcb'
      <4>1. kernel_stack \in [Pid -> Frame \X Frame]
        BY <2>2 DEF TypeOK
      <4> QED BY <2>1, <2>2, <4>1
    <3>3. ASSUME NEW c, c = next_pid
          PROVE  Stacks'[c] = stack
      <4>1. Stacks'[c] = StackOf(c)'
        BY <2>2, <3>3 DEF Stacks
      <4>2. kernel_stack'[c] = stack /\ c # curr_pcb'
        BY <3>2, <3>3
      <4> QED BY <4>1, <4>2 DEF StackOf
    <3> QED BY <3>1, <3>3
  <2>13. ASSUME NEW f
         PROVE  UserFrame(f)' <=> UserFrame(f) \/ \E i \in pages : f = table[i].pfn
    <3>1. UserFrame(f)' <=> \E p \in alive \cup {next_pid}, i \in Page :
                              user_page_table'[p][i].valid /\ f = user_page_table'[p][i].pfn
      BY <2>1 DEF UserFrame
    <3> QED BY <2>2, <2>4, <2>11, <3>1 DEF UserFrame
  <2>14. ASSUME NEW f
         PROVE  StackFrame(f)' <=> StackFrame(f) \/ f = stack[1] \/ f = stack[2]
    <3>1. StackFrame(f)' <=> \E p \in alive \cup {next_pid} : f = Stacks'[p][1] \/ f = Stacks'[p][2]
      BY <2>1 DEF StackFrame
    <3> QED BY <2>12, <3>1 DEF StackFrame
  <2>15. \A f : InUse(f)' <=> (InUse(f) /\ f \notin hit) \/ (f \in taken /\ f \notin first)
    BY <2>7, <2>9, <2>10, <2>13, <2>14 DEF InUse
  <2>16. Balance(none, taken, taken \ first, hit)
    BY <2>1, <2>2, <2>4, <2>10, <2>15 DEF InUse, Balance
  <2> HIDE DEF none
  <2>17. Lost' = Lost \cup hit \cup (taken \ (taken \ first))
    BY <2>16, Accounts
  <2>18. ForkLoses = first \cup hit
    BY <2>1, <2>2 DEF ForkLoses, first, hit
  <2>19. ExitLoses = {} /\ BrkLoses = {}
    <3>1. alive \subseteq alive'
      BY <2>1
    <3>2. brk'[curr_pcb] = brk[curr_pcb]
      BY <2>1, <2>2 DEF TypeOK
    <3> QED BY <2>2, <3>1, <3>2, NoneLost
  <2> QED BY <2>8, <2>17, <2>18, <2>19 DEF Accounted
<1> QED BY <1>1, <1>2

(* Exit loses the pages and the kernel stack of the process. *)
LEMMA ExitAccount ==
  ASSUME Settled, [Next]_vars, NEW q, KernelExit(q)
  PROVE  Accounted
<1> DEFINE pages == FramesOf(user_page_table[curr_pcb])
           stack == {StackOf(curr_pcb)[1], StackOf(curr_pcb)[2]}
           gone  == pages \cup stack
           none  == {}
<1>1. /\ alive' = alive \ {curr_pcb} /\ UNCHANGED <<used, KERNEL_BRK, next_pid, brk>>
      /\ user_page_table' = [user_page_table EXCEPT ![curr_pcb] = EmptyTable]
      /\ q \in alive \ {curr_pcb} /\ KCSwitch(q)
  BY DEF KernelExit
<1>2. /\ TypeOK /\ curr_pcb \in alive /\ alive \in SUBSET Pid
      /\ user_page_table \in [Pid -> [Page -> Entry]]
  BY OwnerTypes DEF Settled
<1>3. ASSUME NEW f
      PROVE  HeapFrame(f)' <=> HeapFrame(f)
  <2>1. \A i \in Page : i < KERNEL_BRK => i # StackPages[1] /\ i # StackPages[2]
    BY <1>2, Sizes DEF TypeOK
  <2>2. \A i \in Page : i < KERNEL_BRK => kernel_page_table'[i] = kernel_page_table[i]
    BY <1>1, <1>2, <2>1, SwitchStacks
  <2> QED BY <1>1, <2>2 DEF HeapFrame
<1>4. \A p \in alive : p # curr_pcb => /\ user_page_table'[p] = user_page_table[p]
                                       /\ Stacks'[p] = Stacks[p]
  <2>1. \A p \in alive \ {curr_pcb} : user_page_table'[p] = user_page_table[p]
    BY <1>1, <1>2
  <2>2. \A p \in alive \ {curr_pcb} : Stacks'[p] = Stacks[p]
    <3>1. alive \ {curr_pcb} \in SUBSET Pid
      BY <1>2
    <3> QED BY <1>1, <1>2, <3>1, SwitchStacks, StacksFollow
  <2> QED BY <2>1, <2>2
<1>5. /\ \A f : f \in pages <=> \E i \in Page : /\ user_page_table[curr_pcb][i].valid
                                               /\ f = user_page_table[curr_pcb][i].pfn
      /\ \A f : f \in stack <=> f = Stacks[curr_pcb][1] \/ f = Stacks[curr_pcb][2]
  BY <1>2 DEF FramesOf, ValidPages, Stacks
<1> HIDE DEF pages, stack
<1>6. ASSUME NEW f
      PROVE  UserFrame(f)' <=> UserFrame(f) /\ f \notin pages
  <2>1. UserFrame(f)' <=> \E p \in alive, i \in Page :
          p # curr_pcb /\ user_page_table'[p][i].valid /\ f = user_page_table'[p][i].pfn
    BY <1>1 DEF UserFrame
  <2>2. \A p, r \in alive, i, j \in Page :
          user_page_table[p][i].valid /\ user_page_table[r][j].valid
            /\ user_page_table[p][i].pfn = user_page_table[r][j].pfn => p = r /\ i = j
    BY SettledMeans
  <2> QED BY <1>2, <1>4, <1>5, <2>1, <2>2 DEF UserFrame
<1>7. ASSUME NEW f
      PROVE  StackFrame(f)' <=> StackFrame(f) /\ f \notin stack
  <2>1. StackFrame(f)' <=> \E p \in alive : p # curr_pcb /\ (f = Stacks'[p][1] \/ f = Stacks'[p][2])
    BY <1>1 DEF StackFrame
  <2>2. \A p \in alive : p # curr_pcb =>
          /\ Stacks[p][1] \notin stack /\ Stacks[p][2] \notin stack
    BY <1>2, <1>5 DEF Settled, OwnersInv, Owners, StackOwned
  <2> QED BY <1>2, <1>4, <1>5, <2>1, <2>2 DEF StackFrame
<1>8. /\ \A f \in pages : UserFrame(f) /\ ~HeapFrame(f) /\ ~StackFrame(f)
      /\ \A f \in stack : StackFrame(f) /\ ~HeapFrame(f) /\ ~UserFrame(f)
  <2>1. \A f \in pages : UserFrame(f)
    BY <1>2, <1>5 DEF UserFrame
  <2>2. \A f \in stack : StackFrame(f)
    BY <1>2, <1>5 DEF StackFrame
  <2> QED BY <2>1, <2>2, SettledMeans
<1>9. \A f : InUse(f)' <=> InUse(f) /\ f \notin pages \cup stack
  BY <1>3, <1>6, <1>7, <1>8 DEF InUse
<1>10. Balance(none, none, none, gone)
  BY <1>1, <1>8, <1>9 DEF InUse, Balance
<1> HIDE DEF none, gone
<1>11. Lost' = Lost \cup gone \cup (none \ none)
  BY <1>10, Accounts
<1>12. ExitLoses = gone
  <2>1. ~(alive \subseteq alive')
    BY <1>1, <1>2
  <2> QED BY <2>1 DEF ExitLoses, gone, pages, stack
<1>13. ForkLoses = {} /\ BrkLoses = {}
  BY <1>1, <1>2, NoneLost
<1> QED BY <1>11, <1>12, <1>13 DEF Accounted, none

(* LoadProgram loses no frame, not even when it fails. *)
LEMMA LoadAccount ==
  ASSUME Settled, [Next]_vars, NEW im \in Programs, NEW read \in BOOLEAN, LoadProgram(im, read)
  PROVE  Accounted
<1> DEFINE old   == user_page_table[curr_pcb]
           free  == Free \cup FramesOf(old)
           pages == LoadedPages(im)
           n     == Cardinality(pages)
           exec  == Executable(im, read)
           table == LoadedTable(im, exec, old, free)
           freed == FramesOf(old)
           taken == Taken(free, n)
           none  == {}
<1>1. CASE OutOfFrames
  BY <1>1, SameInUse DEF OutOfFrames, kernel, process, user
<1>2. CASE ~OutOfFrames
  <2>0. TypeOK
    BY DEF Settled
  <2>1. /\ Fits(im) /\ HasFrames(free, n) /\ old \in [Page -> Entry] /\ free \in SUBSET Frame
        /\ used' = (used \ freed) \cup taken
        /\ user_page_table' = [user_page_table EXCEPT ![curr_pcb] = table]
        /\ brk' = [brk EXCEPT ![curr_pcb] = im.data_pg1 + im.data_npg + PTLen]
        /\ region_1_sp' = [region_1_sp EXCEPT ![curr_pcb] = (VMEM_1_LIMIT - 1) - im.stack_npg]
        /\ UNCHANGED <<kernel, process, fault, window_hit>>
    BY <1>2, <2>0, LoadFrames
  <2>2. pages \in SUBSET Page /\ n \in Nat
    <3>1. pages \in SUBSET Page
      BY <2>1, ProgramSizes
    <3> HIDE DEF pages
    <3> QED BY <3>1, PageRank
  <2>3. \A i \in pages : table[i].pfn = FrameFor(free, 0, pages, i)
    <3> HIDE DEF free, old, exec
    <3> QED BY <2>2 DEF LoadedTable, Mapped
  <2>4. \A f : f \in freed <=> \E i \in Page : /\ user_page_table[curr_pcb][i].valid
                                              /\ f = user_page_table[curr_pcb][i].pfn
    BY DEF FramesOf, ValidPages
  <2>5. \A f \in free : f \notin used \/ f \in freed
    BY <2>0, OwnerTypes
  <2> HIDE DEF free, old, exec
  <2>6. /\ taken \subseteq free
        /\ \A i \in Page : table[i].valid <=> i \in pages
        /\ \A i \in pages : table[i].pfn \in taken
    BY <2>1, LoadedEntries
  <2> HIDE DEF pages, table
  <2>7. \A f \in taken : \E i \in pages : f = table[i].pfn
    BY <2>2, <2>3, AllFilled
  <2>8. /\ curr_pcb \in alive /\ user_page_table'[curr_pcb] = table
        /\ \A p \in alive : p # curr_pcb => user_page_table'[p] = user_page_table[p]
        /\ UNCHANGED <<alive, KERNEL_BRK, kernel_page_table, next_pid>>
    BY <2>0, <2>1, OwnerTypes DEF kernel, process
  <2> HIDE DEF n, freed, taken
  <2>9. ASSUME NEW f
        PROVE  UserFrame(f)' <=> (UserFrame(f) /\ f \notin freed) \/ f \in taken
    <3>1. UserFrame(f)' <=> \E p \in alive, i \in Page :
            user_page_table'[p][i].valid /\ f = user_page_table'[p][i].pfn
      BY <2>8 DEF UserFrame
    <3>2. \A p, r \in alive, i, j \in Page :
            user_page_table[p][i].valid /\ user_page_table[r][j].valid
              /\ user_page_table[p][i].pfn = user_page_table[r][j].pfn => p = r /\ i = j
      BY SettledMeans
    <3>3. ASSUME UserFrame(f)'
          PROVE  (UserFrame(f) /\ f \notin freed) \/ f \in taken
      <4>1. PICK p \in alive, i \in Page : user_page_table'[p][i].valid /\ f = user_page_table'[p][i].pfn
        BY <3>1, <3>3
      <4>2. CASE p = curr_pcb
        BY <2>6, <2>8, <4>1, <4>2
      <4>3. CASE p # curr_pcb
        BY <2>4, <2>8, <3>2, <4>1, <4>3 DEF UserFrame
      <4> QED BY <4>2, <4>3
    <3>4. ASSUME UserFrame(f), f \notin freed
          PROVE  UserFrame(f)'
      BY <2>4, <2>8, <3>1, <3>4 DEF UserFrame
    <3>5. ASSUME f \in taken
          PROVE  UserFrame(f)'
      BY <2>2, <2>6, <2>7, <2>8, <3>1, <3>5
    <3> QED BY <3>3, <3>4, <3>5
  <2>10. ASSUME NEW f
         PROVE  (HeapFrame(f)' <=> HeapFrame(f)) /\ (StackFrame(f)' <=> StackFrame(f))
    BY <2>0, <2>8, StacksInUse DEF HeapFrame
  <2>11. \A f \in freed : UserFrame(f) /\ ~HeapFrame(f) /\ ~StackFrame(f)
    <3>1. \A f \in freed : UserFrame(f)
      BY <2>4, <2>8 DEF UserFrame
    <3> QED BY <3>1, SettledMeans
  <2>12. \A f : InUse(f)' <=> (InUse(f) /\ f \notin freed) \/ f \in taken
    BY <2>9, <2>10, <2>11 DEF InUse
  <2>13. Balance(freed, taken, taken, none)
    BY <2>1, <2>5, <2>6, <2>11, <2>12 DEF InUse, Balance
  <2> HIDE DEF none
  <2>14. Lost' = Lost \cup none \cup (taken \ taken)
    BY <2>13, Accounts
  <2>15. BrkLoses = {}
    <3> SUFFICES ASSUME region_1_sp' = region_1_sp
                 PROVE  RaisedOver = {}
      BY DEF BrkLoses
    <3> DEFINE sp == region_1_sp[curr_pcb]
               b  == brk[curr_pcb]
               c  == brk'[curr_pcb]
    <3>1. /\ curr_pcb \in Pid /\ b \in Nat /\ PTLen \in Nat /\ \A i \in Page : i \in Nat
          /\ im.data_pg1 \in Nat /\ im.data_npg \in Nat /\ im.stack_npg \in Nat \ {0}
      <4>1. curr_pcb \in Pid /\ PTLen \in Nat /\ \A i \in Page : i \in Nat
        BY <2>0, TypeFacts, Sizes
      <4>2. b \in Nat
        BY <2>0, <4>1 DEF TypeOK, Address, VMEM_1_BASE, VMEM_1_LIMIT
      <4>3. im.data_pg1 \in Nat /\ im.data_npg \in Nat /\ im.stack_npg \in Nat \ {0}
        BY MemoryAssumption
      <4> QED BY <4>1, <4>2, <4>3
    <3>2. sp = (VMEM_1_LIMIT - 1) - im.stack_npg /\ c = im.data_pg1 + im.data_npg + PTLen
      BY <2>0, <2>1, <3>1 DEF TypeOK
    <3>3. c <= sp /\ sp < VMEM_1_LIMIT /\ sp \in Nat /\ c \in Nat
      BY <2>1, <3>1, <3>2 DEF Fits, VMEM_1_LIMIT
    <3>4. \A i \in Page : user_page_table[curr_pcb][i].valid <=> (i + PTLen < b \/ sp < i + PTLen)
      BY <2>8, <3>3 DEF Settled, UserLayout, MappedByProcess, Loaded
    <3> HIDE DEF sp, b, c
    <3>5. \A i \in Page : user_page_table[curr_pcb][i].valid => ~(b <= i + PTLen /\ i + PTLen < c)
      BY <3>1, <3>3, <3>4
    <3> QED BY <3>5 DEF RaisedOver, ValidPages, b, c
  <2>16. ForkLoses = {} /\ ExitLoses = {}
    BY <2>8, NoneLost
  <2> QED BY <2>14, <2>15, <2>16 DEF Accounted, none
<1> QED BY <1>1, <1>2

(* Brk frees what it unmaps; raising it loses the frames of the pages that *)
(* it maps over.                                                           *)
LEMMA BrkAccount ==
  ASSUME Settled, [Next]_vars, NEW addr \in Nat, KernelBrk(addr)
  PROVE  Accounted
<1> DEFINE old   == {i \in Page : addr <= i + PTLen /\ i + PTLen < brk[curr_pcb]}
           new   == Raised(addr)
           n     == Cardinality(new)
           table == user_page_table[curr_pcb]
           freed == {table[i].pfn : i \in old}
           over  == {table[i].pfn : i \in RaisedOver}
           taken == Taken(Free, n)
           none  == {}
<1>0. /\ TypeOK /\ curr_pcb \in alive /\ curr_pcb \in Pid /\ alive \in SUBSET Pid
      /\ user_page_table \in [Pid -> [Page -> Entry]]
      /\ brk \in [Pid -> Address] /\ Free \cap used = {}
      /\ \A p, r \in alive, i, j \in Page :
           user_page_table[p][i].valid /\ user_page_table[r][j].valid
             /\ user_page_table[p][i].pfn = user_page_table[r][j].pfn => p = r /\ i = j
  BY OwnerTypes, SettledMeans DEF Settled, TypeOK
<1>1. CASE OutOfFrames
  BY <1>1, SameInUse DEF OutOfFrames, kernel, process, user
<1>2. ASSUME UNCHANGED <<kernel, process>>
      PROVE  /\ \A f : (HeapFrame(f)' <=> HeapFrame(f)) /\ (StackFrame(f)' <=> StackFrame(f))
             /\ ForkLoses = {} /\ ExitLoses = {} /\ alive' = alive
  <2>1. UNCHANGED <<alive, KERNEL_BRK, kernel_page_table, next_pid>>
    BY <1>2 DEF kernel, process
  <2> QED BY <1>0, <2>1, StacksInUse, NoneLost DEF HeapFrame
<1>3. ASSUME NEW f
      PROVE  UserFrame(f)' <=> \E p \in alive', i \in Page :
                                 user_page_table'[p][i].valid /\ f = user_page_table'[p][i].pfn
  BY DEF UserFrame
<1>4. CASE /\ addr < brk[curr_pcb] /\ used' = used \ freed
           /\ user_page_table' = [user_page_table EXCEPT ![curr_pcb] = Lowered(table, old)]
           /\ brk' = [brk EXCEPT ![curr_pcb] = addr]
           /\ UNCHANGED <<kernel, process>>
  <2>1. old \in SUBSET Page /\ \A i \in old : user_page_table[curr_pcb][i].valid
    BY <1>0 DEF BelowBreakMapped, Settled, UserLayout
  <2>2. \A f : f \in freed <=> \E i \in old : f = user_page_table[curr_pcb][i].pfn
    OBVIOUS
  <2> HIDE DEF old
  <2>3. /\ \A i \in old : ~user_page_table'[curr_pcb][i].valid
        /\ \A i \in Page \ old : user_page_table'[curr_pcb][i] = user_page_table[curr_pcb][i]
        /\ \A p \in alive : p # curr_pcb => user_page_table'[p] = user_page_table[p]
    BY <1>0, <1>4, <2>1 DEF Lowered, Unmapped
  <2> HIDE DEF freed
  <2>4. ASSUME NEW f
        PROVE  UserFrame(f)' <=> UserFrame(f) /\ f \notin freed
    <3>1. ASSUME NEW p \in alive, NEW i \in Page, user_page_table'[p][i].valid
          PROVE  /\ user_page_table[p][i].valid
                 /\ user_page_table'[p][i].pfn = user_page_table[p][i].pfn
                 /\ user_page_table[p][i].pfn \notin freed
      BY <1>0, <2>1, <2>2, <2>3, <3>1
    <3>2. ASSUME NEW p \in alive, NEW i \in Page, user_page_table[p][i].valid,
                 user_page_table[p][i].pfn \notin freed
          PROVE  user_page_table'[p][i] = user_page_table[p][i]
      BY <2>2, <2>3, <3>2
    <3> QED BY <1>2, <1>3, <1>4, <3>1, <3>2 DEF UserFrame
  <2>5. \A f \in freed : UserFrame(f) /\ ~HeapFrame(f) /\ ~StackFrame(f)
    <3>1. \A f \in freed : UserFrame(f)
      BY <1>0, <2>1, <2>2 DEF UserFrame
    <3> QED BY <3>1, SettledMeans
  <2>6. \A f : InUse(f)' <=> InUse(f) /\ f \notin freed
    BY <1>2, <1>4, <2>4, <2>5 DEF InUse
  <2>7. Balance(freed, none, none, none)
    BY <1>4, <2>5, <2>6 DEF InUse, Balance
  <2> HIDE DEF none
  <2>8. Lost' = Lost \cup none \cup (none \ none)
    BY <2>7, Accounts
  <2>9. BrkLoses = {}
    <3>1. brk'[curr_pcb] = addr /\ brk[curr_pcb] \in Nat /\ \A i \in Page : i + PTLen \in Nat
      BY <1>0, <1>4, Sizes DEF Address, VMEM_1_BASE, VMEM_1_LIMIT
    <3>2. RaisedOver = {}
      BY <1>4, <3>1 DEF RaisedOver, ValidPages
    <3> QED BY <3>2 DEF BrkLoses
  <2> QED BY <1>2, <1>4, <2>8, <2>9 DEF Accounted, none
<1>5. CASE /\ HasFrames(Free, n) /\ used' = used \cup taken
           /\ user_page_table' = [user_page_table EXCEPT ![curr_pcb] = RaisedTable(addr)]
           /\ brk' = [brk EXCEPT ![curr_pcb] = addr]
           /\ UNCHANGED <<kernel, process, region_1_sp>>
  <2>1. /\ taken \subseteq Free /\ new \in SUBSET Page
        /\ \A i \in Page \ new : RaisedTable(addr)[i] = user_page_table[curr_pcb][i]
        /\ \A i \in new : RaisedTable(addr)[i].valid /\ RaisedTable(addr)[i].pfn \in taken
    BY <1>0, <1>5, RaiseFrames
  <2>2. \A i \in new : RaisedTable(addr)[i].pfn = FrameFor(Free, 0, new, i)
    BY <2>1 DEF RaisedTable, Mapped
  <2>3. \A f \in taken : \E i \in new : f = RaisedTable(addr)[i].pfn
    <3> HIDE DEF Free
    <3> QED BY <1>5, <2>1, <2>2, AllFilled
  <2>4. \A i : i \in RaisedOver <=> i \in new /\ user_page_table[curr_pcb][i].valid
    <3>1. brk'[curr_pcb] = addr
      BY <1>0, <1>5
    <3> QED BY <3>1 DEF RaisedOver, ValidPages, Raised
  <2>5. \A f : f \in over <=> \E i \in RaisedOver : f = user_page_table[curr_pcb][i].pfn
    OBVIOUS
  <2>6. BrkLoses = over
    BY <1>5 DEF BrkLoses
  <2>7. /\ user_page_table'[curr_pcb] = RaisedTable(addr)
        /\ \A p \in alive : p # curr_pcb => user_page_table'[p] = user_page_table[p]
    BY <1>0, <1>5
  <2> HIDE DEF over, new, n, taken
  <2>8. ASSUME NEW f
        PROVE  UserFrame(f)' <=> (UserFrame(f) /\ f \notin over) \/ f \in taken
    <3>1. ASSUME NEW p \in alive, NEW i \in Page, user_page_table'[p][i].valid
          PROVE  \/ user_page_table'[p][i].pfn \in taken
                 \/ /\ user_page_table[p][i].valid
                    /\ user_page_table'[p][i].pfn = user_page_table[p][i].pfn
                    /\ user_page_table[p][i].pfn \notin over
      BY <1>0, <2>1, <2>4, <2>5, <2>7, <3>1
    <3>2. ASSUME NEW p \in alive, NEW i \in Page, user_page_table[p][i].valid,
                 user_page_table[p][i].pfn \notin over
          PROVE  user_page_table'[p][i] = user_page_table[p][i]
      BY <2>1, <2>4, <2>5, <2>7, <3>2
    <3>3. ASSUME f \in taken
          PROVE  UserFrame(f)'
      BY <1>0, <1>2, <1>3, <1>5, <2>1, <2>3, <2>7, <3>3
    <3> QED BY <1>2, <1>3, <1>5, <3>1, <3>2, <3>3 DEF UserFrame
  <2>9. \A f \in over : UserFrame(f) /\ ~HeapFrame(f) /\ ~StackFrame(f)
    <3>1. \A f \in over : UserFrame(f)
      BY <1>0, <2>1, <2>4, <2>5 DEF UserFrame
    <3> QED BY <3>1, SettledMeans
  <2>10. \A f : InUse(f)' <=> (InUse(f) /\ f \notin over) \/ f \in taken
    BY <1>2, <1>5, <2>8, <2>9 DEF InUse
  <2>11. Balance(none, taken, taken, over)
    BY <1>0, <1>5, <2>1, <2>9, <2>10 DEF InUse, Balance
  <2> HIDE DEF none
  <2>12. Lost' = Lost \cup over \cup (taken \ taken)
    BY <2>11, Accounts
  <2> QED BY <1>2, <1>5, <2>6, <2>12 DEF Accounted
<1> QED BY <1>1, <1>4, <1>5 DEF KernelBrk, RaisedTable

(* Every step before a copy has hit the heap, that copy included, loses    *)
(* the frames it is said to lose.                                          *)
LEMMA AccountStep ==
  ASSUME Settled, [Next]_vars
  PROVE  Accounted
<1>1. CASE UNCHANGED vars
  BY <1>1, SameInUse DEF vars, kernel, process, user
<1>2. ASSUME NEW q, switch_to_next_ready_process(q)
      PROVE  Accounted
  <2>1. \A i \in Page : i < KERNEL_BRK => i # StackPages[1] /\ i # StackPages[2]
    BY Sizes DEF TypeOK, Settled
  <2>2. \A i \in Page : i < KERNEL_BRK => kernel_page_table'[i] = kernel_page_table[i]
    BY <1>2, <2>1, SwitchStacks DEF switch_to_next_ready_process, Settled
  <2> QED BY <1>2, <2>2, SameInUse DEF switch_to_next_ready_process, user
<1>3. ASSUME NEW addr, trap_memory_handler(addr)
      PROVE  Accounted
  <2>1. CASE fault' = "overrun" /\ UNCHANGED <<used, kernel, process, user, window_hit>>
    BY <2>1, SameInUse DEF kernel, process, user
  <2> QED BY <1>1, <1>3, <2>1, ExitAccount DEF trap_memory_handler
<1>4. Breaks \subseteq Nat
  BY MemoryAssumption
<1> QED BY <1>1, <1>2, <1>3, <1>4, HeapAccount, ForkAccount, ExitAccount, LoadAccount, BrkAccount
       DEF Next

(* Every frame is accounted for, for any number of processes, frames and   *)
(* pages: the kernel stack that create_process makes for a fork, what an   *)
(* exit leaves behind, the pages a break is raised over, and the page a    *)
(* copy hits, and no other.                                                *)
THEOREM FramesAccountedForCorrect == Spec => FramesAccountedFor
<1> DEFINE Inv  == TypeOK /\ KernelLayout /\ UserLayout /\ (~window_hit => OwnersInv)
           Body == ~window_hit => Lost' = Lost \cup ForkLoses \cup ExitLoses \cup BrkLoses
<1>1. Inv /\ Inv' /\ [Next]_vars => [Body]_vars
  BY AccountStep DEF Settled, Accounted
<1>2. [][Body]_vars => FramesAccountedFor
  BY DEF FramesAccountedFor
<1>3. Spec => []Inv
  BY OwnersAlways
<1> HIDE DEF Body, Inv
<1> QED BY <1>1, <1>2, <1>3, PTL DEF Spec

----------------------------------------------------------------------------
(* KernelStart: counting free frames.                                      *)

(* The frames of a set are numbered by how many of the set are below them. *)
LEMMA FrameRank ==
  ASSUME NEW free \in SUBSET Frame
  PROVE  /\ IsFiniteSet(free) /\ Cardinality(free) \in Nat
         /\ \A f \in free : Below(free, f) \in Nat
         /\ \A f, g \in free : f < g => Below(free, f) < Below(free, g)
         /\ \A f, g \in free : Below(free, f) = Below(free, g) => f = g
<1>0. free \subseteq Nat /\ NFrames \in Nat
  BY Sizes DEF Frame
<1>1. IsFiniteSet(free) /\ Cardinality(free) \in Nat
  <2>1. IsFiniteSet(Frame)
    BY <1>0, FS_Interval DEF Frame
  <2> QED BY <2>1, FS_Subset, FS_CardinalityType
<1>2. \A f \in free : Below(free, f) \in Nat
  <2> SUFFICES ASSUME NEW f \in free PROVE Below(free, f) \in Nat
    OBVIOUS
  <2> DEFINE S == {g \in free : g < f}
  <2>1. S \in SUBSET free
    OBVIOUS
  <2> HIDE DEF S
  <2>2. Cardinality(S) \in Nat
    BY <1>1, <2>1, FS_Subset, FS_CardinalityType
  <2> QED BY <2>2 DEF Below, S
<1>3. ASSUME NEW f \in free, NEW g \in free, f < g
      PROVE  Below(free, f) < Below(free, g)
  <2> DEFINE S == {h \in free : h < f}
             T == {h \in free : h < g}
  <2>1. T \in SUBSET free /\ S \in SUBSET T /\ f \in T /\ f \notin S
    <3>1. \A h \in S : h \in T
      BY <1>0, <1>3
    <3>2. f \in T /\ f \notin S
      BY <1>0, <1>3
    <3> QED BY <3>1, <3>2
  <2> HIDE DEF S, T
  <2>2. IsFiniteSet(T) /\ IsFiniteSet(S) /\ Cardinality(S) <= Cardinality(T)
        /\ Cardinality(S) # Cardinality(T)
    <3>1. IsFiniteSet(T)
      BY <1>1, <2>1, FS_Subset
    <3> QED BY <2>1, <3>1, FS_Subset
  <2>3. Cardinality(S) \in Nat /\ Cardinality(T) \in Nat
    BY <2>2, FS_CardinalityType
  <2>4. Cardinality(S) < Cardinality(T)
    BY <2>2, <2>3
  <2> QED BY <2>4 DEF Below, S, T
<1>4. ASSUME NEW f \in free, NEW g \in free, Below(free, f) = Below(free, g)
      PROVE  f = g
  <2>1. ~(f < g) /\ ~(g < f)
    BY <1>2, <1>3, <1>4
  <2> QED BY <1>0, <2>1
<1> QED BY <1>1, <1>2, <1>3, <1>4

(* Frames with fewer than k below them are at most k. *)
LEMMA FewBelow ==
  ASSUME NEW free \in SUBSET Frame, NEW S \in SUBSET free, NEW k \in Nat,
         \A f \in S : Below(free, f) < k
  PROVE  Cardinality(S) <= k
<1> DEFINE b == [f \in S |-> Below(free, f)]
<1>1. b \in Injection(S, 0..k-1)
  <2>0. /\ \A f \in S : Below(free, f) \in Nat
        /\ \A f, g \in S : Below(free, f) = Below(free, g) => f = g
    BY FrameRank
  <2>1. \A f \in S : b[f] = Below(free, f) /\ b[f] \in 0..k-1
    BY <2>0
  <2>2. b \in [S -> 0..k-1] /\ DOMAIN b = S /\ \A f, g \in S : b[f] = b[g] => f = g
    BY <2>0, <2>1
  <2> HIDE DEF b
  <2> QED BY <2>2 DEF Injection, IsInjective
<1>2. IsFiniteSet(0..k-1) /\ Cardinality(0..k-1) = k
  BY FS_Interval
<1> HIDE DEF b
<1> QED BY <1>1, <1>2, FS_Injection

(* As long as enough frames are free first_free_frame_idx finds them. *)
LEMMA EnoughFrames ==
  ASSUME NEW free \in SUBSET Frame, NEW n \in Nat, n <= Cardinality(free)
  PROVE  HasFrames(free, n)
<1> SUFFICES ASSUME NEW k \in 0..n-1
             PROVE  \E f \in free : Below(free, f) = k
  BY DEF HasFrames
<1>0. free \subseteq Nat /\ Cardinality(free) \in Nat /\ k < Cardinality(free) /\ k \in Nat
  BY FrameRank, Sizes DEF Frame
<1> DEFINE G == {f \in free : ~(Below(free, f) < k)}
<1>1. G # {}
  <2> SUFFICES ASSUME \A f \in free : Below(free, f) < k
               PROVE  FALSE
    OBVIOUS
  <2> QED BY <1>0, FewBelow
<1>2. PICK f \in G : \A g \in G : f <= g
  <2>1. G \subseteq Nat
    BY <1>0
  <2> HIDE DEF G
  <2> QED BY <1>1, <2>1, LeastNatural
<1>3. Below(free, f) <= k
  <2> DEFINE S == {g \in free : g < f}
  <2>1. S \in SUBSET free /\ \A g \in S : Below(free, g) < k
    BY <1>0, <1>2
  <2> HIDE DEF S
  <2>2. Cardinality(S) <= k
    BY <1>0, <2>1, FewBelow
  <2> QED BY <2>2 DEF Below, S
<1>4. f \in free /\ Below(free, f) \in Nat /\ ~(Below(free, f) < k)
  BY <1>2, FrameRank
<1> QED BY <1>0, <1>3, <1>4

(* Calls in a row take as many frames as there are calls, the lowest ones. *)
LEMMA TakenSize ==
  ASSUME NEW free \in SUBSET Frame, NEW n \in Nat, HasFrames(free, n)
  PROVE  /\ Taken(free, n) = {f \in free : Below(free, f) < n}
         /\ IsFiniteSet(Taken(free, n)) /\ Cardinality(Taken(free, n)) = n
<1> DEFINE b == [k \in 0..n-1 |-> first_free_frame_idx(free, k)]
           T == Taken(free, n)
<1>1. \A k \in 0..n-1 : /\ first_free_frame_idx(free, k) \in free
                         /\ Below(free, first_free_frame_idx(free, k)) = k
  BY FirstFree
<1>2. T = {f \in free : Below(free, f) < n}
  <2>1. ASSUME NEW f \in free, Below(free, f) < n
        PROVE  f \in T
    <3> DEFINE k == Below(free, f)
    <3>1. k \in 0..n-1
      BY <2>1, FrameRank
    <3>2. first_free_frame_idx(free, k) = f
      BY <1>1, <3>1, FrameRank
    <3> QED BY <3>1, <3>2 DEF Taken
  <2>2. ASSUME NEW f \in T
        PROVE  f \in free /\ Below(free, f) < n
    BY <1>1 DEF Taken
  <2> HIDE DEF T
  <2> QED BY <2>1, <2>2
<1>3. b \in Surjection(0..n-1, T) /\ b \in Injection(0..n-1, T)
  <2>1. /\ b \in [0..n-1 -> T] /\ DOMAIN b = 0..n-1
        /\ \A f \in T : \E k \in 0..n-1 : b[k] = f
    BY DEF Taken
  <2>2. \A j, k \in 0..n-1 : b[j] = b[k] => j = k
    BY <1>1
  <2> HIDE DEF b, T
  <2> QED BY <2>1, <2>2 DEF Surjection, Injection, IsInjective
<1>4. IsFiniteSet(0..n-1) /\ Cardinality(0..n-1) = n
  BY FS_Interval
<1> HIDE DEF b, T
<1>5. IsFiniteSet(T) /\ Cardinality(T) = n
  BY <1>3, <1>4, FS_Surjection
<1> QED BY <1>2, <1>5 DEF T

(* With room for n more frames in use there are n free ones; taking them   *)
(* uses n more.                                                            *)
LEMMA Room ==
  ASSUME used \subseteq Frame, NEW n \in Nat, Cardinality(used) + n <= NFrames
  PROVE  /\ HasFrames(Free, n)
         /\ used \cup Taken(Free, n) \subseteq Frame
         /\ Cardinality(used) \in Nat
         /\ Cardinality(used \cup Taken(Free, n)) = Cardinality(used) + n
<1>1. IsFiniteSet(Frame) /\ Cardinality(Frame) = NFrames /\ NFrames \in Nat
  <2>1. NFrames \in Nat /\ NFrames >= 9 /\ 0 \in Int /\ NFrames - 1 \in Int
    BY Sizes
  <2>2. /\ IsFiniteSet(0..NFrames-1)
        /\ Cardinality(0..NFrames-1) = IF 0 > NFrames-1 THEN 0 ELSE (NFrames-1) - 0 + 1
    BY <2>1, FS_Interval
  <2> QED BY <2>1, <2>2 DEF Frame
<1>2. IsFiniteSet(used) /\ Cardinality(used) \in Nat
  BY <1>1, FS_Subset, FS_CardinalityType
<1>3. Free \in SUBSET Frame /\ used \cup Free = Frame /\ used \cap Free = {}
  BY DEF Free
<1>4. IsFiniteSet(Free) /\ Cardinality(Free) \in Nat
  BY <1>3, FrameRank
<1> HIDE DEF Free
<1>5. Cardinality(Frame) = Cardinality(used) + Cardinality(Free) - 0
  BY <1>2, <1>3, <1>4, FS_Union, FS_EmptySet
<1>6. HasFrames(Free, n)
  BY <1>1, <1>2, <1>3, <1>4, <1>5, EnoughFrames
<1>7. IsFiniteSet(Taken(Free, n)) /\ Cardinality(Taken(Free, n)) = n /\ Taken(Free, n) \subseteq Free
  BY <1>3, <1>6, TakenSize, TakenFree
<1>8. used \cap Taken(Free, n) = {}
  BY <1>3, <1>7
<1>9. Cardinality(used \cup Taken(Free, n)) = Cardinality(used) + n - 0
  BY <1>2, <1>7, <1>8, FS_Union, FS_EmptySet
<1> QED BY <1>2, <1>3, <1>6, <1>7, <1>9

(* More calls after others have taken their frames: together they take     *)
(* what as many calls in a row take.                                       *)
LEMMA TakenAfter ==
  ASSUME NEW free \in SUBSET Frame, NEW m \in Nat, NEW n \in Nat,
         HasFrames(free, m), HasFrames(free \ Taken(free, m), n)
  PROVE  /\ HasFrames(free, m + n)
         /\ Taken(free, m + n) = Taken(free, m) \cup Taken(free \ Taken(free, m), n)
         /\ \A k \in 0..n-1 :
              first_free_frame_idx(free \ Taken(free, m), k) = first_free_frame_idx(free, m + k)
<1> DEFINE T == Taken(free, m)
           rest == free \ T
<1>0. free \subseteq Nat
  BY Sizes DEF Frame
<1>1. /\ T = {f \in free : Below(free, f) < m}
      /\ IsFiniteSet(T) /\ Cardinality(T) = m
  BY TakenSize
<1>2. \A f \in free : Below(free, f) \in Nat /\ (f \in T <=> Below(free, f) < m)
  BY <1>1, FrameRank
<1> HIDE DEF T
<1>3. ASSUME NEW f \in rest
      PROVE  Below(free, f) = m + Below(rest, f)
  <2> DEFINE S == {g \in rest : g < f}
             R == {g \in free : g < f}
  <2>1. \A g \in T : g < f
    <3> SUFFICES ASSUME NEW g \in T PROVE g < f
      OBVIOUS
    <3>1. g \in free /\ f \in free /\ g # f /\ Below(free, g) < m /\ ~(Below(free, f) < m)
      BY <1>1, <1>2
    <3>2. ~(f < g)
      BY <1>2, <3>1, FrameRank
    <3> QED BY <1>0, <3>1, <3>2
  <2>2. R = T \cup S /\ T \cap S = {}
    BY <1>1, <2>1
  <2>3. IsFiniteSet(S) /\ Cardinality(S) \in Nat
    <3>1. S \in SUBSET free
      OBVIOUS
    <3> HIDE DEF S
    <3> QED BY <3>1, FrameRank, FS_Subset, FS_CardinalityType
  <2> HIDE DEF S, R
  <2>4. Cardinality(R) = Cardinality(T) + Cardinality(S) - 0
    <3>1. IsFiniteSet(T)
      BY <1>1
    <3>2. Cardinality(T \cup S) = Cardinality(T) + Cardinality(S) - Cardinality(T \cap S)
      BY <2>3, <3>1, FS_Union
    <3> QED BY <2>2, <3>2, FS_EmptySet
  <2>5. Cardinality(R) = m + Cardinality(S)
    BY <1>1, <2>3, <2>4
  <2> QED BY <2>5 DEF Below, R, S
<1>4. rest \in SUBSET Frame
  OBVIOUS
<1>5. ASSUME NEW k \in 0..n-1
      PROVE  /\ first_free_frame_idx(rest, k) \in free
             /\ Below(free, first_free_frame_idx(rest, k)) = m + k
  <2>1. HasFrames(rest, n)
    BY DEF T
  <2> HIDE DEF rest
  <2>2. first_free_frame_idx(rest, k) \in rest /\ Below(rest, first_free_frame_idx(rest, k)) = k
    BY <2>1, FirstFree
  <2> QED BY <1>3, <2>2 DEF rest
<1>6. HasFrames(free, m + n)
  <2> SUFFICES ASSUME NEW k \in 0..(m + n)-1
               PROVE  \E f \in free : Below(free, f) = k
    BY DEF HasFrames
  <2>1. CASE k < m
    <3>1. k \in 0..m-1
      BY <2>1
    <3> QED BY <3>1, FirstFree
  <2>2. CASE ~(k < m)
    <3>1. k - m \in 0..n-1 /\ m + (k - m) = k
      BY <2>2
    <3> QED BY <1>5, <3>1
  <2> QED BY <2>1, <2>2
<1>7. ASSUME NEW k \in 0..n-1
      PROVE  first_free_frame_idx(rest, k) = first_free_frame_idx(free, m + k)
  <2>1. m + k \in 0..(m + n)-1
    OBVIOUS
  <2>2. /\ first_free_frame_idx(free, m + k) \in free
        /\ Below(free, first_free_frame_idx(free, m + k)) = m + k
    BY <1>6, <2>1, FirstFree
  <2> HIDE DEF rest
  <2> QED BY <1>5, <2>2, FrameRank
<1>8. Taken(free, m + n) = T \cup Taken(rest, n)
  <2>1. Taken(rest, n) = {f \in rest : Below(rest, f) < n}
    <3>1. HasFrames(rest, n)
      BY DEF T
    <3> HIDE DEF rest
    <3> QED BY <1>4, <3>1, TakenSize
  <2>2. Taken(free, m + n) = {f \in free : Below(free, f) < m + n}
    BY <1>6, TakenSize
  <2>3. \A f \in rest : Below(rest, f) \in Nat
    <3> HIDE DEF rest
    <3> QED BY <1>4, FrameRank
  <2>4. \A f \in rest : Below(free, f) < m + n <=> Below(rest, f) < n
    <3> SUFFICES ASSUME NEW f \in rest PROVE Below(free, f) < m + n <=> Below(rest, f) < n
      OBVIOUS
    <3>1. PICK x \in Nat : x = Below(rest, f)
      BY <2>3
    <3>2. Below(free, f) = m + x
      BY <1>3, <3>1
    <3> QED BY <3>1, <3>2
  <2>5. \A f \in T : f \in free /\ Below(free, f) < m + n
    <3> SUFFICES ASSUME NEW f \in T PROVE f \in free /\ Below(free, f) < m + n
      OBVIOUS
    <3>1. f \in free /\ Below(free, f) < m /\ Below(free, f) \in Nat
      BY <1>1, <1>2
    <3>2. PICK x \in Nat : x = Below(free, f)
      BY <3>1
    <3> QED BY <3>1, <3>2
  <2>6. \A f : f \in free <=> f \in T \/ f \in rest
    BY <2>5
  <2>7. \A f \in rest : f \in free
    OBVIOUS
  <2> HIDE DEF rest
  <2>8. \A f : f \in Taken(free, m + n) <=> f \in T \cup Taken(rest, n)
    BY <2>1, <2>2, <2>4, <2>5, <2>6, <2>7
  <2> QED BY <2>8
<1> QED BY <1>6, <1>7, <1>8 DEF T

----------------------------------------------------------------------------
(* The invariant.                                                          *)

(* What KernelStart leaves alone, before init is loaded. *)
Untouched ==
  /\ fault = "none" /\ curr_pcb = IDLE
  /\ brk = [p \in Pid |-> VMEM_1_BASE] /\ region_1_sp = [p \in Pid |-> VMEM_1_LIMIT]
  /\ image = [p \in Pid |-> "none"]
  /\ window_hit \in BOOLEAN /\ (phase # "running" => ~window_hit)

(* The break as the kernel knows it, between what the kernel page table is *)
(* drawn up to and what malloc takes the break for; the three agree when   *)
(* KernelStart has seen all there was before virtual memory.               *)
HeapNoted ==
  /\ KERNEL_BRK \in KernelPages..HeapMax
  /\ heap_top \in KERNEL_BRK..HeapMax /\ seen \in KernelPages..KERNEL_BRK
  /\ is_virtual_memory_enabled <=> phase \in {"idle", "init", "clone", "running"}
  /\ phase = "queues" => seen = KernelPages
  /\ phase = "bit_arr" => KERNEL_BRK = seen
  /\ phase = "idle" => vm_top = heap_top
  /\ is_virtual_memory_enabled =>
       vm_top \in seen..heap_top /\ (seen = vm_top => heap_top = KERNEL_BRK)

(* Until idle is created no process has anything. *)
NoTables == [p \in Pid |-> EmptyTable]
NoStacks == [p \in Pid |-> <<0, 0>>]
NoProcess ==
  phase \in {"queues", "bit_arr", "region 1", "idle"} =>
    /\ next_pid = IDLE /\ alive = {IDLE}
    /\ user_page_table = NoTables /\ kernel_stack = NoStacks

(* The kernel page table as KernelStart draws it up for a heap of k pages. *)
Occupied(k) == (0..k-1) \cup {PTLen - 2, PTLen - 1}
FirstTable(k) == [i \in Page |-> [valid |-> i \in Occupied(k), pfn |-> i]]
TableDrawn ==
  phase \in {"region 1", "idle"} => kernel_page_table = FirstTable(seen) /\ used = Occupied(seen)

(* From the creation of idle on the heap that KernelStart has seen is      *)
(* where it was, and the one raised since virtual memory is on is mapped.  *)
(* How many frames are in use bounds what is found free.                   *)
Peopled == phase \in {"init", "clone", "running"}
Given == IF phase = "init" THEN 1 ELSE IF phase = "clone" THEN 3 ELSE 5
HeapMapped ==
  /\ DOMAIN kernel_page_table = Page /\ \A i \in Page : kernel_page_table[i].valid \in BOOLEAN
  /\ \A i \in Page : i < seen /\ i \notin Hit => kernel_page_table[i] = KernelPage(i)
  /\ \A i \in Page : vm_top <= i /\ i < heap_top /\ i \notin Hit => kernel_page_table[i].valid
FramesLeft == used \subseteq Frame /\ Cardinality(used) <= KERNEL_BRK + 2 + Given
BootHeap == Peopled => HeapMapped /\ FramesLeft

(* If KernelStart has seen all of the boot heap the memory has its owners. *)
AllSeen == Peopled /\ seen = vm_top
Processes ==
  /\ alive = IF phase = "init" THEN {IDLE} ELSE {IDLE, INIT}
  /\ next_pid = IF phase = "init" THEN INIT ELSE INIT + 1
  /\ \A p \in Pid : p # IDLE => user_page_table[p] = EmptyTable
  /\ \A p \in Pid : p # INIT => kernel_stack[p] = <<0, 0>>
Owning == AllSeen => TypeOK /\ KernelLayout /\ (~window_hit => OwnersInv) /\ Processes

(* As long as the heap has not grown since virtual memory is on, the       *)
(* frames given out are the lowest ones, in the order of Memory's Init.    *)
IdleTable(k) == [EmptyTable EXCEPT ![PTLen - 1] = Mapped(first_free_frame_idx(Frame \ Occupied(k), 0), "rw")]
LastTable(k) ==
  [FirstTable(k) EXCEPT ![WindowPages[1]] = NoKernelPage, ![WindowPages[2]] = NoKernelPage]
InOrder ==
  AllSeen /\ heap_top = vm_top =>
    LET free == Frame \ Occupied(vm_top) IN
    /\ HasFrames(free, Given) /\ used = Occupied(vm_top) \cup Taken(free, Given)
    /\ user_page_table = [NoTables EXCEPT ![IDLE] = IdleTable(vm_top)]
    /\ kernel_page_table = IF phase = "running" THEN LastTable(vm_top) ELSE FirstTable(vm_top)
    /\ phase = "running" =>
         /\ kernel_stack[INIT] = <<first_free_frame_idx(free, 3), first_free_frame_idx(free, 4)>>
         /\ window_hit = (WindowPages[2] < vm_top)

Phases == phase \in {"queues", "bit_arr", "region 1", "idle", "init", "clone", "running"}

BootInv ==
  Phases /\ Untouched /\ HeapNoted /\ NoProcess /\ TableDrawn /\ BootHeap /\ Owning /\ InOrder

----------------------------------------------------------------------------
(* The steps.                                                              *)

(* The invariant holds when KernelStart begins. *)
LEMMA BootStarts == BootInit => BootInv
<1> SUFFICES ASSUME BootInit
             PROVE  BootInv
  OBVIOUS
<1>1. phase = "queues" /\ ~Peopled /\ is_virtual_memory_enabled = FALSE
  BY DEF BootInit, Peopled
<1>2. HeapNoted
  <2>1. KERNEL_BRK = KernelPages /\ heap_top = KernelPages /\ seen = KernelPages
    BY DEF BootInit
  <2> QED BY <1>1, <2>1, Sizes DEF HeapNoted
<1>3. Phases /\ Untouched /\ NoProcess /\ TableDrawn
  BY <1>1 DEF BootInit, Phases, Untouched, NoProcess, NoTables, NoStacks, TableDrawn
<1> QED BY <1>1, <1>2, <1>3 DEF BootInv, BootHeap, Owning, InOrder, AllSeen

(* malloc before virtual memory only notes the break. *)
LEMMA MallocNotes ==
  ASSUME BootInv, NEW top \in KernelPages..HeapMax, malloc(top), ~is_virtual_memory_enabled
  PROVE  BootInv'
<1>1. /\ KERNEL_BRK' = top /\ heap_top' = top /\ seen' = IF phase = "bit_arr" THEN top ELSE seen
      /\ heap_top < top
      /\ UNCHANGED <<used, kernel_page_table, kernel_stack, curr_pcb, next_pid, alive, user_page_table,
                     brk, region_1_sp, image, fault, window_hit, phase, is_virtual_memory_enabled, vm_top>>
  BY DEF malloc, Notes, start, process, user
<1>2. phase \in {"queues", "bit_arr", "region 1"} /\ ~Peopled /\ ~Peopled'
  BY <1>1 DEF malloc, BootInv, HeapNoted, Peopled
<1>3. HeapNoted'
  <2>1. /\ KERNEL_BRK \in KernelPages..HeapMax /\ heap_top \in KERNEL_BRK..HeapMax
        /\ seen \in KernelPages..KERNEL_BRK /\ (phase = "queues" => seen = KernelPages)
    BY DEF BootInv, HeapNoted
  <2>2. /\ KERNEL_BRK' \in KernelPages..HeapMax /\ heap_top' \in KERNEL_BRK'..HeapMax
        /\ seen' \in KernelPages..KERNEL_BRK'
    BY <1>1, <2>1, Sizes
  <2> QED BY <1>1, <1>2, <2>1, <2>2 DEF HeapNoted
<1>4. TableDrawn'
  BY <1>1, <1>2 DEF BootInv, TableDrawn, FirstTable, Occupied
<1>5. Phases' /\ Untouched' /\ NoProcess'
  BY <1>1 DEF BootInv, Phases, Untouched, NoProcess, NoTables, NoStacks
<1> QED BY <1>2, <1>3, <1>4, <1>5 DEF BootInv, BootHeap, Owning, InOrder, AllSeen

(* What every step under virtual memory starts from. *)
LEMMA PeopledHeap ==
  ASSUME BootInv, Peopled
  PROVE  /\ HeapMapped /\ FramesLeft /\ Given \in {1, 3, 5} /\ is_virtual_memory_enabled
         /\ KERNEL_BRK \in Nat /\ heap_top \in Nat /\ seen \in Nat /\ vm_top \in Nat
         /\ KERNEL_BRK \in KernelPages..HeapMax /\ heap_top \in KernelPages..HeapMax
         /\ seen <= KERNEL_BRK /\ KERNEL_BRK <= heap_top /\ heap_top <= PTLen - 3
         /\ seen <= vm_top /\ vm_top <= heap_top /\ KERNEL_BRK <= PTLen - 3
         /\ seen = vm_top => heap_top = KERNEL_BRK
<1>1. /\ HeapMapped /\ FramesLeft /\ Given \in {1, 3, 5} /\ is_virtual_memory_enabled
      /\ KERNEL_BRK \in KernelPages..HeapMax /\ heap_top \in KERNEL_BRK..HeapMax
      /\ seen \in KernelPages..KERNEL_BRK /\ vm_top \in seen..heap_top
      /\ seen = vm_top => heap_top = KERNEL_BRK
  BY DEF BootInv, HeapNoted, BootHeap, Given, Peopled
<1> QED BY <1>1, Sizes

(* malloc with virtual memory finds the frames it needs, and takes them    *)
(* for pages above those there are.                                        *)
LEMMA MallocMaps ==
  ASSUME BootInv, NEW top \in KernelPages..HeapMax, malloc(top), is_virtual_memory_enabled
  PROVE  BootInv'
<1> DEFINE new == {i \in Page : KERNEL_BRK <= i /\ i < top}
           n   == top - KERNEL_BRK
<1>1. /\ SetKernelBrk(top) /\ heap_top' = top /\ heap_top < top /\ phase \in {"init", "clone"}
      /\ UNCHANGED <<phase, is_virtual_memory_enabled, seen, vm_top>>
  BY DEF malloc, BootInv, HeapNoted, start
<1>2. /\ Peopled /\ Peopled' /\ Given' = Given
  BY <1>1 DEF Peopled, Given
<1>3. /\ HeapMapped /\ used \subseteq Frame /\ Cardinality(used) <= KERNEL_BRK + 2 + Given
      /\ Given \in {1, 3, 5} /\ KERNEL_BRK \in Nat /\ seen \in Nat /\ vm_top \in Nat /\ heap_top \in Nat
      /\ seen <= KERNEL_BRK /\ KERNEL_BRK <= heap_top /\ seen <= vm_top /\ vm_top <= heap_top
      /\ KERNEL_BRK \in KernelPages..HeapMax
  BY <1>2, PeopledHeap DEF FramesLeft
<1>4. /\ top \in Nat /\ top <= PTLen - 3 /\ PTLen \in Nat /\ NFrames \in Nat
      /\ PTLen + 5 <= NFrames /\ n \in Nat /\ KERNEL_BRK < top
      /\ \A i \in Page : i \in Nat
  BY <1>1, <1>3, Sizes
<1>5. Given <= 3
  BY <1>1 DEF Given
<1>6. new # {} /\ Cardinality(new) = n
  <2>1. new = KERNEL_BRK..top-1
    BY <1>3, <1>4 DEF Page
  <2>2. KERNEL_BRK \in Int /\ top - 1 \in Int /\ ~(KERNEL_BRK > top - 1)
    BY <1>3, <1>4
  <2>3. Cardinality(KERNEL_BRK..top-1) = (top - 1) - KERNEL_BRK + 1
    BY <2>2, FS_Interval
  <2>4. (top - 1) - KERNEL_BRK + 1 = top - KERNEL_BRK /\ KERNEL_BRK \in KERNEL_BRK..top-1
    BY <2>2
  <2> HIDE DEF new
  <2> QED BY <2>1, <2>3, <2>4
<1> HIDE DEF new, Given
<1>7. /\ HasFrames(Free, n) /\ used \cup Taken(Free, n) \subseteq Frame /\ Cardinality(used) \in Nat
      /\ Cardinality(used \cup Taken(Free, n)) = Cardinality(used) + n
  <2>1. Cardinality(used) \in Nat
    BY <1>3, FrameRank
  <2>2. Cardinality(used) + n <= NFrames
    BY <1>3, <1>4, <1>5, <2>1
  <2> QED BY <1>3, <1>4, <2>2, Room
<1>8. {i \in Page : top <= i /\ i < KERNEL_BRK} = {}
  BY <1>3, <1>4
<1>9. /\ kernel_page_table' = [i \in Page |->
            IF i \in new THEN KernelPage(FrameFor(Free, 0, new, i)) ELSE kernel_page_table[i]]
      /\ used' = used \cup Taken(Free, n)
      /\ KERNEL_BRK' = top /\ UNCHANGED <<kernel_stack, process, user, fault, window_hit>>
  BY <1>1, <1>6, <1>7, <1>8 DEF SetKernelBrk, new
<1>10. Phases' /\ Untouched' /\ NoProcess' /\ TableDrawn'
  BY <1>1, <1>9 DEF BootInv, Phases, Untouched, NoProcess, TableDrawn, process, user
<1>11. HeapNoted'
  <2>1. seen' \in KernelPages..KERNEL_BRK' /\ vm_top' \in seen'..heap_top'
        /\ KERNEL_BRK' \in KernelPages..HeapMax /\ heap_top' \in KERNEL_BRK'..HeapMax
    <3>1. KernelPages <= seen
      BY DEF BootInv, HeapNoted
    <3> QED BY <1>1, <1>3, <1>4, <1>9, <3>1, Sizes
  <2> QED BY <1>1, <1>9, <2>1 DEF BootInv, HeapNoted
<1>12. BootHeap'
  <2>1. \A i \in Page : i < seen => i \notin new
    BY <1>3, <1>4 DEF new
  <2>2. \A i \in Page : i \in new => kernel_page_table'[i].valid
    BY <1>9 DEF KernelPage
  <2>3. \A i \in Page : i \notin new => kernel_page_table'[i] = kernel_page_table[i]
    BY <1>9
  <2>4. \A i \in Page : i < top /\ ~(i < heap_top) => i \in new
    BY <1>3, <1>4 DEF new
  <2>5. Hit' = Hit
    BY <1>9 DEF Hit
  <2>6. HeapMapped'
    BY <1>1, <1>3, <1>9, <2>1, <2>2, <2>3, <2>4, <2>5 DEF HeapMapped
  <2>7. FramesLeft'
    BY <1>2, <1>3, <1>4, <1>7, <1>9 DEF FramesLeft
  <2> QED BY <2>6, <2>7 DEF BootHeap
<1>13. Owning'
  <2> SUFFICES ASSUME seen' = vm_top'
               PROVE  TypeOK' /\ KernelLayout' /\ (~window_hit' => OwnersInv') /\ Processes'
    BY DEF Owning, AllSeen
  <2>1. TypeOK /\ KernelLayout /\ (~window_hit => OwnersInv) /\ Processes /\ fault = "none"
    BY <1>1, <1>2 DEF BootInv, Owning, AllSeen, Untouched
  <2>2. [Next]_vars
    BY <1>1, <2>1 DEF Next
  <2>3. TypeOK' /\ KernelLayout'
    BY <1>1, <2>1, <2>2, HeapTypes, KernelLayoutStep
  <2>4. ~window_hit' => OwnersInv'
    BY <1>1, <1>9, <2>1, <2>2, HeapOwners
  <2>5. Processes'
    BY <1>1, <1>9, <2>1 DEF Processes, process, user
  <2> QED BY <2>3, <2>4, <2>5
<1>14. InOrder'
  BY <1>1, <1>3, <1>4 DEF InOrder
<1> QED BY <1>10, <1>11, <1>12, <1>13, <1>14 DEF BootInv

(* The first steps set the break and draw up the table; then virtual       *)
(* memory comes on.                                                        *)
LEMMA TableSteps ==
  ASSUME BootInv, reset_brk \/ kernel_table \/ enable_vm
  PROVE  BootInv'
<1>1. /\ KERNEL_BRK \in KernelPages..HeapMax /\ heap_top \in KERNEL_BRK..HeapMax
      /\ seen \in KernelPages..KERNEL_BRK
      /\ phase = "queues" => seen = KernelPages
      /\ phase = "bit_arr" => KERNEL_BRK = seen
      /\ is_virtual_memory_enabled <=> phase \in {"idle", "init", "clone", "running"}
  BY DEF BootInv, HeapNoted
<1>2. CASE reset_brk
  <2>1. /\ phase = "queues" /\ phase' = "bit_arr" /\ KERNEL_BRK' = KernelPages
        /\ UNCHANGED <<used, kernel_page_table, kernel_stack, curr_pcb, next_pid, alive, user_page_table, brk,
                       region_1_sp, image, fault, window_hit, is_virtual_memory_enabled, heap_top, seen, vm_top>>
    BY <1>2 DEF reset_brk, process, user, heap
  <2>2. HeapNoted'
    <3>1. KERNEL_BRK' \in KernelPages..HeapMax /\ heap_top' \in KERNEL_BRK'..HeapMax
          /\ seen' \in KernelPages..KERNEL_BRK' /\ KERNEL_BRK' = seen'
      BY <1>1, <2>1, Sizes
    <3> QED BY <1>1, <2>1, <3>1 DEF HeapNoted
  <2>3. ~Peopled' /\ Phases' /\ Untouched' /\ NoProcess' /\ TableDrawn'
    BY <2>1 DEF Peopled, BootInv, Phases, Untouched, NoProcess, NoTables, NoStacks, TableDrawn
  <2> QED BY <2>2, <2>3 DEF BootInv, BootHeap, Owning, InOrder, AllSeen
<1>3. CASE kernel_table
  <2>1. /\ phase = "bit_arr" /\ phase' = "region 1"
        /\ kernel_page_table' = FirstTable(KERNEL_BRK) /\ used' = Occupied(KERNEL_BRK)
        /\ UNCHANGED <<KERNEL_BRK, kernel_stack, curr_pcb, next_pid, alive, user_page_table, brk,
                       region_1_sp, image, fault, window_hit, is_virtual_memory_enabled, heap_top, seen, vm_top>>
    BY <1>3 DEF kernel_table, process, user, heap, FirstTable, Occupied, HeapPages, StackPages
  <2>2. HeapNoted'
    BY <1>1, <2>1 DEF HeapNoted
  <2>3. KERNEL_BRK = seen' /\ TableDrawn'
    BY <1>1, <2>1 DEF TableDrawn, FirstTable, Occupied
  <2>4. ~Peopled' /\ Phases' /\ Untouched' /\ NoProcess'
    BY <2>1 DEF Peopled, BootInv, Phases, Untouched, NoProcess, NoTables, NoStacks
  <2> QED BY <2>2, <2>3, <2>4 DEF BootInv, BootHeap, Owning, InOrder, AllSeen
<1>4. CASE enable_vm
  <2>1. /\ phase = "region 1" /\ phase' = "idle" /\ is_virtual_memory_enabled' /\ vm_top' = heap_top
        /\ UNCHANGED <<used, kernel_page_table, KERNEL_BRK, kernel_stack, curr_pcb, next_pid, alive,
                       user_page_table, brk, region_1_sp, image, fault, window_hit, heap_top, seen>>
    BY <1>4 DEF enable_vm, vars, kernel, process, user
  <2>2. HeapNoted'
    <3>1. /\ KERNEL_BRK \in Int /\ heap_top \in Int /\ seen \in Int
          /\ seen <= KERNEL_BRK /\ KERNEL_BRK <= heap_top
      BY <1>1, Sizes
    <3>2. vm_top' = heap_top /\ seen' = seen /\ heap_top' = heap_top /\ KERNEL_BRK' = KERNEL_BRK
      BY <2>1
    <3>3. vm_top' \in seen'..heap_top' /\ (seen' = vm_top' => heap_top' = KERNEL_BRK')
      BY <3>1, <3>2
    <3> QED BY <1>1, <2>1, <3>3 DEF HeapNoted
  <2>3. ~Peopled' /\ Phases' /\ Untouched' /\ NoProcess' /\ TableDrawn'
    BY <2>1 DEF Peopled, BootInv, Phases, Untouched, NoProcess, NoTables, NoStacks, TableDrawn,
                FirstTable, Occupied
  <2> QED BY <2>2, <2>3 DEF BootInv, BootHeap, Owning, InOrder, AllSeen
<1> QED BY <1>2, <1>3, <1>4

(* The table that KernelStart draws up marks what it maps, no more.        *)
LEMMA OccupiedSize ==
  ASSUME NEW k \in Nat, k <= PTLen - 3
  PROVE  Occupied(k) \subseteq Frame /\ Cardinality(Occupied(k)) = k + 2
<1>1. /\ PTLen \in Nat /\ NFrames \in Nat /\ PTLen <= NFrames
      /\ Occupied(k) = (0..k-1) \cup {PTLen - 2, PTLen - 1}
  BY Sizes DEF Occupied
<1>2. Occupied(k) \subseteq Frame
  BY <1>1 DEF Frame
<1>3. IsFiniteSet(0..k-1) /\ Cardinality(0..k-1) = k
  <2>1. 0 \in Int /\ k - 1 \in Int
    OBVIOUS
  <2>2. IsFiniteSet(0..k-1) /\ Cardinality(0..k-1) = IF 0 > k-1 THEN 0 ELSE (k-1) - 0 + 1
    BY <2>1, FS_Interval
  <2> QED BY <2>2
<1>4. PTLen - 2 \notin 0..k-1 /\ PTLen - 1 \notin (0..k-1) \cup {PTLen - 2}
  BY <1>1
<1>5. /\ IsFiniteSet((0..k-1) \cup {PTLen - 2})
      /\ Cardinality((0..k-1) \cup {PTLen - 2}) = k + 1
  <2> DEFINE S == 0..k-1
  <2> HIDE DEF S
  <2> QED BY <1>3, <1>4, FS_AddElement DEF S
<1>6. Cardinality(((0..k-1) \cup {PTLen - 2}) \cup {PTLen - 1}) = k + 1 + 1
  <2> DEFINE S == (0..k-1) \cup {PTLen - 2}
  <2>1. IsFiniteSet(S) /\ Cardinality(S) = k + 1 /\ PTLen - 1 \notin S
    BY <1>4, <1>5
  <2> HIDE DEF S
  <2>2. Cardinality(S \cup {PTLen - 1}) = (k + 1) + 1
    BY <2>1, FS_AddElement
  <2> QED BY <2>2 DEF S
<1>7. Occupied(k) = ((0..k-1) \cup {PTLen - 2}) \cup {PTLen - 1}
  BY <1>1
<1> QED BY <1>2, <1>6, <1>7

(* Drawing up the table gives every page and the kernel stack of idle the  *)
(* frame of its number.                                                    *)
LEMMA DrawnOwners ==
  ASSUME NEW k \in Nat, k <= PTLen - 3, NEW S, S[IDLE] = <<PTLen - 1, PTLen - 2>>
  PROVE  Owners(FirstTable(k), k, NoTables, {IDLE}, S, Occupied(k))
<1>1. /\ PTLen \in Nat /\ IDLE \in Pid
      /\ \A i \in Page : i \in Nat
  BY Sizes
<1>2. \A i \in Page : FirstTable(k)[i].pfn = i
  BY DEF FirstTable
<1>3. \A i \in Page : i < k => i \in Occupied(k) /\ i # PTLen - 1 /\ i # PTLen - 2
  BY <1>1 DEF Occupied
<1>4. PTLen - 1 \in Occupied(k) /\ PTLen - 2 \in Occupied(k) /\ PTLen - 1 # PTLen - 2
  BY <1>1 DEF Occupied
<1>5. \A i \in Page : ~NoTables[IDLE][i].valid
  BY <1>1 DEF NoTables, EmptyTable, Unmapped
<1>6. S[IDLE][1] = PTLen - 1 /\ S[IDLE][2] = PTLen - 2
  OBVIOUS
<1>7. HeapOwned(FirstTable(k), k, Occupied(k)) /\ HeapStackApart(FirstTable(k), k, S, {IDLE})
  BY <1>2, <1>3, <1>6 DEF HeapOwned, HeapStackApart
<1>8. StackOwned(S, {IDLE}, Occupied(k))
  BY <1>4, <1>6 DEF StackOwned
<1>9. /\ UserOwned(NoTables, {IDLE}, Occupied(k)) /\ HeapUserApart(FirstTable(k), k, NoTables, {IDLE})
      /\ UserStackApart(NoTables, S, {IDLE})
  BY <1>5 DEF UserOwned, HeapUserApart, UserStackApart
<1> QED BY <1>7, <1>8, <1>9 DEF Owners

(* With idle the memory gets its types, its layout and its owners.         *)
LEMMA IdleCreated ==
  ASSUME BootInv, create_idle_process
  PROVE  BootInv'
<1> DEFINE k    == seen
           free == Frame \ Occupied(k)
           f    == first_free_frame_idx(free, 0)
           idle == [EmptyTable EXCEPT ![PTLen - 1] = Mapped(f, "rw")]
           V    == [NoTables EXCEPT ![IDLE] = idle]
           N    == Taken(free, 1)
<1>1. /\ phase = "idle" /\ is_virtual_memory_enabled /\ vm_top = heap_top
      /\ KERNEL_BRK \in KernelPages..HeapMax /\ heap_top \in KERNEL_BRK..HeapMax
      /\ k \in KernelPages..KERNEL_BRK /\ ~window_hit
      /\ next_pid = IDLE /\ alive = {IDLE} /\ user_page_table = NoTables /\ kernel_stack = NoStacks
      /\ kernel_page_table = FirstTable(k) /\ used = Occupied(k) /\ Free = free
  BY DEF create_idle_process, BootInv, Untouched, HeapNoted, NoProcess, TableDrawn, Free
<1>2. /\ k \in Nat /\ k <= PTLen - 3 /\ KERNEL_BRK \in Nat /\ heap_top \in Nat
      /\ k <= KERNEL_BRK /\ KERNEL_BRK <= heap_top /\ heap_top <= PTLen - 3
      /\ PTLen \in Nat /\ PTLen - 1 \in Page /\ IDLE \in Pid /\ INIT \in Pid
      /\ IDLE = 0 /\ INIT = 1
  BY <1>1, Sizes DEF Page, IDLE, INIT
<1>3. HasFrames(free, 1) /\ used' = Occupied(k) \cup N
  BY <1>1 DEF create_idle_process, Takes
<1>4. f \in free /\ f \in N /\ N \subseteq free
  <2> HIDE DEF free
  <2>1. 0 \in 0..1-1
    OBVIOUS
  <2> QED BY <1>3, <2>1, FirstFree, TakenFree DEF Taken
<1>5. user_page_table' = V
  <2>1. NoTables[IDLE] = EmptyTable
    BY <1>2 DEF NoTables
  <2>2. user_page_table' = [user_page_table EXCEPT ![IDLE][PTLen - 1] = Mapped(f, "rw")]
    BY <1>1 DEF create_idle_process
  <2> QED BY <1>1, <2>1, <2>2
<1>6. /\ phase' = "init" /\ next_pid' = INIT
      /\ UNCHANGED <<kernel_page_table, KERNEL_BRK, kernel_stack, curr_pcb, alive, brk, region_1_sp,
                     image, fault, window_hit, is_virtual_memory_enabled, heap_top, seen, vm_top>>
  BY DEF create_idle_process, kernel, heap
<1> HIDE DEF k, free, f, N
<1>7. idle \in [Page -> Entry] /\ V \in [Pid -> [Page -> Entry]] /\ f \in Frame
  <2>1. f \in Frame
    BY <1>4 DEF free
  <2>2. EmptyTable \in [Page -> Entry] /\ Mapped(f, "rw") \in Entry
    BY <2>1, EntryTypes DEF EmptyTable
  <2> QED BY <2>1, <2>2 DEF NoTables
<1>8. TypeOK'
  <2>1. FirstTable(k) \in [Page -> KernelEntry]
    BY Sizes DEF FirstTable, KernelEntry
  <2>2. Occupied(k) \cup N \subseteq Frame
    BY <1>2, <1>4, OccupiedSize DEF free
  <2>3. NoStacks \in [Pid -> Frame \X Frame]
    BY EntryTypes DEF NoStacks
  <2>4. /\ alive' \subseteq 0..next_pid'-1 /\ IDLE \in alive' /\ curr_pcb' \in alive'
        /\ next_pid' \in Pid \cup {MaxPid + 1}
    BY <1>1, <1>2, <1>6 DEF BootInv, Untouched
  <2>5. /\ brk' \in [Pid -> Address] /\ region_1_sp' \in [Pid -> Address]
        /\ image' \in [Pid -> {"none", "whole", "part"}] /\ fault' = "none" /\ window_hit' \in BOOLEAN
    <3>1. VMEM_1_BASE \in Address /\ VMEM_1_LIMIT \in Address
      BY <1>2 DEF Address, VMEM_1_BASE, VMEM_1_LIMIT
    <3> QED BY <1>6, <3>1 DEF BootInv, Untouched
  <2> HIDE DEF V
  <2>6. KERNEL_BRK' \in KernelPages..HeapMax
    BY <1>1, <1>6
  <2>7. /\ used' \subseteq Frame
        /\ kernel_page_table' \in [Page -> [valid : BOOLEAN, pfn : Frame]]
        /\ kernel_stack' \in [Pid -> Frame \X Frame]
        /\ user_page_table' \in [Pid -> [Page -> [valid : BOOLEAN, prot : {"none", "rx", "rw"}, pfn : Frame]]]
    BY <1>1, <1>3, <1>5, <1>6, <1>7, <2>1, <2>2, <2>3 DEF Entry, KernelEntry
  <2> QED BY <2>4, <2>5, <2>6, <2>7 DEF TypeOK
<1>9. ASSUME seen' = vm_top'
      PROVE  KERNEL_BRK = k /\ KERNEL_BRK' = k /\ vm_top' = k /\ heap_top' = k
  BY <1>1, <1>2, <1>6, <1>9 DEF k
<1>10. ASSUME seen' = vm_top'
       PROVE  KernelLayout'
  <2>1. (TypeOK => (KernelLayout <=> MappedByKernel))'
    BY KernelLayoutByPage, PTL
  <2>2. \A i \in Page : i \in Occupied(k) <=> (i < k \/ i = StackPages[1] \/ i = StackPages[2])
    BY <1>2, Sizes DEF Occupied
  <2>3. WindowPages[2] \in Page /\ WindowPages[2] # StackPages[1] /\ WindowPages[2] # StackPages[2]
    BY Sizes
  <2>4. MappedByKernel'
    BY <1>1, <1>6, <1>9, <1>10, <2>2, <2>3 DEF MappedByKernel, FirstTable
  <2> QED BY <1>8, <2>1, <2>4
<1>11. ASSUME seen' = vm_top'
       PROVE  OwnersInv'
  <2> DEFINE S == Stacks'
  <2>1. S[IDLE] = <<PTLen - 1, PTLen - 2>>
    <3>1. kernel_page_table'[PTLen - 1].pfn = PTLen - 1 /\ kernel_page_table'[PTLen - 2].pfn = PTLen - 2
      BY <1>1, <1>6, Sizes DEF FirstTable
    <3>2. curr_pcb' = IDLE
      BY <1>6 DEF BootInv, Untouched
    <3> QED BY <1>2, <3>1, <3>2 DEF Stacks, StackOf, StackPages
  <2> HIDE DEF S
  <2>2. Owners(FirstTable(k), k, NoTables, {IDLE}, S, Occupied(k))
    BY <1>2, <2>1, DrawnOwners
  <2>3. Adds(NoTables, {IDLE}, V, IDLE, {PTLen - 1}, N)
    <3>1. V[IDLE] = idle /\ idle[PTLen - 1].pfn = f
      BY <1>2 DEF NoTables, EmptyTable, Mapped
    <3>2. \A i \in Page \ {PTLen - 1} : ~idle[i].valid
      BY DEF EmptyTable, Unmapped
    <3> HIDE DEF V, idle
    <3> QED BY <1>2, <1>4, <3>1, <3>2 DEF Adds
  <2>4. N \cap Occupied(k) = {}
    BY <1>4 DEF free
  <2> HIDE DEF V
  <2>5. Owners(FirstTable(k), k, V, {IDLE}, S, Occupied(k) \cup N)
    BY <2>2, <2>3, <2>4, PagesAdded
  <2> QED BY <1>1, <1>3, <1>5, <1>6, <1>9, <1>11, <2>5 DEF OwnersInv, S
<1>12. Processes'
  <2>1. \A p \in Pid : p # IDLE => V[p] = EmptyTable
    BY DEF NoTables
  <2>2. \A p \in Pid : kernel_stack'[p] = <<0, 0>>
    BY <1>1, <1>6 DEF NoStacks
  <2> QED BY <1>1, <1>2, <1>5, <1>6, <2>1, <2>2 DEF Processes
<1>13. BootHeap'
  <2>1. /\ Given' = 1 /\ Peopled' /\ Hit' = {} /\ seen' = k /\ vm_top' = heap_top' /\ KERNEL_BRK' = KERNEL_BRK
        /\ kernel_page_table' = FirstTable(k)
    BY <1>1, <1>6 DEF Given, Peopled, Hit, k
  <2>2. Cardinality(used) = k + 2 /\ used \subseteq Frame
    BY <1>1, <1>2, OccupiedSize
  <2>3. Cardinality(used) + 1 <= NFrames
    BY <1>2, <2>2, Sizes
  <2>4. Cardinality(used \cup Taken(Free, 1)) = Cardinality(used) + 1 /\ used \cup Taken(Free, 1) \subseteq Frame
    BY <2>2, <2>3, Room
  <2>5. used' = used \cup Taken(Free, 1)
    BY <1>1, <1>3 DEF N
  <2>6. FramesLeft'
    BY <1>2, <2>1, <2>2, <2>4, <2>5 DEF FramesLeft
  <2>7. \A i \in Page : i < k => FirstTable(k)[i] = KernelPage(i)
    <3> SUFFICES ASSUME NEW i \in Page, i < k
                 PROVE  FirstTable(k)[i] = KernelPage(i)
      OBVIOUS
    <3>1. (i \in Occupied(k)) = TRUE
      BY <1>2, Sizes DEF Occupied
    <3>2. FirstTable(k)[i] = [valid |-> i \in Occupied(k), pfn |-> i]
      BY DEF FirstTable
    <3> QED BY <3>1, <3>2, Zenon DEF KernelPage
  <2>8. DOMAIN FirstTable(k) = Page
    BY DEF FirstTable
  <2>9. \A i \in Page : ~(vm_top' <= i /\ i < heap_top')
    BY <1>1, <1>2, <1>6, Sizes
  <2>11. \A i \in Page : FirstTable(k)[i].valid \in BOOLEAN
    <3>1. FirstTable(k) \in [Page -> KernelEntry]
      BY Sizes DEF FirstTable, KernelEntry
    <3> QED BY <3>1 DEF KernelEntry
  <2>10. HeapMapped'
    BY <2>1, <2>7, <2>8, <2>9, <2>11 DEF HeapMapped
  <2> QED BY <2>6, <2>10 DEF BootHeap
<1>14. InOrder'
  <2> SUFFICES ASSUME seen' = vm_top', heap_top' = vm_top'
               PROVE  LET g == Frame \ Occupied(vm_top') IN
                      /\ HasFrames(g, Given') /\ used' = Occupied(vm_top') \cup Taken(g, Given')
                      /\ user_page_table' = [NoTables EXCEPT ![IDLE] = IdleTable(vm_top')]
                      /\ kernel_page_table' = FirstTable(vm_top')
    BY <1>6 DEF InOrder, AllSeen
  <2>1. vm_top' = k /\ Given' = 1
    BY <1>6, <1>9 DEF Given
  <2>2. IdleTable(k) = idle
    BY DEF IdleTable, f, free
  <2> QED BY <1>1, <1>3, <1>5, <1>6, <2>1, <2>2 DEF free, N
<1>15. Phases' /\ Untouched' /\ NoProcess' /\ TableDrawn'
  BY <1>1, <1>6 DEF Phases, BootInv, Untouched, NoProcess, TableDrawn
<1>16. HeapNoted'
  <2>1. /\ KERNEL_BRK' \in KernelPages..HeapMax /\ heap_top' \in KERNEL_BRK'..HeapMax
        /\ seen' \in KernelPages..KERNEL_BRK' /\ vm_top' \in seen'..heap_top'
        /\ (seen' = vm_top' => heap_top' = KERNEL_BRK')
    BY <1>1, <1>2, <1>6, Sizes DEF k
  <2> QED BY <1>1, <1>6, <2>1 DEF HeapNoted
<1> QED BY <1>8, <1>10, <1>11, <1>12, <1>13, <1>14, <1>15, <1>16 DEF BootInv, Owning, AllSeen

(* The two frames for a kernel stack. *)
LEMMA NewStack ==
  ASSUME Free \subseteq Frame, HasFrames(Free, 2)
  PROVE  /\ Taken(Free, 2) \subseteq Free
         /\ new_kernel_stack[1] \in Taken(Free, 2) /\ new_kernel_stack[2] \in Taken(Free, 2)
         /\ new_kernel_stack[1] # new_kernel_stack[2] /\ new_kernel_stack \in Frame \X Frame
<1> DEFINE f(k) == first_free_frame_idx(Free, k)
<1>1. 0 \in 0..2-1 /\ 1 \in 0..2-1 /\ 2 \in Nat
  OBVIOUS
<1>2. Taken(Free, 2) \subseteq Free /\ f(0) \in Taken(Free, 2) /\ f(1) \in Taken(Free, 2)
  <2> HIDE DEF Free
  <2> QED BY <1>1, TakenFree DEF Taken
<1>3. Below(Free, f(0)) = 0 /\ Below(Free, f(1)) = 1
  <2> HIDE DEF Free
  <2> QED BY <1>1, FirstFree
<1> HIDE DEF f
<1>4. f(0) # f(1) /\ f(0) \in Frame /\ f(1) \in Frame
  BY <1>2, <1>3
<1> QED BY <1>2, <1>4 DEF new_kernel_stack, f

(* KernelStart takes more frames after the first ones: those that are next *)
(* in order.                                                               *)
LEMMA NextInOrder ==
  ASSUME BootInv, AllSeen, heap_top = vm_top, NEW n \in Nat, HasFrames(Free, n),
         Occupied(vm_top) \subseteq Frame
  PROVE  LET free == Frame \ Occupied(vm_top) IN
         /\ HasFrames(free, Given + n)
         /\ used \cup Taken(Free, n) = Occupied(vm_top) \cup Taken(free, Given + n)
         /\ \A k \in 0..n-1 :
              first_free_frame_idx(Free, k) = first_free_frame_idx(free, Given + k)
<1> DEFINE free == Frame \ Occupied(vm_top)
           m    == Given
<1>1. /\ HasFrames(free, m) /\ used = Occupied(vm_top) \cup Taken(free, m)
      /\ m \in Nat
  BY DEF BootInv, InOrder, Given
<1>2. Free = free \ Taken(free, m) /\ free \in SUBSET Frame
  BY <1>1 DEF Free
<1> HIDE DEF free, m
<1>3. /\ HasFrames(free, m + n)
      /\ Taken(free, m + n) = Taken(free, m) \cup Taken(Free, n)
      /\ \A k \in 0..n-1 : first_free_frame_idx(Free, k) = first_free_frame_idx(free, m + k)
  <2>1. HasFrames(free \ Taken(free, m), n)
    BY <1>2
  <2>2. /\ HasFrames(free, m + n)
        /\ Taken(free, m + n) = Taken(free, m) \cup Taken(free \ Taken(free, m), n)
        /\ \A k \in 0..n-1 : first_free_frame_idx(free \ Taken(free, m), k) = first_free_frame_idx(free, m + k)
    BY <1>1, <1>2, <2>1, TakenAfter
  <2> QED BY <1>2, <2>2
<1>4. used \cup Taken(Free, n) = Occupied(vm_top) \cup Taken(free, m + n)
  BY <1>1, <1>3
<1> QED BY <1>3, <1>4 DEF free, m

(* What the creation of init and the copy of its kernel stack start from,  *)
(* if KernelStart has seen the whole boot heap.                            *)
LEMMA SeenFacts ==
  ASSUME BootInv, AllSeen
  PROVE  /\ TypeOK /\ KernelLayout /\ (~window_hit => OwnersInv) /\ Processes
         /\ heap_top = KERNEL_BRK
         /\ used \subseteq Frame /\ Free \subseteq Frame /\ Free \cap used = {}
         /\ curr_pcb = IDLE /\ IDLE \in Pid /\ INIT \in Pid /\ INIT # IDLE /\ alive \subseteq Pid
         /\ kernel_stack \in [Pid -> Frame \X Frame]
         /\ kernel_page_table \in [Page -> KernelEntry]
         /\ MappedByKernel
         /\ Occupied(vm_top) \subseteq Frame
<1>1. /\ TypeOK /\ KernelLayout /\ (~window_hit => OwnersInv) /\ Processes
      /\ curr_pcb = IDLE
  BY DEF BootInv, Owning, Untouched
<1>2. heap_top = KERNEL_BRK /\ vm_top \in Nat /\ vm_top <= PTLen - 3
  <2>1. /\ vm_top \in Nat /\ heap_top \in Nat /\ vm_top <= heap_top /\ heap_top <= PTLen - 3
        /\ heap_top = KERNEL_BRK
    BY PeopledHeap DEF AllSeen
  <2> QED BY <2>1, Sizes
<1>3. /\ used \subseteq Frame /\ Free \subseteq Frame /\ Free \cap used = {}
      /\ alive \subseteq Pid
      /\ kernel_stack \in [Pid -> Frame \X Frame]
      /\ kernel_page_table \in [Page -> KernelEntry]
  BY <1>1, TypeFacts DEF Free, TypeOK
<1>4. IDLE \in Pid /\ INIT \in Pid /\ INIT # IDLE
  BY Sizes DEF IDLE, INIT
<1>5. MappedByKernel /\ Occupied(vm_top) \subseteq Frame
  BY <1>1, <1>2, KernelLayoutByPage, OccupiedSize
<1> QED BY <1>1, <1>2, <1>3, <1>4, <1>5

(* There are two more frames to take while KernelStart runs. *)
LEMMA TwoTaken ==
  ASSUME BootInv, phase \in {"init", "clone"}
  PROVE  /\ HasFrames(Free, 2) /\ Peopled
         /\ used \cup Taken(Free, 2) \subseteq Frame
         /\ Cardinality(used \cup Taken(Free, 2)) <= KERNEL_BRK + 2 + (Given + 2)
<1>1. Peopled /\ Given <= 3
  BY DEF Peopled, Given
<1>2. /\ used \subseteq Frame /\ Cardinality(used) <= KERNEL_BRK + 2 + Given
      /\ KERNEL_BRK \in Nat /\ KERNEL_BRK <= PTLen - 3 /\ Given \in {1, 3, 5}
  BY <1>1, PeopledHeap DEF FramesLeft
<1> HIDE DEF Given
<1>3. Cardinality(used) \in Nat
  BY <1>2, FrameRank
<1>4. Cardinality(used) + 2 <= NFrames
  BY <1>1, <1>2, <1>3, Sizes
<1>5. /\ HasFrames(Free, 2) /\ used \cup Taken(Free, 2) \subseteq Frame
      /\ Cardinality(used \cup Taken(Free, 2)) = Cardinality(used) + 2
  BY <1>2, <1>4, Room
<1> QED BY <1>1, <1>2, <1>3, <1>5

(* create_process and KCCopy give init a kernel stack of frames that were  *)
(* free; those of idle and of the heap stay with them.                     *)
LEMMA StackGiven ==
  ASSUME BootInv, AllSeen, OwnersInv, HasFrames(Free, 2),
         NEW L, \A i \in Page : i < KERNEL_BRK => L[i].pfn = kernel_page_table[i].pfn,
         NEW S, S[IDLE] = Stacks[IDLE], S[INIT] = new_kernel_stack
  PROVE  Owners(L, KERNEL_BRK, user_page_table, {IDLE, INIT}, S, used \cup Taken(Free, 2))
<1>1. OwnersInv /\ IDLE \in alive /\ INIT # IDLE /\ user_page_table[INIT] = EmptyTable
      /\ Free \cap used = {} /\ Free \subseteq Frame
  BY SeenFacts DEF Processes
<1>2. /\ Taken(Free, 2) \subseteq Free
      /\ new_kernel_stack[1] \in Taken(Free, 2) /\ new_kernel_stack[2] \in Taken(Free, 2)
      /\ new_kernel_stack[1] # new_kernel_stack[2]
  BY <1>1, NewStack
<1>3. Owners(L, KERNEL_BRK, user_page_table, {IDLE}, S, used)
  BY <1>1, OwnersKept DEF OwnersInv
<1>4. Joins(user_page_table, {IDLE}, S, INIT, user_page_table, S, Taken(Free, 2))
  BY <1>1, <1>2 DEF Joins, EmptyTable, Unmapped
<1>5. Taken(Free, 2) \cap used = {} /\ {IDLE} \cup {INIT} = {IDLE, INIT}
  BY <1>1, <1>2
<1> QED BY <1>3, <1>4, <1>5, ProcessAdded

(* init is created. *)
LEMMA InitCreated ==
  ASSUME BootInv, create_process
  PROVE  BootInv'
<1>1. /\ phase = "init" /\ phase' = "clone" /\ Given = 1 /\ Given' = 3 /\ Peopled /\ Peopled' /\ ~window_hit
      /\ used' = used \cup Taken(Free, 2) /\ HasFrames(Free, 2)
      /\ kernel_stack' = [kernel_stack EXCEPT ![INIT] = new_kernel_stack]
      /\ next_pid' = next_pid + 1 /\ alive' = alive \cup {next_pid}
      /\ UNCHANGED <<kernel_page_table, KERNEL_BRK, curr_pcb, user_page_table, brk, region_1_sp, image,
                     fault, window_hit, is_virtual_memory_enabled, heap_top, seen, vm_top>>
  BY DEF create_process, Takes, user, heap, Given, Peopled, BootInv, Untouched
<1>2. Phases' /\ Untouched' /\ NoProcess' /\ TableDrawn' /\ HeapNoted'
  BY <1>1 DEF BootInv, Phases, Untouched, NoProcess, TableDrawn, HeapNoted
<1>3. BootHeap'
  <2>1. HeapMapped /\ Hit' = Hit
    BY <1>1 DEF BootInv, BootHeap, Hit
  <2>2. HeapMapped'
    BY <1>1, <2>1 DEF HeapMapped
  <2>3. FramesLeft'
    BY <1>1, TwoTaken DEF FramesLeft
  <2> QED BY <2>2, <2>3 DEF BootHeap
<1>4. ASSUME seen' = vm_top'
      PROVE  TypeOK' /\ KernelLayout' /\ OwnersInv' /\ Processes'
  <2>1. AllSeen
    BY <1>1, <1>4 DEF AllSeen
  <2>2. /\ TypeOK /\ OwnersInv /\ Processes /\ alive = {IDLE} /\ next_pid = INIT
        /\ Free \subseteq Frame /\ used \subseteq Frame
        /\ curr_pcb = IDLE /\ IDLE \in Pid /\ INIT \in Pid /\ INIT # IDLE
        /\ kernel_stack \in [Pid -> Frame \X Frame] /\ MappedByKernel
    BY <1>1, <2>1, SeenFacts DEF Processes
  <2>3. next_pid' = INIT + 1 /\ alive' = {IDLE, INIT}
    BY <1>1, <2>2
  <2>4. TypeOK'
    <3>1. new_kernel_stack \in Frame \X Frame /\ Taken(Free, 2) \subseteq Free
      BY <1>1, <2>2, NewStack
    <3>2. kernel_stack' \in [Pid -> Frame \X Frame] /\ used' \subseteq Frame
      BY <1>1, <2>2, <3>1
    <3>3. alive' \subseteq 0..next_pid'-1 /\ next_pid' \in Pid \cup {MaxPid + 1}
      BY <2>3, Sizes DEF IDLE, INIT, Pid
    <3> QED BY <1>1, <2>2, <2>3, <3>2, <3>3 DEF TypeOK
  <2>5. KernelLayout'
    <3>1. (TypeOK => (KernelLayout <=> MappedByKernel))'
      BY KernelLayoutByPage, PTL
    <3>2. MappedByKernel'
      BY <1>1, <2>2 DEF MappedByKernel
    <3> QED BY <2>4, <3>1, <3>2
  <2>6. OwnersInv'
    <3> DEFINE S == Stacks'
    <3>1. S[IDLE] = Stacks[IDLE] /\ S[INIT] = new_kernel_stack
      BY <1>1, <2>2 DEF Stacks, StackOf
    <3> HIDE DEF S
    <3>2. Owners(kernel_page_table, KERNEL_BRK, user_page_table, {IDLE, INIT}, S, used \cup Taken(Free, 2))
      BY <1>1, <2>1, <2>2, <3>1, StackGiven
    <3> QED BY <1>1, <2>3, <3>2 DEF OwnersInv, S
  <2>7. Processes'
    BY <1>1, <2>2, <2>3 DEF Processes
  <2> QED BY <2>4, <2>5, <2>6, <2>7
<1>5. InOrder'
  <2> DEFINE free == Frame \ Occupied(vm_top)
  <2> SUFFICES ASSUME seen' = vm_top', heap_top' = vm_top'
               PROVE  /\ HasFrames(free, 3) /\ used' = Occupied(vm_top) \cup Taken(free, 3)
                      /\ user_page_table' = [NoTables EXCEPT ![IDLE] = IdleTable(vm_top)]
                      /\ kernel_page_table' = FirstTable(vm_top)
    BY <1>1 DEF InOrder, AllSeen
  <2>1. AllSeen /\ heap_top = vm_top
    BY <1>1 DEF AllSeen
  <2>2. HasFrames(free, 1 + 2) /\ used' = Occupied(vm_top) \cup Taken(free, 1 + 2)
    BY <1>1, <2>1, NextInOrder, SeenFacts
  <2>3. /\ user_page_table = [NoTables EXCEPT ![IDLE] = IdleTable(vm_top)]
        /\ kernel_page_table = FirstTable(vm_top)
    BY <1>1, <2>1 DEF BootInv, InOrder
  <2> HIDE DEF free
  <2> QED BY <1>1, <2>2, <2>3
<1> QED BY <1>2, <1>3, <1>4, <1>5 DEF BootInv, Owning, AllSeen

(* init's kernel stack is copied into frames of its own, and the windows   *)
(* that were open for it are closed, on a page of the heap if it is there. *)
LEMMA StackCopied ==
  ASSUME BootInv, KCCopy
  PROVE  BootInv'
<1> DEFINE W == {WindowPages[1], WindowPages[2]}
<1>1. /\ phase = "clone" /\ phase' = "running" /\ Given = 3 /\ Given' = 5 /\ Peopled /\ Peopled' /\ ~window_hit
      /\ used' = used \cup Taken(Free, 2) /\ HasFrames(Free, 2)
      /\ kernel_stack' = [kernel_stack EXCEPT ![INIT] = new_kernel_stack]
      /\ kernel_page_table' = [kernel_page_table EXCEPT
            ![WindowPages[1]] = NoKernelPage, ![WindowPages[2]] = NoKernelPage]
      /\ window_hit' = kernel_page_table[WindowPages[2]].valid
      /\ UNCHANGED <<KERNEL_BRK, curr_pcb, next_pid, alive, user_page_table, brk, region_1_sp, image,
                     fault, is_virtual_memory_enabled, heap_top, seen, vm_top>>
  BY DEF KCCopy, Takes, process, user, heap, Given, Peopled, BootInv, Untouched
<1>2. /\ HeapMapped /\ KERNEL_BRK \in Nat /\ heap_top \in Nat /\ seen \in Nat /\ vm_top \in Nat
      /\ KERNEL_BRK \in KernelPages..HeapMax /\ heap_top <= PTLen - 3 /\ seen <= heap_top
      /\ vm_top <= heap_top /\ KERNEL_BRK <= heap_top
  <2>1. /\ HeapMapped /\ KERNEL_BRK \in Nat /\ heap_top \in Nat /\ seen \in Nat /\ vm_top \in Nat
        /\ KERNEL_BRK \in KernelPages..HeapMax /\ heap_top <= PTLen - 3 /\ seen <= vm_top
        /\ vm_top <= heap_top /\ KERNEL_BRK <= heap_top
    BY <1>1, PeopledHeap
  <2> QED BY <2>1
<1>3. /\ WindowPages[1] \in Page /\ WindowPages[2] \in Page /\ StackPages[1] \in Page /\ StackPages[2] \in Page
      /\ StackPages[1] \notin W /\ StackPages[2] \notin W /\ WindowPages[1] # WindowPages[2]
      /\ PTLen \in Nat /\ WindowPages[1] = PTLen - 3 /\ WindowPages[2] = PTLen - 4
      /\ \A i \in Page : i \in Nat
  BY Sizes
<1>4. /\ \A i \in Page : i \notin W => kernel_page_table'[i] = kernel_page_table[i]
      /\ \A i \in Page : i \in W => kernel_page_table'[i] = NoKernelPage
      /\ DOMAIN kernel_page_table' = Page
  <2>1. DOMAIN kernel_page_table = Page
    BY <1>2 DEF HeapMapped
  <2> QED BY <1>1, <1>3, <2>1
<1> HIDE DEF W, Given
<1>5. Phases' /\ Untouched' /\ NoProcess' /\ TableDrawn' /\ HeapNoted'
  <2>1. window_hit' \in BOOLEAN
    BY <1>1, <1>2, <1>3 DEF HeapMapped
  <2> QED BY <1>1, <2>1 DEF BootInv, Phases, Untouched, NoProcess, TableDrawn, HeapNoted
<1>6. BootHeap'
  <2>1. \A i \in Page : i < heap_top => i # WindowPages[1]
    BY <1>2, <1>3
  <2>2. Hit = {} /\ Hit' = IF window_hit' THEN {WindowPages[2]} ELSE {}
    BY <1>1 DEF Hit
  <2>3. \A i \in Page : i < heap_top /\ i \notin Hit' /\ kernel_page_table[i].valid
                          => kernel_page_table'[i] = kernel_page_table[i]
    BY <1>1, <1>4, <2>1, <2>2 DEF W
  <2>4. \A i \in Page : i < seen => i < heap_top /\ kernel_page_table[i] = KernelPage(i)
    BY <1>2, <1>3, <2>2 DEF HeapMapped
  <2>5. \A i \in Page : i < seen /\ i \notin Hit' => kernel_page_table'[i] = KernelPage(i)
    BY <2>3, <2>4 DEF KernelPage
  <2>6. \A i \in Page : vm_top <= i /\ i < heap_top /\ i \notin Hit' => kernel_page_table'[i].valid
    BY <1>2, <2>2, <2>3 DEF HeapMapped
  <2>7. \A i \in Page : kernel_page_table'[i].valid \in BOOLEAN
    <3>1. NoKernelPage.valid \in BOOLEAN /\ \A i \in Page : kernel_page_table[i].valid \in BOOLEAN
      BY <1>2 DEF HeapMapped, NoKernelPage
    <3>2. \A i \in Page : kernel_page_table'[i] = kernel_page_table[i] \/ kernel_page_table'[i] = NoKernelPage
      BY <1>4
    <3> QED BY <3>1, <3>2
  <2>8. HeapMapped'
    BY <1>1, <1>4, <2>5, <2>6, <2>7 DEF HeapMapped
  <2>9. FramesLeft'
    BY <1>1, TwoTaken DEF FramesLeft
  <2> QED BY <2>8, <2>9 DEF BootHeap
<1>7. ASSUME seen' = vm_top'
      PROVE  TypeOK' /\ KernelLayout' /\ (~window_hit' => OwnersInv') /\ Processes'
  <2>1. AllSeen
    BY <1>1, <1>7 DEF AllSeen
  <2>2. /\ TypeOK /\ OwnersInv /\ Processes /\ alive = {IDLE, INIT} /\ next_pid = INIT + 1
        /\ Free \subseteq Frame /\ used \subseteq Frame /\ heap_top = KERNEL_BRK
        /\ curr_pcb = IDLE /\ IDLE \in Pid /\ INIT \in Pid /\ INIT # IDLE
        /\ kernel_stack \in [Pid -> Frame \X Frame] /\ MappedByKernel
        /\ kernel_page_table \in [Page -> KernelEntry]
    BY <1>1, <2>1, SeenFacts DEF Processes
  <2>3. kernel_page_table' \in [Page -> KernelEntry]
    BY <1>1, <2>2, EntryTypes
  <2>4. TypeOK'
    <3>1. new_kernel_stack \in Frame \X Frame /\ Taken(Free, 2) \subseteq Free
      BY <1>1, <2>2, NewStack
    <3>2. kernel_stack' \in [Pid -> Frame \X Frame] /\ used' \subseteq Frame
      BY <1>1, <2>2, <3>1
    <3>3. window_hit' \in BOOLEAN
      BY <1>5 DEF Untouched
    <3> QED BY <1>1, <2>2, <2>3, <3>2, <3>3 DEF TypeOK, KernelEntry
  <2>5. /\ \A i \in W : i # StackPages[1] /\ i # StackPages[2]
        /\ ~(WindowPages[1] < KERNEL_BRK)
        /\ ~window_hit' => ~(WindowPages[2] < KERNEL_BRK)
    BY <1>1, <1>2, <1>3, <2>2 DEF W, MappedByKernel
  <2>6. KernelLayout'
    <3>1. (TypeOK => (KernelLayout <=> MappedByKernel))'
      BY KernelLayoutByPage, PTL
    <3>2. \A i \in Page : i \in W <=> i = WindowPages[1] \/ i = WindowPages[2]
      BY DEF W
    <3>3. ~kernel_page_table'[WindowPages[2]].valid /\ ~kernel_page_table'[WindowPages[1]].valid
      BY <1>3, <1>4, <3>2 DEF NoKernelPage
    <3>4. MappedByKernel'
      BY <1>1, <1>3, <1>4, <2>2, <2>5, <3>2, <3>3 DEF MappedByKernel
    <3> QED BY <2>4, <3>1, <3>4
  <2>7. ASSUME ~window_hit'
        PROVE  OwnersInv'
    <3> DEFINE S == Stacks'
    <3>1. S[IDLE] = Stacks[IDLE] /\ S[INIT] = new_kernel_stack
      BY <1>1, <1>3, <1>4, <2>2 DEF Stacks, StackOf
    <3> HIDE DEF S
    <3>2. \A i \in Page : i < KERNEL_BRK => kernel_page_table'[i].pfn = kernel_page_table[i].pfn
      BY <1>4, <2>5, <2>7 DEF W
    <3>3. Owners(kernel_page_table', KERNEL_BRK, user_page_table, {IDLE, INIT}, S, used \cup Taken(Free, 2))
      BY <1>1, <2>1, <2>2, <3>1, <3>2, StackGiven
    <3> QED BY <1>1, <2>2, <3>3 DEF OwnersInv, S
  <2>8. Processes'
    BY <1>1, <2>2 DEF Processes
  <2> QED BY <2>4, <2>6, <2>7, <2>8
<1>8. InOrder'
  <2> DEFINE free == Frame \ Occupied(vm_top)
  <2> SUFFICES ASSUME seen' = vm_top', heap_top' = vm_top'
               PROVE  /\ HasFrames(free, 5) /\ used' = Occupied(vm_top) \cup Taken(free, 5)
                      /\ user_page_table' = [NoTables EXCEPT ![IDLE] = IdleTable(vm_top)]
                      /\ kernel_page_table' = LastTable(vm_top)
                      /\ kernel_stack'[INIT] =
                           <<first_free_frame_idx(free, 3), first_free_frame_idx(free, 4)>>
                      /\ window_hit' = (WindowPages[2] < vm_top)
    BY <1>1 DEF InOrder, AllSeen
  <2>1. AllSeen /\ heap_top = vm_top
    BY <1>1 DEF AllSeen
  <2>2. /\ HasFrames(free, 3 + 2) /\ used' = Occupied(vm_top) \cup Taken(free, 3 + 2)
        /\ \A k \in 0..2-1 : first_free_frame_idx(Free, k) = first_free_frame_idx(free, 3 + k)
    BY <1>1, <2>1, NextInOrder, SeenFacts
  <2>3. /\ user_page_table = [NoTables EXCEPT ![IDLE] = IdleTable(vm_top)]
        /\ kernel_page_table = FirstTable(vm_top)
    BY <1>1, <2>1 DEF BootInv, InOrder
  <2>4. kernel_page_table' = LastTable(vm_top)
    BY <1>1, <2>3 DEF LastTable
  <2>5. kernel_stack'[INIT] = new_kernel_stack
    BY <1>1, <2>1, SeenFacts
  <2>6. new_kernel_stack = <<first_free_frame_idx(free, 3), first_free_frame_idx(free, 4)>>
    <3> HIDE DEF free
    <3>1. /\ first_free_frame_idx(Free, 0) = first_free_frame_idx(free, 3 + 0)
          /\ first_free_frame_idx(Free, 1) = first_free_frame_idx(free, 3 + 1)
      BY <2>2
    <3> QED BY <3>1 DEF new_kernel_stack
  <2>7. window_hit' = (WindowPages[2] < vm_top)
    <3>1. window_hit' = (WindowPages[2] \in Occupied(vm_top))
      BY <1>1, <1>3, <2>3 DEF FirstTable
    <3>2. WindowPages[2] \in Occupied(vm_top) <=> WindowPages[2] < vm_top
      BY <1>2, <1>3 DEF Occupied, Page
    <3> QED BY <3>1, <3>2
  <2> HIDE DEF free
  <2> QED BY <1>1, <2>2, <2>3, <2>4, <2>5, <2>6, <2>7
<1> QED BY <1>5, <1>6, <1>7, <1>8 DEF BootInv, Owning, AllSeen

(* Every step of KernelStart keeps the invariant. *)
LEMMA BootStep ==
  ASSUME BootInv, [BootNext]_boot_vars
  PROVE  BootInv'
<1>1. ASSUME NEW top \in KernelPages..HeapMax, malloc(top)
      PROVE  BootInv'
  BY <1>1, MallocNotes, MallocMaps
<1>2. CASE UNCHANGED boot_vars
  <2>1. UNCHANGED <<vars, phase, is_virtual_memory_enabled, heap_top, seen, vm_top>>
    BY <1>2 DEF boot_vars, start, heap
  <2>2. /\ Phases' /\ Untouched' /\ HeapNoted' /\ NoProcess' /\ TableDrawn' /\ BootHeap'
    BY <2>1, ZenonT(40) DEF BootInv, Phases, Untouched, HeapNoted, NoProcess, TableDrawn, BootHeap, Peopled,
                  Given, HeapMapped, FramesLeft, Hit, vars, kernel, process, user
  <2>3. Owning'
    BY <2>1, ZenonT(40) DEF BootInv, Owning, AllSeen, Peopled, TypeOK, KernelLayout, KernelUses, OwnersInv,
                  Stacks, StackOf, Processes, vars, kernel, process, user
  <2>4. InOrder'
    BY <2>1, ZenonT(40) DEF BootInv, InOrder, AllSeen, Peopled, Given, vars, kernel, process, user
  <2> QED BY <2>2, <2>3, <2>4 DEF BootInv
<1> QED BY <1>1, <1>2, TableSteps, IdleCreated, InitCreated, StackCopied DEF BootNext

(* The invariant holds always. *)
LEMMA BootAlways == BootSpec => []BootInv
<1>1. BootInv /\ [BootNext]_boot_vars => BootInv'
  BY BootStep
<1> QED BY <1>1, BootStarts, PTL DEF BootSpec

(* A page that is not mapped, as KernelStart leaves it. *)
LEMMA UnmappedPage ==
  ASSUME NEW i
  PROVE  [NoKernelPage EXCEPT !.pfn = i] = [valid |-> FALSE, pfn |-> i]
<1> DEFINE R == [valid : BOOLEAN, pfn : {0, i}]
           u == [NoKernelPage EXCEPT !.pfn = i]
<1>1. NoKernelPage \in R
  BY DEF NoKernelPage
<1>2. u \in R /\ u.valid = FALSE /\ u.pfn = i
  BY <1>1 DEF NoKernelPage
<1>3. [valid |-> FALSE, pfn |-> i] \in R
  OBVIOUS
<1> QED BY <1>2, <1>3

(* Memory's operators are the same for every size of the boot heap, but    *)
(* for BootFrames.                                                         *)
LEMMA SameOperators ==
  ASSUME NEW k
  PROVE  /\ Started(k)!Frame = Frame /\ Started(k)!Page = Page /\ Started(k)!Pid = Pid
         /\ Started(k)!IDLE = IDLE /\ Started(k)!INIT = INIT
         /\ Started(k)!WindowPages = WindowPages
         /\ Started(k)!VMEM_1_BASE = VMEM_1_BASE /\ Started(k)!VMEM_1_LIMIT = VMEM_1_LIMIT
         /\ Started(k)!NoKernelPage = NoKernelPage /\ Started(k)!EmptyTable = EmptyTable
         /\ \A f : Started(k)!KernelPage(f) = KernelPage(f)
         /\ \A f, prot : Started(k)!Mapped(f, prot) = Mapped(f, prot)
         /\ \A free, i : Started(k)!first_free_frame_idx(free, i) = first_free_frame_idx(free, i)
         /\ \A free, n : Started(k)!HasFrames(free, n) <=> HasFrames(free, n)
         /\ \A free, n : Started(k)!Taken(free, n) = Taken(free, n)
<1>0. \A S : Started(k)!Cardinality(S) = Cardinality(S)
  BY DEF Started!Cardinality, Cardinality
<1>1. \A free, f : Started(k)!Below(free, f) = Below(free, f)
  BY <1>0 DEF Started!Below, Below
<1>2. ASSUME NEW free, NEW i
      PROVE  Started(k)!first_free_frame_idx(free, i) = first_free_frame_idx(free, i)
  <2>1. Started(k)!first_free_frame_idx(free, i) = CHOOSE f \in free : Started(k)!Below(free, f) = i
    BY DEF Started!first_free_frame_idx
  <2>2. \A f : Started(k)!Below(free, f) = i <=> Below(free, f) = i
    BY <1>1
  <2>3. (CHOOSE f : f \in free /\ Started(k)!Below(free, f) = i)
          = CHOOSE f : f \in free /\ Below(free, f) = i
    BY <2>2
  <2> QED BY <2>1, <2>3 DEF first_free_frame_idx
<1>3. \A free, n : Started(k)!HasFrames(free, n) <=> HasFrames(free, n)
  BY <1>1 DEF Started!HasFrames, HasFrames
<1>4. \A free, n : Started(k)!Taken(free, n) = Taken(free, n)
  BY <1>2 DEF Started!Taken, Taken
<1> QED BY <1>2, <1>3, <1>4 DEF Started!Frame, Frame, Started!Page, Page, Started!Pid, Pid, Started!IDLE, IDLE,
       Started!INIT, INIT, Started!WindowPages, WindowPages, Started!VMEM_1_BASE, VMEM_1_BASE,
       Started!VMEM_1_LIMIT, VMEM_1_LIMIT, Started!NoKernelPage, NoKernelPage, Started!EmptyTable, EmptyTable,
       Started!Unmapped, Unmapped, Started!KernelPage, KernelPage, Started!Mapped, Mapped

(* Where KernelStart ends, if it has seen the boot heap and virtual memory *)
(* has not raised it further.                                              *)
LEMMA EndsInInit ==
  ASSUME BootInv, phase = "running", seen = vm_top, heap_top = vm_top,
         NEW k \in KernelPages..HeapMax, k = KERNEL_BRK
  PROVE  Started(k)!Init
<1>0. AllSeen
  BY DEF AllSeen, Peopled
<1>1. KERNEL_BRK = k /\ vm_top = k /\ k \in Nat /\ k <= PTLen - 3 /\ PTLen \in Nat
  <2>1. heap_top = KERNEL_BRK /\ KernelPages \in Nat
    BY <1>0, SeenFacts, Sizes
  <2> QED BY <2>1, Sizes
<1> DEFINE free == Frame \ Occupied(k)
           new(i) == first_free_frame_idx(free, i)
<1>2. /\ HasFrames(free, 5) /\ used = Occupied(k) \cup Taken(free, 5)
      /\ user_page_table = [NoTables EXCEPT ![IDLE] = IdleTable(k)]
      /\ kernel_page_table = LastTable(k)
      /\ kernel_stack[INIT] = <<new(3), new(4)>>
      /\ window_hit = (WindowPages[2] < k)
  BY <1>0, <1>1 DEF BootInv, InOrder, Given
<1>3. /\ next_pid = INIT + 1 /\ alive = {IDLE, INIT}
      /\ \A p \in Pid : p # INIT => kernel_stack[p] = <<0, 0>>
      /\ kernel_stack \in [Pid -> Frame \X Frame]
  BY <1>0, SeenFacts DEF Processes
<1>4. /\ fault = "none" /\ curr_pcb = IDLE
      /\ brk = [p \in Pid |-> VMEM_1_BASE] /\ region_1_sp = [p \in Pid |-> VMEM_1_LIMIT]
      /\ image = [p \in Pid |-> "none"]
  BY DEF BootInv, Untouched
<1>5. kernel_page_table = [i \in Page |->
        IF i \in {WindowPages[1], WindowPages[2]} THEN NoKernelPage
        ELSE IF i \in Occupied(k) THEN KernelPage(i)
        ELSE [NoKernelPage EXCEPT !.pfn = i]]
  <2>1. \A i \in Page : LastTable(k)[i] =
          IF i \in {WindowPages[1], WindowPages[2]} THEN NoKernelPage
          ELSE [valid |-> i \in Occupied(k), pfn |-> i]
    BY Sizes DEF LastTable, FirstTable
  <2>2. \A i \in Page : LastTable(k)[i] =
          IF i \in {WindowPages[1], WindowPages[2]} THEN NoKernelPage
          ELSE IF i \in Occupied(k) THEN KernelPage(i)
          ELSE [NoKernelPage EXCEPT !.pfn = i]
    <3> SUFFICES ASSUME NEW i \in Page
                 PROVE  LastTable(k)[i] =
                          IF i \in {WindowPages[1], WindowPages[2]} THEN NoKernelPage
                          ELSE IF i \in Occupied(k) THEN KernelPage(i)
                          ELSE [NoKernelPage EXCEPT !.pfn = i]
      OBVIOUS
    <3>1. CASE i \in {WindowPages[1], WindowPages[2]}
      BY <2>1, <3>1
    <3>2. CASE i \notin {WindowPages[1], WindowPages[2]} /\ i \in Occupied(k)
      <4>1. LastTable(k)[i] = [valid |-> i \in Occupied(k), pfn |-> i] /\ (i \in Occupied(k)) = TRUE
        BY <2>1, <3>2
      <4>2. LastTable(k)[i] = KernelPage(i)
        BY <4>1, Zenon DEF KernelPage
      <4> QED BY <3>2, <4>2
    <3>3. CASE i \notin {WindowPages[1], WindowPages[2]} /\ i \notin Occupied(k)
      <4>1. LastTable(k)[i] = [valid |-> i \in Occupied(k), pfn |-> i] /\ (i \in Occupied(k)) = FALSE
        BY <2>1, <3>3
      <4>2. LastTable(k)[i] = [valid |-> FALSE, pfn |-> i]
        BY <4>1, Zenon
      <4> QED BY <3>3, <4>2, UnmappedPage
    <3> QED BY <3>1, <3>2, <3>3
  <2>3. LastTable(k) = [i \in Page |-> LastTable(k)[i]]
    BY DEF LastTable, FirstTable
  <2> QED BY <1>2, <2>2, <2>3
<1>6. user_page_table = [p \in Pid |->
        IF p = IDLE THEN [EmptyTable EXCEPT ![PTLen - 1] = Mapped(new(0), "rw")] ELSE EmptyTable]
  BY <1>2, Sizes DEF NoTables, IdleTable
<1>7. kernel_stack = [p \in Pid |-> IF p = INIT THEN <<new(3), new(4)>> ELSE <<0, 0>>]
  BY <1>2, <1>3
<1>8. Started(k)!BootFrames = Occupied(k)
  BY DEF Started!BootFrames, Occupied
<1> HIDE DEF free, new
<1>9. Started(k)!Frame \ Started(k)!BootFrames = free
  BY <1>8, SameOperators DEF free
<1>10. \A i : Started(k)!first_free_frame_idx(free, i) = new(i)
  BY SameOperators DEF new
<1> DEFINE g == Started(k)!Frame \ Started(k)!BootFrames
           h(i) == Started(k)!first_free_frame_idx(g, i)
<1>11. Started(k)!HasFrames(g, 5) /\ used = Started(k)!BootFrames \cup Started(k)!Taken(g, 5)
  BY <1>2, <1>8, <1>9, SameOperators
<1>12. kernel_page_table = [i \in Started(k)!Page |->
         IF i \in {Started(k)!WindowPages[1], Started(k)!WindowPages[2]} THEN Started(k)!NoKernelPage
         ELSE IF i \in Started(k)!BootFrames THEN Started(k)!KernelPage(i)
         ELSE [Started(k)!NoKernelPage EXCEPT !.pfn = i]]
  BY <1>5, <1>8, SameOperators
<1>13. /\ KERNEL_BRK = k /\ curr_pcb = Started(k)!IDLE /\ next_pid = Started(k)!INIT + 1
       /\ alive = {Started(k)!IDLE, Started(k)!INIT}
  BY <1>1, <1>3, <1>4, SameOperators
<1>14. h(0) = new(0) /\ h(3) = new(3) /\ h(4) = new(4)
  BY <1>9, <1>10
<1> HIDE DEF h, g
<1>15. user_page_table = [p \in Started(k)!Pid |->
         IF p = Started(k)!IDLE THEN [Started(k)!EmptyTable EXCEPT ![PTLen - 1] = Started(k)!Mapped(h(0), "rw")]
         ELSE Started(k)!EmptyTable]
  BY <1>6, <1>14, SameOperators
<1>16. kernel_stack = [p \in Started(k)!Pid |->
         IF p = Started(k)!INIT THEN <<h(3), h(4)>> ELSE <<0, 0>>]
  BY <1>7, <1>14, SameOperators
<1>17. /\ brk = [p \in Started(k)!Pid |-> Started(k)!VMEM_1_BASE]
       /\ region_1_sp = [p \in Started(k)!Pid |-> Started(k)!VMEM_1_LIMIT]
       /\ image = [p \in Started(k)!Pid |-> "none"] /\ fault = "none"
       /\ window_hit = (Started(k)!WindowPages[2] < k)
  BY <1>2, <1>4, SameOperators
<1> QED BY <1>11, <1>12, <1>13, <1>15, <1>16, <1>17 DEF Started!Init, g, h

(* Virtual memory comes on with the boot heap in its place, but for the    *)
(* pages that the queues or the region 1 table raised it by unseen, which  *)
(* are not mapped; malloc's later pages are mapped as it asks for them and *)
(* disturb none, and the copy of init's kernel stack unmaps at most one.   *)
THEOREM HeapKeptCorrect == BootSpec => []HeapKept
<1>1. BootInv => HeapKept
  <2> SUFFICES ASSUME BootInv, is_virtual_memory_enabled
               PROVE  /\ \A i \in (0..seen-1) \ Hit : kernel_page_table[i] = KernelPage(i)
                      /\ phase = "idle" => \A i \in seen..vm_top-1 : ~kernel_page_table[i].valid
                      /\ \A i \in (vm_top..heap_top-1) \ Hit : kernel_page_table[i].valid
    BY DEF HeapKept
  <2>1. CASE phase = "idle"
    <3>1. /\ kernel_page_table = FirstTable(seen) /\ vm_top = heap_top
          /\ seen \in Nat /\ heap_top \in Nat /\ heap_top <= PTLen - 3 /\ seen <= heap_top /\ PTLen \in Nat
      <4>1. /\ kernel_page_table = FirstTable(seen) /\ vm_top = heap_top
            /\ KERNEL_BRK \in KernelPages..HeapMax /\ heap_top \in KERNEL_BRK..HeapMax
            /\ seen \in KernelPages..KERNEL_BRK
        BY <2>1 DEF BootInv, TableDrawn, HeapNoted
      <4> QED BY <4>1, Sizes
    <3>2. \A i \in Page : kernel_page_table[i] = [valid |-> i \in Occupied(seen), pfn |-> i]
      BY <3>1 DEF FirstTable
    <3>3. ASSUME NEW i \in 0..seen-1
          PROVE  kernel_page_table[i] = KernelPage(i)
      <4>1. i \in Page /\ (i \in Occupied(seen)) = TRUE
        BY <3>1 DEF Page, Occupied
      <4> QED BY <3>2, <4>1, Zenon DEF KernelPage
    <3>4. \A i \in seen..vm_top-1 : i \in Page /\ i \notin Occupied(seen)
      BY <3>1 DEF Page, Occupied
    <3>5. ASSUME NEW i \in seen..vm_top-1
          PROVE  ~kernel_page_table[i].valid
      <4>1. kernel_page_table[i] = [valid |-> i \in Occupied(seen), pfn |-> i] /\ (i \in Occupied(seen)) = FALSE
        BY <3>2, <3>4
      <4>2. kernel_page_table[i] = [valid |-> FALSE, pfn |-> i]
        BY <4>1, Zenon
      <4> QED BY <4>2
    <3>6. vm_top..heap_top-1 = {}
      BY <3>1
    <3> QED BY <3>3, <3>5, <3>6
  <2>2. CASE Peopled
    <3>1. /\ HeapMapped /\ seen \in Nat /\ vm_top \in Nat /\ heap_top \in Nat
          /\ seen <= heap_top /\ heap_top <= PTLen - 3 /\ PTLen \in Nat
      <4>1. /\ HeapMapped /\ seen \in Nat /\ vm_top \in Nat /\ heap_top \in Nat
            /\ seen <= vm_top /\ vm_top <= heap_top /\ heap_top <= PTLen - 3
        BY <2>2, PeopledHeap
      <4> QED BY <4>1, Sizes
    <3>2. /\ \A i \in 0..seen-1 : i \in Page /\ i < seen
          /\ \A i \in vm_top..heap_top-1 : i \in Page /\ vm_top <= i /\ i < heap_top
      BY <3>1 DEF Page
    <3>3. phase # "idle"
      BY <2>2 DEF Peopled
    <3> QED BY <3>1, <3>2, <3>3 DEF HeapMapped
  <2> QED BY <2>1, <2>2 DEF BootInv, HeapNoted, Peopled
<1> QED BY <1>1, BootAlways, PTL

(* KernelStart always finds the frames it takes.  If it has seen the whole *)
(* boot heap it ends in the state that Memory starts from, whatever the    *)
(* size of that heap, the largest included; and if the heap has grown      *)
(* under virtual memory, still without a frame of two owners or one in use *)
(* that is marked free.                                                    *)
THEOREM StartsMemoryCorrect == BootSpec => []StartsMemory
<1>1. BootInv => StartsMemory
  <2> SUFFICES ASSUME BootInv
               PROVE  StartsMemory
    OBVIOUS
  <2>1. fault = "none"
    BY DEF BootInv, Untouched
  <2>2. phase = "idle" => HasFrames(Free, 1)
    <3> SUFFICES ASSUME phase = "idle" PROVE HasFrames(Free, 1)
      OBVIOUS
    <3>1. used = Occupied(seen) /\ seen \in Nat /\ seen <= PTLen - 3
      <4>1. /\ used = Occupied(seen) /\ KERNEL_BRK \in KernelPages..HeapMax
            /\ seen \in KernelPages..KERNEL_BRK
        BY DEF BootInv, TableDrawn, HeapNoted
      <4> QED BY <4>1, Sizes
    <3>2. used \subseteq Frame /\ Cardinality(used) = seen + 2
      BY <3>1, OccupiedSize
    <3>3. Cardinality(used) + 1 <= NFrames
      BY <3>1, <3>2, Sizes
    <3> QED BY <3>2, <3>3, Room
  <2>3. phase \in {"init", "clone"} => HasFrames(Free, 2)
    BY TwoTaken
  <2>4. ASSUME phase = "running", seen = vm_top
        PROVE  /\ SingleOwner /\ OwnedUsed /\ KernelLayout
               /\ heap_top = vm_top => \E k \in KernelPages..HeapMax : k = KERNEL_BRK /\ Started(k)!Init
    <3>1. AllSeen /\ SingleOwner /\ OwnedUsed /\ KernelLayout
      BY <2>4, SeenFacts, OwnersMean DEF AllSeen, Peopled
    <3>2. KERNEL_BRK \in KernelPages..HeapMax /\ heap_top = KERNEL_BRK
      BY <3>1, SeenFacts DEF BootInv, HeapNoted
    <3>3. \A k \in KernelPages..HeapMax : k = KERNEL_BRK /\ heap_top = vm_top => Started(k)!Init
      BY <2>4, EndsInInit
    <3> QED BY <3>1, <3>2, <3>3
  <2> QED BY <2>1, <2>2, <2>3, <2>4 DEF StartsMemory
<1> QED BY <1>1, BootAlways, PTL
=============================================================================
