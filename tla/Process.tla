------------------------------ MODULE Process ------------------------------
(***************************************************************************)
(* Processes and the scheduler of the Yalnix kernel: fork, exit, wait,     *)
(* getpid and delay, the fatal traps, the clock trap and                   *)
(* switch_to_next_ready_process.                                           *)
(*                                                                         *)
(* The kernel is entered only from user mode and never preempted, so a     *)
(* trap handler is one atomic step up to the point where it calls          *)
(* KernelContextSwitch.  What follows is the rest of the handler of the    *)
(* process switched TO: that is a second step, of the resume_* actions,    *)
(* taken in mode "kernel".  kernel_context[p] says at which call of        *)
(* KernelContextSwitch process p is suspended.                             *)
(*                                                                         *)
(* Processes are named by their pid: helper_new_pid never hands out a pid  *)
(* twice and search_pcb compares pids.                                     *)
(***************************************************************************)
EXTENDS Integers, Sequences, SequencesExt, Functions

CONSTANTS MaxPid,       \* bound on the pids handed out (the machine has 128)
          ExitCodes,    \* arguments of Exit a program may use
          TrapCodes,    \* exit codes of the fatal traps
          DelayTicks    \* arguments of Delay

ASSUME ProcessAssumption ==
  /\ MaxPid \in Nat /\ MaxPid >= 1
  /\ ExitCodes \subseteq Int /\ TrapCodes \subseteq Int /\ DelayTicks \subseteq Int

IDLE    == 0
INIT    == 1
NULL    == -1
ERROR   == -1
SUCCESS == 0
Pid     == 0..MaxPid
User    == 1..MaxPid
Code    == ExitCodes \cup TrapCodes \cup {SUCCESS}
Suspension == {"none", "boot", "fork", "switch", "wait"}

VARIABLES
  curr_pcb, ready_queue, blocked_queue, defunct_queue,
  next_pid,           \* what helper_new_pid returns next
  parent,             \* parent_pcb_p of every process
  children, deceased, \* the two queues of a pcb
  exit_code,
  freed,              \* processes whose queues and page table were freed
  kernel_context,     \* where each suspended process resumes
  mode,               \* "user", or "kernel" just after a context switch
  regs0,              \* register 0 as the last system call left it
  status,             \* what the process's last Wait wrote to *status_ptr
  machine             \* "running", "halted" by Halt, or "crashed"

queues == <<ready_queue, blocked_queue, defunct_queue>>
family == <<next_pid, parent, children, deceased, exit_code, freed>>
result == <<regs0, status>>
vars   == <<curr_pcb, queues, family, kernel_context, mode, result, machine>>

Exists(p)   == p < next_pid
Defunct(p)  == Contains(defunct_queue, p)
Blocked(p)  == Contains(blocked_queue, p)
UserMode    == machine = "running" /\ mode = "user"
Return(val) == regs0' = [regs0 EXCEPT ![curr_pcb] = val]

----------------------------------------------------------------------------
(* KernelStart, once idle has cloned itself into init: idle runs in user   *)
(* mode and init is ready, suspended in the KernelContextSwitch that       *)
(* cloned it.                                                              *)
Init ==
  /\ curr_pcb = IDLE
  /\ ready_queue = <<INIT>> /\ blocked_queue = <<>> /\ defunct_queue = <<>>
  /\ next_pid = INIT + 1
  /\ parent = [p \in Pid |-> NULL]
  /\ children = [p \in Pid |-> <<>>] /\ deceased = [p \in Pid |-> <<>>]
  /\ exit_code = [p \in Pid |-> SUCCESS]
  /\ freed = {}
  /\ kernel_context = [p \in Pid |-> IF p = INIT THEN "boot" ELSE "none"]
  /\ mode = "user"
  /\ regs0 = [p \in Pid |-> SUCCESS] /\ status = [p \in Pid |-> SUCCESS]
  /\ machine = "running"

----------------------------------------------------------------------------
(* Wrong: idle is queued too, the dead are, or the running process is put   *)
(* first.                                                                  *)
RequeuedEvenIdle(ready, blocked, defunct) ==
  IF ~Contains(blocked, curr_pcb) /\ ~Contains(defunct, curr_pcb)
  THEN Append(ready, curr_pcb) ELSE ready
RequeuedEvenDefunct(ready, blocked, defunct) ==
  IF curr_pcb # IDLE /\ ~Contains(blocked, curr_pcb) THEN Append(ready, curr_pcb) ELSE ready
RequeuedFirst(ready, blocked, defunct) ==
  IF curr_pcb # IDLE /\ ~Contains(blocked, curr_pcb) /\ ~Contains(defunct, curr_pcb)
  THEN <<curr_pcb>> \o ready ELSE ready

(* switch_to_next_ready_process, called with the queues in the state the   *)
(* calling handler leaves them in; `where' is the caller's place in the    *)
(* kernel.  Idle never enters the ready queue and is the default choice.   *)
Requeued(ready, blocked, defunct) ==
  IF curr_pcb # IDLE /\ ~Contains(blocked, curr_pcb) /\ ~Contains(defunct, curr_pcb)
  THEN Append(ready, curr_pcb) ELSE ready

switch_to_next_ready_process(ready, blocked, defunct, where) ==
  LET rq == Requeued(ready, blocked, defunct) IN
  /\ blocked_queue' = blocked
  /\ defunct_queue' = defunct
  /\ IF rq = <<>>
     THEN /\ ready_queue' = rq
          /\ curr_pcb' = IDLE
     ELSE /\ ready_queue' = Tail(rq)
          /\ curr_pcb' = Head(rq)
  /\ IF curr_pcb = IDLE /\ rq = <<>>
     THEN UNCHANGED <<kernel_context, mode>>
     ELSE /\ kernel_context' = [kernel_context EXCEPT ![curr_pcb] = where]
          /\ mode' = "kernel"

(* What a process does when KCSwitch returns to it. *)
Resume(where) ==
  /\ machine = "running" /\ mode = "kernel"
  /\ kernel_context[curr_pcb] = where
  /\ kernel_context' = [kernel_context EXCEPT ![curr_pcb] = "none"]
  /\ mode' = "user"
  /\ UNCHANGED <<curr_pcb, queues, machine>>

----------------------------------------------------------------------------
(* The clock trap: the running process gives up the processor.             *)
trap_clock_handler ==
  /\ UserMode
  /\ switch_to_next_ready_process(ready_queue, blocked_queue, defunct_queue, "switch")
  /\ UNCHANGED <<family, result, machine>>

(* Back from the switch of a clock trap or, were a defunct process ever    *)
(* scheduled again, of KernelExit: nothing is left to do.                  *)
resume_switch ==
  /\ Resume("switch")
  /\ UNCHANGED <<family, result>>

(* The rest of KernelStart in init: become a child of idle, load init.     *)
resume_boot ==
  /\ Resume("boot")
  /\ parent' = [parent EXCEPT ![curr_pcb] = IDLE]
  /\ children' = [children EXCEPT ![IDLE] = Append(@, curr_pcb)]
  /\ UNCHANGED <<next_pid, deceased, exit_code, freed, result>>

(* Fork, as the parent sees it: the child is queued before it is linked to *)
(* its parent, but cannot run before the parent leaves the kernel.  The    *)
(* child's registers and memory are copies of the parent's.                *)
KernelFork ==
  LET new == next_pid IN
  /\ UserMode /\ new \in Pid
  /\ next_pid' = new + 1
  /\ ready_queue' = Append(ready_queue, new)
  /\ kernel_context' = [kernel_context EXCEPT ![new] = "fork"]
  /\ children' = [children EXCEPT ![curr_pcb] = Append(@, new)]
  /\ parent' = [parent EXCEPT ![new] = curr_pcb]
  /\ regs0' = [regs0 EXCEPT ![curr_pcb] = new, ![new] = regs0[curr_pcb]]
  /\ status' = [status EXCEPT ![new] = status[curr_pcb]]
  /\ UNCHANGED <<curr_pcb, blocked_queue, defunct_queue, deceased, exit_code,
                 freed, mode, machine>>

(* Fork, as the child sees it: it runs as new_pcb and returns 0. *)
resume_fork ==
  /\ Resume("fork")
  /\ Return(SUCCESS)
  /\ UNCHANGED <<family, status>>

----------------------------------------------------------------------------
(* Wrong: the child is not reported, or stays among the living.            *)
BuryUnreported(dad) ==
  /\ children' = [children EXCEPT ![dad] = RemoveFirst(@, curr_pcb), ![curr_pcb] = <<>>]
  /\ deceased' = [deceased EXCEPT ![curr_pcb] = <<>>]
  /\ freed' = freed \cup {curr_pcb}
BuryAmongLiving(dad) ==
  /\ children' = [children EXCEPT ![curr_pcb] = <<>>]
  /\ deceased' = [deceased EXCEPT ![dad] = Append(@, curr_pcb), ![curr_pcb] = <<>>]
  /\ freed' = freed \cup {curr_pcb}

(* The queues of the parent of an exiting process: the child moves from    *)
(* children to deceased, and a parent that is blocked in Wait is readied.  *)
Bury(dad) ==
  /\ children' = [children EXCEPT ![dad] = RemoveFirst(@, curr_pcb), ![curr_pcb] = <<>>]
  /\ deceased' = [deceased EXCEPT ![dad] = Append(@, curr_pcb), ![curr_pcb] = <<>>]
  /\ freed' = freed \cup {curr_pcb}

(* Wrong: the readied parent goes first. *)
ReadiedFirst(dad) ==
  IF Contains(blocked_queue, dad) THEN <<dad>> \o ready_queue ELSE ready_queue
Readied(dad) ==
  IF Contains(blocked_queue, dad) THEN Append(ready_queue, dad) ELSE ready_queue

(* Wrong: a blocked parent is not woken, or whoever blocked first is. *)
ExitWithoutWakeup(dad, code) ==
  /\ exit_code' = [exit_code EXCEPT ![curr_pcb] = code]
  /\ Bury(dad)
  /\ switch_to_next_ready_process(ready_queue, blocked_queue,
                                  Append(defunct_queue, curr_pcb), "switch")
  /\ UNCHANGED <<next_pid, parent, machine>>
ExitWakesAnyone(dad, code) ==
  /\ exit_code' = [exit_code EXCEPT ![curr_pcb] = code]
  /\ Bury(dad)
  /\ IF blocked_queue = <<>>
     THEN switch_to_next_ready_process(ready_queue, <<>>,
                                       Append(defunct_queue, curr_pcb), "switch")
     ELSE switch_to_next_ready_process(Append(ready_queue, Head(blocked_queue)),
                                       Tail(blocked_queue),
                                       Append(defunct_queue, curr_pcb), "switch")
  /\ UNCHANGED <<next_pid, parent, machine>>

ExitToParent(dad, code) ==
  /\ exit_code' = [exit_code EXCEPT ![curr_pcb] = code]
  /\ Bury(dad)
  /\ switch_to_next_ready_process(Readied(dad), RemoveFirst(blocked_queue, dad),
                                  Append(defunct_queue, curr_pcb), "switch")
  /\ UNCHANGED <<next_pid, parent, machine>>

(* An orphan leaves no exit code, and nothing it owns is freed. *)
ExitOrphan ==
  /\ switch_to_next_ready_process(ready_queue, blocked_queue,
                                  Append(defunct_queue, curr_pcb), "switch")
  /\ UNCHANGED <<family, machine>>

(* Wrong: every parent is taken to be alive. *)
NeverOrphaned(p) == FALSE
Orphaned(p) == parent[p] # NULL /\ Defunct(parent[p])

(* KernelExit looks at its parent in the defunct queue only, and follows   *)
(* parent->children otherwise: a NULL or a freed parent would crash it.    *)
KernelExit(code) ==
  /\ UserMode
  /\ UNCHANGED result
  /\ LET dad == parent[curr_pcb] IN
     IF curr_pcb = IDLE \/ (~Orphaned(curr_pcb) /\ (dad = NULL \/ dad \in freed))
     THEN /\ machine' = IF curr_pcb = IDLE THEN "halted" ELSE "crashed"
          /\ UNCHANGED <<curr_pcb, queues, family, kernel_context, mode>>
     ELSE IF Orphaned(curr_pcb) THEN ExitOrphan ELSE ExitToParent(dad, code)

(* The illegal, math and memory traps that kill the process. *)
trap_fatal_handler == \E code \in TrapCodes : KernelExit(code)

----------------------------------------------------------------------------
(* The end of Wait: the oldest deceased child is reported and forgotten    *)
(* (wrongly: reported again and again).                                    *)
CollectForever ==
  IF deceased[curr_pcb] = <<>>
  THEN Return(ERROR) /\ UNCHANGED <<deceased, status>>
  ELSE LET child == Head(deceased[curr_pcb]) IN
       /\ UNCHANGED deceased
       /\ status' = [status EXCEPT ![curr_pcb] = exit_code[child]]
       /\ Return(child)
Collect ==
  IF deceased[curr_pcb] = <<>>
  THEN Return(ERROR) /\ UNCHANGED <<deceased, status>>
  ELSE LET child == Head(deceased[curr_pcb]) IN
       /\ deceased' = [deceased EXCEPT ![curr_pcb] = Tail(@)]
       /\ status' = [status EXCEPT ![curr_pcb] = exit_code[child]]
       /\ Return(child)

KernelWait ==
  /\ UserMode
  /\ UNCHANGED <<next_pid, parent, children, exit_code, freed, machine>>
  /\ \/ /\ children[curr_pcb] = <<>> \/ deceased[curr_pcb] # <<>>
        /\ Collect
        /\ UNCHANGED <<curr_pcb, queues, kernel_context, mode>>
     \/ /\ children[curr_pcb] # <<>> /\ deceased[curr_pcb] = <<>>
        /\ switch_to_next_ready_process(ready_queue, Append(blocked_queue, curr_pcb),
                                        defunct_queue, "wait")
        /\ UNCHANGED <<deceased, result>>

resume_wait ==
  /\ Resume("wait")
  /\ Collect
  /\ UNCHANGED <<next_pid, parent, children, exit_code, freed>>

----------------------------------------------------------------------------
KernelGetPid ==
  /\ UserMode
  /\ Return(curr_pcb)
  /\ UNCHANGED <<curr_pcb, queues, family, kernel_context, mode, status, machine>>

(* KernelDelay counts its argument down in a loop and returns. *)
KernelDelay(ticks) ==
  /\ UserMode
  /\ Return(IF ticks < 0 THEN ERROR ELSE SUCCESS)
  /\ UNCHANGED <<curr_pcb, queues, family, kernel_context, mode, status, machine>>

(* Idle executes DoIdle, which traps into the kernel on the clock only. *)
trap_kernel_handler ==
  /\ curr_pcb # IDLE
  /\ \/ KernelFork
     \/ \E code \in ExitCodes : KernelExit(code)
     \/ KernelWait
     \/ KernelGetPid
     \/ \E ticks \in DelayTicks : KernelDelay(ticks)

resume == resume_switch \/ resume_boot \/ resume_fork \/ resume_wait

Next ==
  \/ trap_kernel_handler
  \/ curr_pcb # IDLE /\ trap_fatal_handler
  \/ trap_clock_handler
  \/ resume

(* The clock keeps ticking and the kernel, once entered, runs on: nothing  *)
(* is assumed of the programs.                                             *)
Fairness == WF_vars(trap_clock_handler) /\ WF_vars(resume)

Spec == Init /\ [][Next]_vars /\ Fairness
----------------------------------------------------------------------------
TypeOK ==
  /\ curr_pcb \in Pid
  /\ ready_queue \in Seq(User) /\ blocked_queue \in Seq(User) /\ defunct_queue \in Seq(User)
  /\ next_pid \in 2..(MaxPid + 1)
  /\ parent \in [Pid -> Pid \cup {NULL}]
  /\ children \in [Pid -> Seq(User)] /\ deceased \in [Pid -> Seq(User)]
  /\ exit_code \in [Pid -> Code]
  /\ freed \subseteq User
  /\ kernel_context \in [Pid -> Suspension]
  /\ mode \in {"user", "kernel"}
  /\ regs0 \in [Pid -> Pid \cup {ERROR}]
  /\ status \in [Pid -> Code]
  /\ machine \in {"running", "halted", "crashed"}

(* Scheduler: every process that was created is running, or in exactly one *)
(* of the ready, blocked and defunct queues, in exactly one place; idle is *)
(* in none.  A process in two places would run twice or run after it       *)
(* exited, one in no place would never run again.                          *)
SchedulerPartition ==
  /\ IsInjective(ready_queue) /\ IsInjective(blocked_queue) /\ IsInjective(defunct_queue)
  /\ \A p \in User :
       LET ready == Contains(ready_queue, p) IN
       /\ p < next_pid <=> (p = curr_pcb \/ ready \/ Blocked(p) \/ Defunct(p))
       /\ ~(p = curr_pcb /\ ready) /\ ~(p = curr_pcb /\ Blocked(p)) /\ ~(p = curr_pcb /\ Defunct(p))
       /\ ~(ready /\ Blocked(p)) /\ ~(ready /\ Defunct(p)) /\ ~(Blocked(p) /\ Defunct(p))

(* No lost wakeup: a process blocked in Wait has no deceased child that it *)
(* overlooks, and has a living one that will wake it.                      *)
NoLostWakeup ==
  \A p \in User : Blocked(p) =>
    /\ deceased[p] = <<>>
    /\ \E c \in User : Exists(c) /\ ~Defunct(c) /\ parent[c] = p

(* A process woken from Wait finds a deceased child: the error branch of   *)
(* KernelWait after the switch is never taken.                             *)
WokenFindsChild ==
  \A p \in User : kernel_context[p] = "wait" /\ ~Blocked(p) => deceased[p] # <<>>

(* KernelExit never follows a NULL parent or the queues of a parent that   *)
(* were freed, although it tests only the defunct queue.                   *)
NoBadParent == machine # "crashed"

(* The queues of a living process name its children: a living child is in  *)
(* children once, a deceased one, once, in deceased until collected.       *)
FamilyConsistent ==
  \A p \in Pid : ~Defunct(p) =>
    /\ IsInjective(children[p]) /\ IsInjective(deceased[p])
    /\ \A c \in User :
         /\ Contains(children[p], c) <=> (parent[c] = p /\ Exists(c) /\ ~Defunct(c))
         /\ Contains(deceased[p], c) => (parent[c] = p /\ Defunct(c))

(* Idle runs, and finds nothing ready, only when every process is defunct: *)
(* processes never end up all waiting for one another.                     *)
IdleOnlyAtTheEnd ==
  curr_pcb = IDLE /\ ready_queue = <<>> => \A p \in User : Exists(p) => Defunct(p)

(* Only the exit of one of its own children takes a process out of the     *)
(* blocked queue.                                                          *)
OnlyChildWakes ==
  [][\A p \in User : Blocked(p) /\ ~Blocked(p)' =>
       \E c \in User : parent[c] = p /\ ~Defunct(c) /\ Defunct(c)']_vars

(* Round robin: a step takes at most the head out of the ready queue, to   *)
(* run it, and whoever enters, a readied parent or a new child included,   *)
(* enters behind all who stand in it; if the processor changes hands while *)
(* somebody is ready, the head of the queue gets it.                       *)
NeverOvertaken ==
  [][/\ \/ IsPrefix(ready_queue, ready_queue')
        \/ /\ ready_queue # <<>> /\ curr_pcb' = Head(ready_queue)
           /\ IsPrefix(Tail(ready_queue), ready_queue')
     /\ curr_pcb' # curr_pcb /\ ready_queue # <<>> => curr_pcb' = Head(ready_queue)]_vars

(* Every ready process runs: the clock takes the processor from whoever    *)
(* has it.                                                                 *)
ReadyRuns ==
  \A p \in User : Contains(ready_queue, p) ~> (curr_pcb = p /\ mode = "user")

(* fork, exit and wait keep the promises of ProcessTree: the state of a    *)
(* process is read off the queues it is in, its zombies are its deceased   *)
(* queue, and it is a zombie while its parent, alive, still holds it.      *)
Tree == INSTANCE ProcessTree WITH
  Process <- Pid, Root <- IDLE, Codes <- Code, Error <- ERROR, NoCode <- SUCCESS,
  state <- [p \in Pid |->
    IF ~Exists(p) THEN "unborn"
    ELSE IF Defunct(p) THEN IF ~Orphaned(p) /\ Contains(deceased[parent[p]], p) THEN "zombie" ELSE "gone"
    ELSE IF kernel_context[p] = "wait" THEN "waiting" ELSE "live"],
  parentOf <- [p \in Pid |-> IF p = INIT THEN IDLE ELSE parent[p]],
  zombies <- [p \in Pid |-> IF Defunct(p) THEN <<>> ELSE deceased[p]],
  code <- exit_code,
  answer <- [p \in Pid |->
    <<IF kernel_context[p] = "fork" THEN SUCCESS ELSE regs0[p], status[p]>>]

ImplementsTree == Tree!TreeSpec
=============================================================================
