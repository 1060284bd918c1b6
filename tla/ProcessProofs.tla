--------------------------- MODULE ProcessProofs ---------------------------
(***************************************************************************)
(* Proofs about Process for any number of processes and any exit codes.    *)
(* The queues of the kernel hold every process that exists once, and none  *)
(* that is ready waits forever.  The queues of a pcb agree with the tree   *)
(* of processes, the kernel never follows a parent that is not there, a    *)
(* process blocked in Wait is woken by one of its own children and finds   *)
(* it, processes never end up all waiting for one another, and Process     *)
(* implements ProcessTree.                                                 *)
(***************************************************************************)
EXTENDS Process, QueueTheorems

(* Idle never suspends inside fork, wait or the boot sequence. *)
IdleContext == kernel_context[IDLE] \in {"none", "switch"}

(* TypeOK alone is not inductive: resume_boot would make idle its own child. *)
TypeInv == TypeOK /\ IdleContext

----------------------------------------------------------------------------
(* Types.                                                                  *)

(* The scheduler returns queues of processes, whatever queues it is given. *)
LEMMA SwitchTypes ==
  ASSUME TypeInv,
         NEW STATE ready, ready \in Seq(User),
         NEW STATE blocked, blocked \in Seq(User),
         NEW STATE defunct, defunct \in Seq(User),
         NEW where \in Suspension,
         curr_pcb = IDLE => where = "switch",
         switch_to_next_ready_process(ready, blocked, defunct, where)
  PROVE  /\ curr_pcb' \in Pid
         /\ ready_queue' \in Seq(User) /\ blocked_queue' \in Seq(User)
         /\ defunct_queue' \in Seq(User)
         /\ kernel_context' \in [Pid -> Suspension] /\ IdleContext'
         /\ mode' \in {"user", "kernel"}
<1> DEFINE rq == Requeued(ready, blocked, defunct)
<1>1. IDLE \in Pid /\ User \subseteq Pid /\ curr_pcb \in Pid
  BY ProcessAssumption DEF TypeInv, TypeOK, IDLE, Pid, User
<1>2. rq \in Seq(User)
  <2>1. CASE curr_pcb # IDLE
    <3>1. curr_pcb \in User
      BY <1>1, <2>1 DEF IDLE, Pid, User
    <3>2. Append(ready, curr_pcb) \in Seq(User)
      BY <3>1, QputLemma
    <3> QED BY <3>2 DEF Requeued
  <2>2. CASE curr_pcb = IDLE
    BY <2>2 DEF Requeued
  <2> QED BY <2>1, <2>2
<1> HIDE DEF rq
<1>3. /\ blocked_queue' = blocked /\ defunct_queue' = defunct
      /\ rq = <<>> => ready_queue' = rq /\ curr_pcb' = IDLE
      /\ rq # <<>> => ready_queue' = Tail(rq) /\ curr_pcb' = Head(rq)
      /\ \/ UNCHANGED <<kernel_context, mode>>
         \/ /\ kernel_context' = [kernel_context EXCEPT ![curr_pcb] = where]
            /\ mode' = "kernel"
  BY DEF switch_to_next_ready_process, rq
<1>4. curr_pcb' \in Pid /\ ready_queue' \in Seq(User)
  <2>1. rq # <<>> => Head(rq) \in User /\ Tail(rq) \in Seq(User)
    BY <1>2, QgetLemma
  <2> QED BY <1>1, <1>2, <1>3, <2>1
<1>5. kernel_context' \in [Pid -> Suspension] /\ mode' \in {"user", "kernel"} /\ IdleContext'
  BY <1>1, <1>3 DEF TypeInv, TypeOK, IdleContext
<1> QED BY <1>3, <1>4, <1>5

(* Every step of the kernel preserves the types. *)
LEMMA TypeStep == TypeInv /\ [Next]_vars => TypeInv'
<1> SUFFICES ASSUME TypeInv, [Next]_vars
             PROVE  TypeInv'
  OBVIOUS
<1> USE DEF UserMode
<1>0. /\ IDLE \in Pid /\ INIT \in Pid /\ User \subseteq Pid /\ curr_pcb \in Pid
      /\ curr_pcb # IDLE => curr_pcb \in User
      /\ SUCCESS \in Code /\ SUCCESS \in Pid
  BY ProcessAssumption DEF TypeInv, TypeOK, IDLE, INIT, Pid, User, SUCCESS, Code
<1>1. CASE trap_clock_handler
  <2>1. UNCHANGED <<family, result, machine>>
    BY <1>1 DEF trap_clock_handler
  <2>2. switch_to_next_ready_process(ready_queue, blocked_queue, defunct_queue, "switch")
    BY <1>1 DEF trap_clock_handler
  <2>3. "switch" \in Suspension
    BY DEF Suspension
  <2>4. ready_queue \in Seq(User) /\ blocked_queue \in Seq(User) /\ defunct_queue \in Seq(User)
    BY DEF TypeInv, TypeOK
  <2>5. /\ curr_pcb' \in Pid
        /\ ready_queue' \in Seq(User) /\ blocked_queue' \in Seq(User)
        /\ defunct_queue' \in Seq(User)
        /\ kernel_context' \in [Pid -> Suspension] /\ IdleContext'
        /\ mode' \in {"user", "kernel"}
    BY <2>2, <2>3, <2>4, SwitchTypes
  <2> QED BY <2>1, <2>5 DEF TypeInv, TypeOK, family, result
<1>2. ASSUME NEW where \in Suspension, Resume(where)
      PROVE  /\ UNCHANGED <<curr_pcb, ready_queue, blocked_queue, defunct_queue, machine>>
             /\ kernel_context' \in [Pid -> Suspension] /\ mode' = "user" /\ IdleContext'
             /\ kernel_context[curr_pcb] = where
  BY <1>0, <1>2 DEF Resume, TypeInv, TypeOK, IdleContext, queues, Suspension
<1>3. CASE resume_switch
  BY <1>2, <1>3 DEF resume_switch, Suspension, TypeInv, TypeOK, family, result
<1>4. CASE resume_boot
  <2>1. Resume("boot") /\ "boot" \in Suspension
    BY <1>4 DEF resume_boot, Suspension
  <2>2. curr_pcb # IDLE
    BY <1>2, <2>1 DEF TypeInv, IdleContext
  <2>3. children[IDLE] \in Seq(User) /\ curr_pcb \in User
    BY <1>0, <2>2 DEF TypeInv, TypeOK
  <2>4. Append(children[IDLE], curr_pcb) \in Seq(User)
    BY <2>3, QputLemma
  <2> QED BY <1>0, <1>2, <1>4, <2>1, <2>4 DEF resume_boot, TypeInv, TypeOK, result
<1>5. CASE resume_fork
  <2>1. Resume("fork") /\ "fork" \in Suspension
    BY <1>5 DEF resume_fork, Suspension
  <2> QED BY <1>0, <1>2, <1>5, <2>1 DEF resume_fork, TypeInv, TypeOK, family, Return
<1>6. ASSUME Collect
      PROVE  /\ deceased' \in [Pid -> Seq(User)]
             /\ regs0' \in [Pid -> Pid \cup {ERROR}] /\ status' \in [Pid -> Code]
  <2>1. CASE deceased[curr_pcb] = <<>>
    BY <1>0, <1>6, <2>1 DEF Collect, Return, TypeInv, TypeOK
  <2>2. CASE deceased[curr_pcb] # <<>>
    <3>1. deceased[curr_pcb] \in Seq(User)
      BY <1>0 DEF TypeInv, TypeOK
    <3>2. Head(deceased[curr_pcb]) \in User /\ Tail(deceased[curr_pcb]) \in Seq(User)
      BY <2>2, <3>1, QgetLemma
    <3> QED BY <1>0, <1>6, <2>2, <3>2, ZenonT(40) DEF Collect, Return, TypeInv, TypeOK
  <2> QED BY <2>1, <2>2
<1>7. CASE resume_wait
  <2>1. Resume("wait") /\ "wait" \in Suspension
    BY <1>7 DEF resume_wait, Suspension
  <2> QED BY <1>2, <1>6, <1>7, <2>1 DEF resume_wait, TypeInv, TypeOK
<1>8. CASE curr_pcb # IDLE /\ KernelFork
  <2>1. next_pid \in User /\ next_pid \in Pid /\ next_pid + 1 \in 2..(MaxPid + 1)
    BY <1>8, ProcessAssumption DEF KernelFork, TypeInv, TypeOK, User, Pid
  <2>2. Append(ready_queue, next_pid) \in Seq(User)
    BY <2>1, QputLemma DEF TypeInv, TypeOK
  <2>3. children[curr_pcb] \in Seq(User)
    BY <1>0 DEF TypeInv, TypeOK
  <2>4. Append(children[curr_pcb], next_pid) \in Seq(User)
    BY <2>1, <2>3, QputLemma
  <2>5. IDLE # next_pid
    BY <2>1 DEF IDLE, User
  <2> QED BY <1>0, <1>8, <2>1, <2>2, <2>4, <2>5
          DEF KernelFork, TypeInv, TypeOK, IdleContext, Suspension
<1>9. ASSUME NEW code \in Code, curr_pcb # IDLE, KernelExit(code)
      PROVE  TypeInv'
  <2> DEFINE dad == parent[curr_pcb]
  <2>0. curr_pcb \in User /\ "switch" \in Suspension
    BY <1>0, <1>9 DEF Suspension
  <2>1. Append(defunct_queue, curr_pcb) \in Seq(User)
    BY <2>0, QputLemma DEF TypeInv, TypeOK
  <2>2. CASE machine' = "crashed" /\ UNCHANGED <<curr_pcb, queues, family, kernel_context, mode>>
    BY <1>9, <2>2 DEF KernelExit, TypeInv, TypeOK, IdleContext, queues, family, result
  <2>3. CASE ExitOrphan
    <3>1. switch_to_next_ready_process(ready_queue, blocked_queue,
                                       Append(defunct_queue, curr_pcb), "switch")
      BY <2>3 DEF ExitOrphan
    <3>2. /\ curr_pcb' \in Pid
          /\ ready_queue' \in Seq(User) /\ blocked_queue' \in Seq(User)
          /\ defunct_queue' \in Seq(User)
          /\ kernel_context' \in [Pid -> Suspension] /\ IdleContext'
          /\ mode' \in {"user", "kernel"}
      BY <2>0, <2>1, <3>1, SwitchTypes DEF TypeInv, TypeOK
    <3> QED BY <1>9, <2>3, <3>2 DEF KernelExit, ExitOrphan, TypeInv, TypeOK, family, result
  <2>4. CASE dad # NULL /\ ExitToParent(dad, code)
    <3>1. dad \in Pid
      BY <1>0, <2>4 DEF TypeInv, TypeOK
    <3>2. Readied(dad) \in Seq(User)
      <4>1. CASE Contains(blocked_queue, dad)
        <5>1. dad \in User
          BY <4>1, ElementOfSeq DEF Contains, TypeInv, TypeOK
        <5>2. Append(ready_queue, dad) \in Seq(User)
          BY <5>1, QputLemma DEF TypeInv, TypeOK
        <5> QED BY <4>1, <5>2 DEF Readied
      <4>2. CASE ~Contains(blocked_queue, dad)
        BY <4>2 DEF Readied, TypeInv, TypeOK
      <4> QED BY <4>1, <4>2
    <3>3. RemoveFirst(blocked_queue, dad) \in Seq(User)
      BY QremoveLemma DEF TypeInv, TypeOK
    <3>4. switch_to_next_ready_process(Readied(dad), RemoveFirst(blocked_queue, dad),
                                       Append(defunct_queue, curr_pcb), "switch")
      BY <2>4 DEF ExitToParent
    <3>5. /\ curr_pcb' \in Pid
          /\ ready_queue' \in Seq(User) /\ blocked_queue' \in Seq(User)
          /\ defunct_queue' \in Seq(User)
          /\ kernel_context' \in [Pid -> Suspension] /\ IdleContext'
          /\ mode' \in {"user", "kernel"}
      BY <2>0, <2>1, <3>2, <3>3, <3>4, SwitchTypes
    <3>6. /\ RemoveFirst(children[dad], curr_pcb) \in Seq(User)
          /\ Append(deceased[dad], curr_pcb) \in Seq(User)
          /\ <<>> \in Seq(User)
      <4>1. children[dad] \in Seq(User) /\ deceased[dad] \in Seq(User)
        BY <3>1 DEF TypeInv, TypeOK
      <4> QED BY <2>0, <4>1, QputLemma, QremoveLemma, EmptySeq
    <3>7. children' \in [Pid -> Seq(User)] /\ deceased' \in [Pid -> Seq(User)]
      BY <1>0, <2>4, <3>6 DEF ExitToParent, Bury, TypeInv, TypeOK
    <3>8. freed' \subseteq User /\ exit_code' \in [Pid -> Code]
      BY <1>0, <2>0, <2>4 DEF ExitToParent, Bury, TypeInv, TypeOK
    <3> QED BY <1>9, <2>4, <3>5, <3>7, <3>8
            DEF KernelExit, ExitToParent, TypeInv, TypeOK, result
  <2> QED BY <1>9, <2>2, <2>3, <2>4 DEF KernelExit
<1>10. CASE curr_pcb # IDLE /\ KernelWait
  <2>1. CASE Collect /\ UNCHANGED <<curr_pcb, queues, kernel_context, mode>>
    BY <1>6, <1>10, <2>1 DEF KernelWait, TypeInv, TypeOK, IdleContext, queues
  <2>2. CASE /\ switch_to_next_ready_process(ready_queue, Append(blocked_queue, curr_pcb),
                                             defunct_queue, "wait")
             /\ UNCHANGED <<deceased, result>>
    <3>1. "wait" \in Suspension /\ curr_pcb \in User
      BY <1>0, <1>10 DEF Suspension
    <3>2. Append(blocked_queue, curr_pcb) \in Seq(User)
      BY <3>1, QputLemma DEF TypeInv, TypeOK
    <3>3. /\ curr_pcb' \in Pid
          /\ ready_queue' \in Seq(User) /\ blocked_queue' \in Seq(User)
          /\ defunct_queue' \in Seq(User)
          /\ kernel_context' \in [Pid -> Suspension] /\ IdleContext'
          /\ mode' \in {"user", "kernel"}
      BY <1>10, <2>2, <3>1, <3>2, SwitchTypes DEF TypeInv, TypeOK
    <3> QED BY <1>10, <2>2, <3>3 DEF KernelWait, TypeInv, TypeOK, result
  <2> QED BY <1>10, <2>1, <2>2 DEF KernelWait
<1>11. ASSUME KernelGetPid \/ \E ticks \in DelayTicks : KernelDelay(ticks)
       PROVE  TypeInv'
  <2>1. \E val \in Pid \cup {ERROR} : Return(val)
    BY <1>0, <1>11 DEF KernelGetPid, KernelDelay
  <2>2. regs0' \in [Pid -> Pid \cup {ERROR}]
    BY <2>1 DEF Return, TypeInv, TypeOK
  <2>3. UNCHANGED <<curr_pcb, queues, family, kernel_context, mode, status, machine>>
    BY <1>11 DEF KernelGetPid, KernelDelay
  <2> QED BY <2>2, <2>3 DEF TypeInv, TypeOK, IdleContext, queues, family
<1>12. CASE UNCHANGED vars
  BY <1>12 DEF vars, queues, family, result, TypeInv, TypeOK, IdleContext
<1>13. ExitCodes \subseteq Code /\ TrapCodes \subseteq Code
  BY DEF Code
<1>14. CASE trap_kernel_handler
  BY <1>8, <1>9, <1>10, <1>11, <1>13, <1>14 DEF trap_kernel_handler
<1>15. CASE curr_pcb # IDLE /\ trap_fatal_handler
  BY <1>9, <1>13, <1>15 DEF trap_fatal_handler
<1>16. CASE resume
  BY <1>3, <1>4, <1>5, <1>7, <1>16 DEF resume
<1> QED BY <1>1, <1>12, <1>14, <1>15, <1>16 DEF Next

(* After boot the types are right. *)
LEMMA TypeInit == Init => TypeInv
<1> SUFFICES ASSUME Init
             PROVE  TypeInv
  OBVIOUS
<1>1. /\ IDLE \in Pid /\ INIT \in User /\ SUCCESS \in Code /\ SUCCESS \in Pid
      /\ INIT + 1 \in 2..(MaxPid + 1) /\ IDLE # INIT
  BY ProcessAssumption DEF IDLE, INIT, Pid, User, SUCCESS, Code
<1>2. <<>> \in Seq(User) /\ <<INIT>> \in Seq(User)
  BY <1>1
<1> QED BY <1>1, <1>2 DEF Init, TypeInv, TypeOK, IdleContext, Suspension

(* Every variable keeps its type, for any number of processes. *)
THEOREM TypeCorrect == Spec => []TypeOK
<1>1. TypeInv => TypeOK
  BY DEF TypeInv
<1> QED BY <1>1, TypeInit, TypeStep, PTL DEF Spec

----------------------------------------------------------------------------
(* The scheduler.                                                          *)

(* If the caller leaves every process but the running one in exactly one   *)
(* queue, and the running one in none, in blocked or in defunct, then the  *)
(* switch puts every process in exactly one place.                         *)
LEMMA SwitchPartition ==
  ASSUME TypeInv,
         NEW STATE ready, ready \in Seq(User), IsInjective(ready),
         NEW STATE blocked, blocked \in Seq(User), IsInjective(blocked),
         NEW STATE defunct, defunct \in Seq(User), IsInjective(defunct),
         NEW where,
         ~Contains(ready, curr_pcb),
         \A p \in User :
           /\ p < next_pid <=> (p = curr_pcb \/ Contains(ready, p)
                                  \/ Contains(blocked, p) \/ Contains(defunct, p))
           /\ ~(Contains(ready, p) /\ Contains(blocked, p))
           /\ ~(Contains(ready, p) /\ Contains(defunct, p))
           /\ ~(Contains(blocked, p) /\ Contains(defunct, p)),
         switch_to_next_ready_process(ready, blocked, defunct, where),
         next_pid' = next_pid
  PROVE  SchedulerPartition'
<1> DEFINE rq == Requeued(ready, blocked, defunct)
           back == curr_pcb # IDLE /\ ~Contains(blocked, curr_pcb) /\ ~Contains(defunct, curr_pcb)
<1>1. curr_pcb # IDLE => curr_pcb \in User
  BY DEF TypeInv, TypeOK, IDLE, Pid, User
<1>2. IDLE \notin User
  BY DEF IDLE, User
<1>3. /\ rq \in Seq(User) /\ IsInjective(rq)
      /\ \A p : Contains(rq, p) <=> Contains(ready, p) \/ (back /\ p = curr_pcb)
  <2>1. CASE back
    <3>1. rq = Append(ready, curr_pcb) /\ curr_pcb \in User
      BY <1>1, <2>1 DEF Requeued
    <3> QED BY <2>1, <3>1, QputLemma
  <2>2. CASE ~back
    <3>1. rq = ready
      BY <2>2 DEF Requeued
    <3> QED BY <2>2, <3>1
  <2> QED BY <2>1, <2>2
<1> HIDE DEF rq
<1>4. /\ blocked_queue' = blocked /\ defunct_queue' = defunct
      /\ rq = <<>> => ready_queue' = rq /\ curr_pcb' = IDLE
      /\ rq # <<>> => ready_queue' = Tail(rq) /\ curr_pcb' = Head(rq)
  BY DEF switch_to_next_ready_process, rq
<1>5. \A p \in User : p < next_pid <=> Contains(rq, p) \/ Contains(blocked, p) \/ Contains(defunct, p)
  BY <1>2, <1>3
<1>6. \A p \in User : ~(Contains(rq, p) /\ Contains(blocked, p))
                      /\ ~(Contains(rq, p) /\ Contains(defunct, p))
  BY <1>3
<1>7. CASE rq = <<>>
  <2>1. \A p : ~Contains(rq, p)
    BY <1>7 DEF Contains
  <2> QED BY <1>2, <1>3, <1>4, <1>5, <1>6, <1>7, <2>1
          DEF SchedulerPartition, Blocked, Defunct
<1>8. CASE rq # <<>>
  <2>1. /\ Contains(rq, Head(rq)) /\ IsInjective(Tail(rq)) /\ ~Contains(Tail(rq), Head(rq))
        /\ \A p : Contains(rq, p) <=> Contains(Tail(rq), p) \/ p = Head(rq)
        /\ Head(rq) \in User
    BY <1>3, <1>8, QgetLemma
  <2> QED BY <1>4, <1>5, <1>6, <1>8, <2>1 DEF SchedulerPartition, Blocked, Defunct
<1> QED BY <1>7, <1>8

SchedulerInv == TypeInv /\ SchedulerPartition

(* Every step of the kernel leaves every process in exactly one place. *)
LEMMA SchedulerStep == SchedulerInv /\ [Next]_vars => SchedulerInv'
<1> SUFFICES ASSUME SchedulerInv, [Next]_vars
             PROVE  SchedulerPartition'
  BY TypeStep DEF SchedulerInv
<1>0. /\ TypeInv /\ SchedulerPartition
      /\ ready_queue \in Seq(User) /\ IsInjective(ready_queue)
      /\ blocked_queue \in Seq(User) /\ IsInjective(blocked_queue)
      /\ defunct_queue \in Seq(User) /\ IsInjective(defunct_queue)
      /\ curr_pcb # IDLE => curr_pcb \in User
      /\ IDLE \notin User
      /\ next_pid \in Nat
  BY ProcessAssumption DEF SchedulerInv, SchedulerPartition, TypeInv, TypeOK, IDLE, Pid, User
<1>1. \A p \in User :
        /\ p < next_pid <=> (p = curr_pcb \/ Contains(ready_queue, p)
                               \/ Contains(blocked_queue, p) \/ Contains(defunct_queue, p))
        /\ ~(p = curr_pcb /\ Contains(ready_queue, p))
        /\ ~(p = curr_pcb /\ Contains(blocked_queue, p))
        /\ ~(p = curr_pcb /\ Contains(defunct_queue, p))
        /\ ~(Contains(ready_queue, p) /\ Contains(blocked_queue, p))
        /\ ~(Contains(ready_queue, p) /\ Contains(defunct_queue, p))
        /\ ~(Contains(blocked_queue, p) /\ Contains(defunct_queue, p))
  BY <1>0 DEF SchedulerPartition, Blocked, Defunct
<1>2. /\ ~Contains(ready_queue, curr_pcb)
      /\ ~Contains(blocked_queue, curr_pcb)
      /\ ~Contains(defunct_queue, curr_pcb)
  <2>1. CASE curr_pcb = IDLE
    BY <1>0, <2>1, ElementOfSeq DEF Contains
  <2>2. CASE curr_pcb # IDLE
    BY <1>0, <1>1, <2>2
  <2> QED BY <2>1, <2>2
<1>3. ASSUME UNCHANGED <<curr_pcb, queues>>, next_pid' = next_pid
      PROVE  SchedulerPartition'
  BY <1>0, <1>3 DEF SchedulerPartition, Blocked, Defunct, queues
<1>4. CASE trap_clock_handler
  <2>1. /\ switch_to_next_ready_process(ready_queue, blocked_queue, defunct_queue, "switch")
        /\ next_pid' = next_pid
    BY <1>4 DEF trap_clock_handler, family
  <2> QED BY <1>0, <1>1, <1>2, <2>1, SwitchPartition
<1>5. CASE resume
  BY <1>3, <1>5 DEF resume, resume_switch, resume_boot, resume_fork, resume_wait, Resume, family
<1>6. CASE curr_pcb # IDLE /\ KernelFork
  <2>1. /\ next_pid \in User /\ next_pid' = next_pid + 1 /\ curr_pcb' = curr_pcb
        /\ ready_queue' = Append(ready_queue, next_pid)
        /\ blocked_queue' = blocked_queue /\ defunct_queue' = defunct_queue
    BY <1>6, <1>0, ProcessAssumption DEF KernelFork, TypeInv, TypeOK, Pid, User
  <2>2. ~(next_pid < next_pid)
    BY <1>0
  <2>3. ~Contains(ready_queue, next_pid) /\ ~Contains(blocked_queue, next_pid)
        /\ ~Contains(defunct_queue, next_pid) /\ next_pid # curr_pcb
    BY <1>1, <2>1, <2>2
  <2>4. /\ IsInjective(ready_queue')
        /\ \A p : Contains(ready_queue', p) <=> Contains(ready_queue, p) \/ p = next_pid
    BY <1>0, <2>1, <2>3, QputLemma
  <2>5. \A p \in User : p < next_pid' <=> p < next_pid \/ p = next_pid
    BY <1>0, <2>1 DEF User
  <2> QED BY <1>0, <1>1, <2>1, <2>3, <2>4, <2>5 DEF SchedulerPartition, Blocked, Defunct
<1>7. ASSUME NEW code, curr_pcb # IDLE, KernelExit(code)
      PROVE  SchedulerPartition'
  <2> DEFINE dad == parent[curr_pcb]
             dead == Append(defunct_queue, curr_pcb)
  <2>0. curr_pcb \in User
    BY <1>0, <1>7
  <2>1. /\ dead \in Seq(User) /\ IsInjective(dead)
        /\ \A p : Contains(dead, p) <=> Contains(defunct_queue, p) \/ p = curr_pcb
    BY <1>0, <1>2, <2>0, QputLemma
  <2> HIDE DEF dead
  <2>2. CASE UNCHANGED <<curr_pcb, queues, family, kernel_context, mode>>
    BY <1>3, <2>2 DEF family
  <2>3. CASE ExitOrphan
    <3>1. /\ switch_to_next_ready_process(ready_queue, blocked_queue, dead, "switch")
          /\ next_pid' = next_pid
      BY <2>3 DEF ExitOrphan, family, dead
    <3> QED BY <1>0, <1>1, <1>2, <2>1, <3>1, SwitchPartition
  <2>4. CASE ExitToParent(dad, code)
    <3> DEFINE rdy == Readied(dad)
               blk == RemoveFirst(blocked_queue, dad)
    <3>1. /\ switch_to_next_ready_process(rdy, blk, dead, "switch")
          /\ next_pid' = next_pid
      BY <2>4 DEF ExitToParent, dead
    <3>2. /\ blk \in Seq(User) /\ IsInjective(blk)
          /\ \A p : Contains(blk, p) <=> Contains(blocked_queue, p) /\ p # dad
      BY <1>0, QremoveLemma
    <3>3. /\ rdy \in Seq(User) /\ IsInjective(rdy)
          /\ \A p : Contains(rdy, p) <=>
                 Contains(ready_queue, p) \/ (Contains(blocked_queue, dad) /\ p = dad)
      <4>1. CASE Contains(blocked_queue, dad)
        <5>1. dad \in User
          BY <1>0, <4>1, ElementOfSeq DEF Contains
        <5>2. ~Contains(ready_queue, dad)
          BY <1>1, <4>1, <5>1
        <5>3. rdy = Append(ready_queue, dad)
          BY <4>1 DEF Readied
        <5> QED BY <1>0, <4>1, <5>1, <5>2, <5>3, QputLemma
      <4>2. CASE ~Contains(blocked_queue, dad)
        BY <1>0, <4>2 DEF Readied
      <4> QED BY <4>1, <4>2
    <3> HIDE DEF rdy, blk
    <3>4. ~Contains(rdy, curr_pcb)
      BY <1>2, <3>3
    <3>5. \A p \in User :
            /\ p < next_pid <=> (p = curr_pcb \/ Contains(rdy, p)
                                   \/ Contains(blk, p) \/ Contains(dead, p))
            /\ ~(Contains(rdy, p) /\ Contains(blk, p))
            /\ ~(Contains(rdy, p) /\ Contains(dead, p))
            /\ ~(Contains(blk, p) /\ Contains(dead, p))
      BY <1>1, <1>2, <2>1, <3>2, <3>3
    <3> QED BY <1>0, <2>1, <3>1, <3>2, <3>3, <3>4, <3>5, SwitchPartition
  <2> QED BY <1>7, <2>2, <2>3, <2>4 DEF KernelExit
<1>8. CASE curr_pcb # IDLE /\ KernelWait
  <2>1. CASE UNCHANGED <<curr_pcb, queues, kernel_context, mode>>
    BY <1>3, <1>8, <2>1 DEF KernelWait
  <2>2. CASE switch_to_next_ready_process(ready_queue, Append(blocked_queue, curr_pcb),
                                          defunct_queue, "wait")
    <3> DEFINE blk == Append(blocked_queue, curr_pcb)
    <3>1. /\ blk \in Seq(User) /\ IsInjective(blk)
          /\ \A p : Contains(blk, p) <=> Contains(blocked_queue, p) \/ p = curr_pcb
      BY <1>0, <1>2, <1>8, QputLemma
    <3> HIDE DEF blk
    <3>2. switch_to_next_ready_process(ready_queue, blk, defunct_queue, "wait")
      BY <2>2 DEF blk
    <3>3. next_pid' = next_pid
      BY <1>8 DEF KernelWait
    <3>4. \A p \in User :
            /\ p < next_pid <=> (p = curr_pcb \/ Contains(ready_queue, p)
                                   \/ Contains(blk, p) \/ Contains(defunct_queue, p))
            /\ ~(Contains(ready_queue, p) /\ Contains(blk, p))
            /\ ~(Contains(ready_queue, p) /\ Contains(defunct_queue, p))
            /\ ~(Contains(blk, p) /\ Contains(defunct_queue, p))
      BY <1>1, <1>2, <3>1
    <3> QED BY <1>0, <1>2, <3>1, <3>2, <3>3, <3>4, SwitchPartition
  <2> QED BY <1>8, <2>1, <2>2 DEF KernelWait
<1>9. CASE KernelGetPid \/ \E ticks \in DelayTicks : KernelDelay(ticks)
  BY <1>3, <1>9 DEF KernelGetPid, KernelDelay, family
<1>10. CASE UNCHANGED vars
  BY <1>3, <1>10 DEF vars, family
<1>11. CASE trap_kernel_handler
  BY <1>6, <1>7, <1>8, <1>9, <1>11 DEF trap_kernel_handler
<1>12. CASE curr_pcb # IDLE /\ trap_fatal_handler
  BY <1>7, <1>12 DEF trap_fatal_handler
<1> QED BY <1>4, <1>5, <1>10, <1>11, <1>12 DEF Next

(* After boot idle runs and init, the only other process, is ready. *)
LEMMA SchedulerInit == Init => SchedulerInv
<1> SUFFICES ASSUME Init
             PROVE  SchedulerPartition
  BY TypeInit DEF SchedulerInv
<1>1. \A x : (Contains(<<INIT>>, x) <=> x = INIT) /\ ~Contains(<<>>, x)
  BY DEF Contains
<1>2. IsInjective(<<INIT>>) /\ IsInjective(<<>>)
  BY DEF IsInjective
<1>3. \A p \in User : (p < INIT + 1 <=> p = INIT) /\ p # IDLE
  BY DEF User, INIT, IDLE
<1> QED BY <1>1, <1>2, <1>3 DEF Init, SchedulerPartition, Blocked, Defunct

(* No process is ever lost, in two places at once, or scheduled after its  *)
(* exit, for any number of processes.                                      *)
THEOREM SchedulerCorrect == Spec => []SchedulerPartition
<1>1. SchedulerInv => SchedulerPartition
  BY DEF SchedulerInv
<1> QED BY <1>1, SchedulerInit, SchedulerStep, PTL DEF Spec

(* Types, and where the scheduler keeps whom. *)
LEMMA SchedulerFacts ==
  ASSUME SchedulerInv
  PROVE  /\ curr_pcb \in Pid /\ User \subseteq Pid /\ IDLE \in Pid \ User
         /\ curr_pcb # IDLE => curr_pcb \in User /\ Exists(curr_pcb)
         /\ \A p \in Pid : p \in Nat /\ p # NULL
         /\ next_pid \in Nat
         /\ parent \in [Pid -> Pid \cup {NULL}]
         /\ children \in [Pid -> Seq(User)] /\ deceased \in [Pid -> Seq(User)]
         /\ ready_queue \in Seq(User) /\ blocked_queue \in Seq(User)
         /\ defunct_queue \in Seq(User)
         /\ IsInjective(blocked_queue) /\ IsInjective(defunct_queue)
         /\ kernel_context \in [Pid -> Suspension]
         /\ \A p : Blocked(p) \/ Defunct(p) => p \in User /\ Exists(p)
         /\ \A p : ~(Blocked(p) /\ Defunct(p))
         /\ ~Blocked(curr_pcb) /\ ~Defunct(curr_pcb)
<1>1. /\ curr_pcb \in Pid /\ User \subseteq Pid /\ IDLE \in Pid \ User
      /\ curr_pcb # IDLE => curr_pcb \in User
      /\ next_pid \in Nat
      /\ \A p \in Pid : p \in Nat /\ p # NULL
  BY ProcessAssumption DEF SchedulerInv, TypeInv, TypeOK, IDLE, Pid, User, NULL
<1>2. /\ parent \in [Pid -> Pid \cup {NULL}]
      /\ children \in [Pid -> Seq(User)] /\ deceased \in [Pid -> Seq(User)]
      /\ ready_queue \in Seq(User) /\ blocked_queue \in Seq(User)
      /\ defunct_queue \in Seq(User)
      /\ kernel_context \in [Pid -> Suspension]
  BY DEF SchedulerInv, TypeInv, TypeOK
<1>3. \A p : Blocked(p) \/ Defunct(p) => p \in User
  BY <1>2, ElementOfSeq DEF Blocked, Defunct, Contains
<1>4. \A p : Blocked(p) \/ Defunct(p) => Exists(p)
  BY <1>3 DEF SchedulerInv, SchedulerPartition, Exists
<1>5. \A p : ~(Blocked(p) /\ Defunct(p))
  BY <1>3 DEF SchedulerInv, SchedulerPartition
<1>6. curr_pcb # IDLE => Exists(curr_pcb)
  BY <1>1 DEF SchedulerInv, SchedulerPartition, Exists
<1>7. ~Blocked(curr_pcb) /\ ~Defunct(curr_pcb)
  BY <1>1, <1>3 DEF SchedulerInv, SchedulerPartition
<1>8. IsInjective(blocked_queue) /\ IsInjective(defunct_queue)
  BY DEF SchedulerInv, SchedulerPartition
<1> QED BY <1>1, <1>2, <1>3, <1>4, <1>5, <1>6, <1>7, <1>8

----------------------------------------------------------------------------
(* Round robin.                                                            *)

(* What NeverOvertaken says of a step. *)
Order ==
  /\ \/ IsPrefix(ready_queue, ready_queue')
     \/ /\ ready_queue # <<>> /\ curr_pcb' = Head(ready_queue)
        /\ IsPrefix(Tail(ready_queue), ready_queue')
  /\ curr_pcb' # curr_pcb /\ ready_queue # <<>> => curr_pcb' = Head(ready_queue)

(* A queue that is not touched, or that somebody is put behind, is in      *)
(* order.                                                                  *)
LEMMA PutOrder ==
  ASSUME SchedulerInv, curr_pcb' = curr_pcb,
         ready_queue' = ready_queue \/ \E e \in User : ready_queue' = Append(ready_queue, e)
  PROVE  Order
<1>1. ready_queue \in Seq(User)
  BY SchedulerFacts
<1>2. IsPrefix(ready_queue, ready_queue)
  BY <1>1 DEF IsPrefix
<1>3. \A e \in User : IsPrefix(ready_queue, Append(ready_queue, e))
  BY <1>1, QprefixLemma
<1> QED BY <1>2, <1>3 DEF Order

(* A switch with at most one process put behind the ready queue, before or *)
(* by it, is in order.                                                     *)
LEMMA SwitchOrder ==
  ASSUME SchedulerInv,
         NEW STATE ready, NEW STATE blocked, NEW STATE defunct, NEW where,
         switch_to_next_ready_process(ready, blocked, defunct, where),
         \/ ready = ready_queue
         \/ Contains(defunct, curr_pcb) /\ \E e \in User : ready = Append(ready_queue, e)
  PROVE  Order
<1> DEFINE rq == Requeued(ready, blocked, defunct)
<1>1. ready_queue \in Seq(User) /\ (curr_pcb # IDLE => curr_pcb \in User)
  BY SchedulerFacts
<1>2. rq = ready_queue \/ \E e \in User : rq = Append(ready_queue, e)
  BY <1>1 DEF Requeued
<1>3. /\ rq = <<>> => ready_queue' = rq /\ curr_pcb' = IDLE
      /\ rq # <<>> => ready_queue' = Tail(rq) /\ curr_pcb' = Head(rq)
  BY DEF switch_to_next_ready_process
<1> HIDE DEF rq
<1>4. CASE rq = ready_queue
  <2>1. CASE rq = <<>>
    <3>1. IsPrefix(ready_queue, ready_queue')
      BY <1>1, <1>3, <1>4, <2>1 DEF IsPrefix
    <3> QED BY <1>4, <2>1, <3>1 DEF Order
  <2>2. CASE rq # <<>>
    <3>1. Tail(ready_queue) \in Seq(User) /\ IsPrefix(Tail(ready_queue), Tail(ready_queue))
      <4>1. Tail(ready_queue) \in Seq(User)
        BY <1>1, <1>4, <2>2, QgetLemma
      <4> QED BY <4>1 DEF IsPrefix
    <3> QED BY <1>3, <1>4, <2>2, <3>1 DEF Order
  <2> QED BY <2>1, <2>2
<1>5. ASSUME NEW e \in User, rq = Append(ready_queue, e)
      PROVE  Order
  <2>1. rq # <<>>
    BY <1>1, <1>5, QputLemma
  <2>2. CASE ready_queue = <<>>
    <3>1. Len(ready_queue) = 0 /\ Len(ready_queue') \in Nat
          /\ SubSeq(ready_queue, 1, 0) = SubSeq(ready_queue', 1, 0)
      <4>1. rq \in Seq(User)
        BY <1>1, <1>5, QputLemma
      <4>2. ready_queue' \in Seq(User)
        BY <1>3, <2>1, <4>1, QgetLemma
      <4> QED BY <1>1, <2>2, <4>2
    <3> QED BY <2>2, <3>1 DEF Order, IsPrefix
  <2>3. CASE ready_queue # <<>>
    <3>1. Tail(ready_queue) \in Seq(User)
      BY <1>1, <2>3, QgetLemma
    <3>2. IsPrefix(Tail(ready_queue), Append(Tail(ready_queue), e))
      BY <3>1, QprefixLemma
    <3>3. Head(rq) = Head(ready_queue) /\ Tail(rq) = Append(Tail(ready_queue), e)
      BY <1>1, <1>5, <2>3, QprefixLemma
    <3> QED BY <1>3, <2>1, <2>3, <3>2, <3>3 DEF Order
  <2> QED BY <2>2, <2>3
<1> QED BY <1>2, <1>4, <1>5

(* Every step of the kernel keeps the order of the ready queue. *)
LEMMA OrderStep ==
  ASSUME SchedulerInv, [Next]_vars
  PROVE  Order
<1>0. /\ curr_pcb # IDLE => curr_pcb \in User
      /\ defunct_queue \in Seq(User) /\ blocked_queue \in Seq(User)
      /\ User \subseteq Pid
  BY SchedulerFacts
<1>1. CASE UNCHANGED <<curr_pcb, queues>>
  BY <1>1, PutOrder DEF queues
<1>2. CASE trap_clock_handler
  BY <1>2, SwitchOrder DEF trap_clock_handler
<1>3. CASE resume
  BY <1>1, <1>3 DEF resume, resume_switch, resume_boot, resume_fork, resume_wait, Resume
<1>4. ASSUME KernelFork
      PROVE  Order
  <2>1. next_pid \in User
    BY <1>4, ProcessAssumption DEF KernelFork, SchedulerInv, TypeInv, TypeOK, Pid, User
  <2> QED BY <1>4, <2>1, PutOrder DEF KernelFork
<1>5. ASSUME curr_pcb # IDLE, NEW code, KernelExit(code)
      PROVE  Order
  <2> DEFINE dead == Append(defunct_queue, curr_pcb)
             dad  == parent[curr_pcb]
  <2>1. Contains(dead, curr_pcb)
    BY <1>0, <1>5, QputLemma
  <2> HIDE DEF dead
  <2>2. CASE UNCHANGED <<curr_pcb, queues, family, kernel_context, mode>>
    BY <1>1, <2>2
  <2>3. CASE ExitOrphan
    BY <2>3, SwitchOrder DEF ExitOrphan
  <2>4. CASE ExitToParent(dad, code)
    <3>1. Readied(dad) = ready_queue \/ \E e \in User : Readied(dad) = Append(ready_queue, e)
      <4>1. Contains(blocked_queue, dad) => dad \in User
        BY <1>0, ElementOfSeq DEF Contains
      <4> QED BY <4>1 DEF Readied
    <3>2. switch_to_next_ready_process(Readied(dad), RemoveFirst(blocked_queue, dad), dead, "switch")
      BY <2>4 DEF ExitToParent, dead
    <3> QED BY <2>1, <3>1, <3>2, SwitchOrder
  <2> QED BY <1>5, <2>2, <2>3, <2>4 DEF KernelExit
<1>6. ASSUME KernelWait
      PROVE  Order
  BY <1>1, <1>6, SwitchOrder DEF KernelWait
<1>7. CASE trap_kernel_handler
  BY <1>1, <1>4, <1>5, <1>6, <1>7 DEF trap_kernel_handler, KernelGetPid, KernelDelay
<1>8. CASE curr_pcb # IDLE /\ trap_fatal_handler
  BY <1>5, <1>8 DEF trap_fatal_handler
<1>9. CASE UNCHANGED vars
  BY <1>1, <1>9 DEF vars
<1> QED BY <1>2, <1>3, <1>7, <1>8, <1>9 DEF Next

(* The scheduler is fair to the ready processes: nobody overtakes them in  *)
(* the queue, and the processor goes to the first of them.                 *)
THEOREM RoundRobin == Spec => NeverOvertaken
<1>1. SchedulerInv /\ [Next]_vars => [Order]_vars
  BY OrderStep
<1>2. [][Order]_vars => NeverOvertaken
  BY DEF NeverOvertaken, Order
<1> QED BY <1>1, <1>2, SchedulerInit, SchedulerStep, PTL DEF Spec

----------------------------------------------------------------------------
(* Fork, exit and wait.                                                    *)

(* A process is younger than its parent; the parent is set from fork, and  *)
(* for init from the rest of KernelStart, on.                              *)
Ancestry ==
  \A c \in User :
    /\ parent[c] = NULL <=> ~Exists(c) \/ kernel_context[c] = "boot"
    /\ parent[c] # NULL => parent[c] < c

(* In user mode nothing of the running process is suspended in the kernel; *)
(* a blocked process is suspended in Wait.                                 *)
Contexts ==
  /\ mode = "user" => kernel_context[curr_pcb] = "none"
  /\ \A p \in User : Blocked(p) => kernel_context[p] = "wait"

(* Only an exit frees the queues and the page table of a process. *)
FreedAreDefunct == \A p \in freed : Defunct(p)

(* None of the properties of the family is inductive alone: a blocked      *)
(* parent has a child because children names it, children is right because *)
(* no process exits unseen by its parent, and that because parent is.      *)
Family ==
  /\ Ancestry /\ Contexts /\ FreedAreDefunct
  /\ FamilyConsistent /\ NoLostWakeup /\ WokenFindsChild /\ NoBadParent

FamilyInv == SchedulerInv /\ Family

----------------------------------------------------------------------------
(* What the lemmas about the actions need.                                 *)

(* The empty queue holds nothing. *)
LEMMA EmptyQueue == IsInjective(<<>>) /\ \A x : ~Contains(<<>>, x)
BY DEF IsInjective, Contains

(* What a switch does to the places where processes are suspended: the     *)
(* running process is suspended where it called the switch, unless idle    *)
(* goes on, and the others stay where they are.                            *)
LEMMA SwitchContext ==
  ASSUME TypeInv, mode = "user", kernel_context[curr_pcb] = "none",
         NEW STATE ready, NEW STATE blocked, NEW STATE defunct, NEW where,
         switch_to_next_ready_process(ready, blocked, defunct, where)
  PROVE  /\ blocked_queue' = blocked /\ defunct_queue' = defunct
         /\ \A p \in Pid : p # curr_pcb => kernel_context'[p] = kernel_context[p]
         /\ kernel_context'[curr_pcb] \in {"none", where}
         /\ curr_pcb # IDLE => kernel_context'[curr_pcb] = where
         /\ mode' = "user" => kernel_context'[curr_pcb'] = "none"
<1> DEFINE rq == Requeued(ready, blocked, defunct)
<1>1. curr_pcb \in Pid /\ kernel_context \in [Pid -> Suspension]
  BY DEF TypeInv, TypeOK
<1>2. /\ blocked_queue' = blocked /\ defunct_queue' = defunct
      /\ rq = <<>> => curr_pcb' = IDLE
      /\ IF curr_pcb = IDLE /\ rq = <<>>
         THEN UNCHANGED <<kernel_context, mode>>
         ELSE /\ kernel_context' = [kernel_context EXCEPT ![curr_pcb] = where]
              /\ mode' = "kernel"
  BY DEF switch_to_next_ready_process
<1> HIDE DEF rq
<1> QED BY <1>1, <1>2

----------------------------------------------------------------------------
(* One lemma per group of actions.                                         *)

(* A clock trap moves processes between the processor and the ready queue. *)
LEMMA ClockFamily ==
  ASSUME FamilyInv, trap_clock_handler
  PROVE  Family'
<1>1. /\ UNCHANGED <<next_pid, parent, children, deceased, freed, machine>>
      /\ mode = "user" /\ kernel_context[curr_pcb] = "none"
  BY DEF trap_clock_handler, UserMode, family, FamilyInv, Family, Contexts
<1>2. /\ blocked_queue' = blocked_queue /\ defunct_queue' = defunct_queue
      /\ \A p \in Pid : p # curr_pcb => kernel_context'[p] = kernel_context[p]
      /\ kernel_context'[curr_pcb] \in {"none", "switch"}
      /\ mode' = "user" => kernel_context'[curr_pcb'] = "none"
  BY <1>1, SwitchContext DEF trap_clock_handler, FamilyInv, SchedulerInv
<1>3. /\ User \subseteq Pid /\ ~Blocked(curr_pcb)
      /\ curr_pcb \in User => Exists(curr_pcb)
  BY SchedulerFacts DEF FamilyInv
<1>4. \A p \in User : /\ kernel_context'[p] = "boot" <=> kernel_context[p] = "boot"
                      /\ kernel_context'[p] = "wait" <=> kernel_context[p] = "wait"
  BY <1>1, <1>2, <1>3
<1>5. Ancestry'
  BY <1>1, <1>4 DEF FamilyInv, Family, Ancestry, Exists
<1>6. Contexts' /\ WokenFindsChild'
  BY <1>1, <1>2, <1>4 DEF FamilyInv, Family, Contexts, WokenFindsChild, Blocked
<1>7. FreedAreDefunct' /\ FamilyConsistent' /\ NoLostWakeup' /\ NoBadParent'
  BY <1>1, <1>2 DEF FamilyInv, Family, FreedAreDefunct, FamilyConsistent, NoLostWakeup,
                    NoBadParent, Exists, Defunct, Blocked
<1> QED BY <1>5, <1>6, <1>7 DEF Family

(* Coming back from a switch changes no queue of the scheduler. *)
LEMMA ResumeContext ==
  ASSUME FamilyInv, NEW where \in Suspension, Resume(where)
  PROVE  /\ UNCHANGED <<curr_pcb, blocked_queue, defunct_queue, machine>>
         /\ kernel_context[curr_pcb] = where
         /\ kernel_context'[curr_pcb] = "none"
         /\ \A p \in Pid : p # curr_pcb => kernel_context'[p] = kernel_context[p]
         /\ Contexts'
<1>1. /\ curr_pcb \in Pid /\ User \subseteq Pid /\ ~Blocked(curr_pcb)
      /\ kernel_context \in [Pid -> Suspension]
  BY SchedulerFacts DEF FamilyInv
<1>2. /\ UNCHANGED <<curr_pcb, blocked_queue, defunct_queue, machine>>
      /\ kernel_context[curr_pcb] = where
      /\ kernel_context'[curr_pcb] = "none"
      /\ \A p \in Pid : p # curr_pcb => kernel_context'[p] = kernel_context[p]
  BY <1>1 DEF Resume, queues
<1>3. Contexts'
  BY <1>1, <1>2 DEF FamilyInv, Family, Contexts, Blocked
<1> QED BY <1>2, <1>3

(* Back from the switch of a clock trap, or in a child just forked. *)
LEMMA ResumePlainFamily ==
  ASSUME FamilyInv, resume_switch \/ resume_fork
  PROVE  Family'
<1>1. PICK where \in {"switch", "fork"} : Resume(where)
  BY DEF resume_switch, resume_fork
<1>2. where \in Suspension
  BY <1>1 DEF Suspension
<1>3. UNCHANGED <<next_pid, parent, children, deceased, freed>>
  BY DEF resume_switch, resume_fork, family
<1>4. /\ UNCHANGED <<curr_pcb, blocked_queue, defunct_queue, machine>>
      /\ kernel_context[curr_pcb] = where
      /\ kernel_context'[curr_pcb] = "none"
      /\ \A p \in Pid : p # curr_pcb => kernel_context'[p] = kernel_context[p]
      /\ Contexts'
  BY <1>1, <1>2, ResumeContext
<1>5. User \subseteq Pid
  BY SchedulerFacts DEF FamilyInv
<1>6. \A p \in User : /\ kernel_context'[p] = "boot" <=> kernel_context[p] = "boot"
                      /\ kernel_context'[p] = "wait" <=> kernel_context[p] = "wait"
  BY <1>1, <1>4, <1>5
<1>7. Ancestry' /\ WokenFindsChild'
  BY <1>3, <1>4, <1>6 DEF FamilyInv, Family, Ancestry, WokenFindsChild, Exists, Blocked
<1>8. FreedAreDefunct' /\ FamilyConsistent' /\ NoLostWakeup' /\ NoBadParent'
  BY <1>3, <1>4 DEF FamilyInv, Family, FreedAreDefunct, FamilyConsistent, NoLostWakeup,
                    NoBadParent, Exists, Defunct, Blocked
<1> QED BY <1>4, <1>7, <1>8 DEF Family

(* Init joins the children of idle, once: until then it had no parent. *)
LEMMA BootFamily ==
  ASSUME FamilyInv, resume_boot
  PROVE  Family'
<1>0. /\ curr_pcb \in Pid /\ User \subseteq Pid /\ IDLE \in Pid \ User
      /\ curr_pcb # IDLE => curr_pcb \in User /\ Exists(curr_pcb)
      /\ parent \in [Pid -> Pid \cup {NULL}] /\ children \in [Pid -> Seq(User)]
      /\ \A p \in Pid : p \in Nat /\ p # NULL
      /\ ~Blocked(curr_pcb) /\ ~Defunct(curr_pcb)
  BY SchedulerFacts DEF FamilyInv
<1>1. /\ parent' = [parent EXCEPT ![curr_pcb] = IDLE]
      /\ children' = [children EXCEPT ![IDLE] = Append(children[IDLE], curr_pcb)]
      /\ UNCHANGED <<next_pid, deceased, freed>>
      /\ Resume("boot") /\ "boot" \in Suspension
  BY DEF resume_boot, Suspension
<1>2. /\ UNCHANGED <<curr_pcb, blocked_queue, defunct_queue, machine>>
      /\ kernel_context[curr_pcb] = "boot"
      /\ kernel_context'[curr_pcb] = "none"
      /\ \A p \in Pid : p # curr_pcb => kernel_context'[p] = kernel_context[p]
      /\ Contexts'
  BY <1>1, ResumeContext
<1>3. curr_pcb \in User /\ Exists(curr_pcb)
  BY <1>0, <1>2 DEF FamilyInv, SchedulerInv, TypeInv, IdleContext
<1>4. parent[curr_pcb] = NULL
  BY <1>2, <1>3 DEF FamilyInv, Family, Ancestry
<1>5. Ancestry'
  <2>1. IDLE < curr_pcb /\ IDLE # NULL
    BY <1>3 DEF IDLE, NULL, User
  <2> QED BY <1>0, <1>1, <1>2, <1>3, <2>1 DEF FamilyInv, Family, Ancestry, Exists
<1>6. WokenFindsChild' /\ FreedAreDefunct' /\ NoBadParent'
  BY <1>0, <1>1, <1>2 DEF FamilyInv, Family, WokenFindsChild, FreedAreDefunct, NoBadParent,
                          Defunct, Blocked
<1>7. NoLostWakeup'
  BY <1>0, <1>1, <1>2, <1>4 DEF FamilyInv, Family, NoLostWakeup, Exists, Defunct, Blocked
<1>8. FamilyConsistent'
  <2>1. children[IDLE] \in Seq(User) /\ IsInjective(children[IDLE])
        /\ ~Contains(children[IDLE], curr_pcb)
    <3>1. ~Defunct(IDLE) /\ parent[curr_pcb] # IDLE
      BY <1>0, <1>4, SchedulerFacts DEF FamilyInv
    <3> QED BY <1>0, <1>3, <3>1 DEF FamilyInv, Family, FamilyConsistent
  <2>2. /\ IsInjective(children'[IDLE])
        /\ \A x : Contains(children'[IDLE], x) <=> Contains(children[IDLE], x) \/ x = curr_pcb
    BY <1>0, <1>1, <1>3, <2>1, QputLemma
  <2>3. \A p \in Pid : p # IDLE => children'[p] = children[p]
    BY <1>0, <1>1
  <2>4. \A c \in User : parent'[c] = IF c = curr_pcb THEN IDLE ELSE parent[c]
    BY <1>0, <1>1
  <2>5. \A p \in Pid : Defunct(p)' <=> Defunct(p)
    BY <1>2 DEF Defunct
  <2>6. \A c \in User : Exists(c)' <=> Exists(c)
    BY <1>1 DEF Exists
  <2> SUFFICES ASSUME NEW p \in Pid, ~Defunct(p)'
               PROVE  /\ IsInjective(children'[p]) /\ IsInjective(deceased'[p])
                      /\ \A c \in User :
                           /\ Contains(children'[p], c) <=> (parent'[c] = p /\ Exists(c)' /\ ~Defunct(c)')
                           /\ Contains(deceased'[p], c) => (parent'[c] = p /\ Defunct(c)')
    BY DEF FamilyConsistent
  <2>7. /\ IsInjective(children[p]) /\ IsInjective(deceased[p])
        /\ \A c \in User :
             /\ Contains(children[p], c) <=> (parent[c] = p /\ Exists(c) /\ ~Defunct(c))
             /\ Contains(deceased[p], c) => (parent[c] = p /\ Defunct(c))
    BY <2>5 DEF FamilyInv, Family, FamilyConsistent
  <2>8. \A c \in User : Defunct(c)' <=> Defunct(c)
    BY <1>0, <2>5
  <2>9. CASE p = IDLE
    BY <1>0, <1>1, <1>3, <1>4, <2>2, <2>4, <2>6, <2>7, <2>8, <2>9
  <2>10. CASE p # IDLE
    BY <1>0, <1>1, <1>3, <1>4, <2>3, <2>4, <2>6, <2>7, <2>8, <2>10
  <2> QED BY <2>9, <2>10
<1> QED BY <1>2, <1>5, <1>6, <1>7, <1>8 DEF Family

(* The new process is younger than all others, a child of the running one  *)
(* and of nobody else.                                                     *)
LEMMA ForkFamily ==
  ASSUME FamilyInv, curr_pcb # IDLE, KernelFork
  PROVE  Family'
<1> DEFINE new == next_pid
<1>0. /\ curr_pcb \in User /\ User \subseteq Pid /\ Exists(curr_pcb)
      /\ parent \in [Pid -> Pid \cup {NULL}] /\ children \in [Pid -> Seq(User)]
      /\ kernel_context \in [Pid -> Suspension]
      /\ new \in Nat /\ \A p \in Pid : p \in Nat /\ p # NULL
      /\ ~Blocked(curr_pcb) /\ ~Defunct(curr_pcb)
      /\ \A p : Blocked(p) \/ Defunct(p) => Exists(p)
  BY SchedulerFacts DEF FamilyInv
<1>1. /\ new \in Pid /\ next_pid' = new + 1
      /\ kernel_context' = [kernel_context EXCEPT ![new] = "fork"]
      /\ children' = [children EXCEPT ![curr_pcb] = Append(children[curr_pcb], new)]
      /\ parent' = [parent EXCEPT ![new] = curr_pcb]
      /\ UNCHANGED <<curr_pcb, blocked_queue, defunct_queue, deceased, freed, mode, machine>>
  BY DEF KernelFork
<1>2. new \in User /\ ~Exists(new) /\ curr_pcb < new
  BY <1>0, <1>1, ProcessAssumption DEF FamilyInv, SchedulerInv, TypeInv, TypeOK, Exists, Pid, User
<1>3. \A p \in Pid : Exists(p)' <=> Exists(p) \/ p = new
  BY <1>0, <1>1 DEF Exists
<1>4. \A p : (Blocked(p)' <=> Blocked(p)) /\ (Defunct(p)' <=> Defunct(p))
  BY <1>1 DEF Blocked, Defunct
<1>5. ~Blocked(new) /\ ~Defunct(new) /\ new # curr_pcb
  BY <1>0, <1>2
<1>6. \A p \in Pid :
        /\ p # new => parent'[p] = parent[p] /\ kernel_context'[p] = kernel_context[p]
        /\ p # curr_pcb => children'[p] = children[p]
  BY <1>0, <1>1
<1>7. parent'[new] = curr_pcb /\ kernel_context'[new] = "fork"
  BY <1>0, <1>1, <1>2
<1> HIDE DEF new
<1>8. Ancestry'
  <2> SUFFICES ASSUME NEW c \in User
               PROVE  /\ parent'[c] = NULL <=> ~Exists(c)' \/ kernel_context'[c] = "boot"
                      /\ parent'[c] # NULL => parent'[c] < c
    BY DEF Ancestry
  <2>1. CASE c = new
    BY <1>0, <1>2, <1>3, <1>7, <2>1
  <2>2. CASE c # new
    BY <1>0, <1>3, <1>6, <2>2 DEF FamilyInv, Family, Ancestry
  <2> QED BY <2>1, <2>2
<1>9. Contexts' /\ WokenFindsChild'
  BY <1>0, <1>1, <1>4, <1>5, <1>6, <1>7
     DEF FamilyInv, Family, Contexts, WokenFindsChild
<1>10. FreedAreDefunct' /\ NoBadParent'
  BY <1>1, <1>4 DEF FamilyInv, Family, FreedAreDefunct, NoBadParent
<1>11. NoLostWakeup'
  <2> SUFFICES ASSUME NEW p \in User, Blocked(p)'
               PROVE  /\ deceased'[p] = <<>>
                      /\ \E c \in User : Exists(c)' /\ ~Defunct(c)' /\ parent'[c] = p
    BY DEF NoLostWakeup
  <2>1. deceased[p] = <<>> /\ \E c \in User : Exists(c) /\ ~Defunct(c) /\ parent[c] = p
    BY <1>4 DEF FamilyInv, Family, NoLostWakeup
  <2> QED BY <1>0, <1>1, <1>2, <1>3, <1>4, <1>6, <2>1
<1>12. FamilyConsistent'
  <2>1. children[curr_pcb] \in Seq(User) /\ IsInjective(children[curr_pcb])
        /\ ~Contains(children[curr_pcb], new)
    BY <1>0, <1>2 DEF FamilyInv, Family, FamilyConsistent
  <2>2. children'[curr_pcb] = Append(children[curr_pcb], new)
    BY <1>0, <1>1
  <2>3. /\ IsInjective(children'[curr_pcb])
        /\ \A x : Contains(children'[curr_pcb], x) <=> Contains(children[curr_pcb], x) \/ x = new
    BY <1>2, <2>1, <2>2, QputLemma
  <2> SUFFICES ASSUME NEW p \in Pid, ~Defunct(p)'
               PROVE  /\ IsInjective(children'[p]) /\ IsInjective(deceased'[p])
                      /\ \A c \in User :
                           /\ Contains(children'[p], c) <=> (parent'[c] = p /\ Exists(c)' /\ ~Defunct(c)')
                           /\ Contains(deceased'[p], c) => (parent'[c] = p /\ Defunct(c)')
    BY DEF FamilyConsistent
  <2>4. /\ IsInjective(children[p]) /\ IsInjective(deceased[p])
        /\ \A c \in User :
             /\ Contains(children[p], c) <=> (parent[c] = p /\ Exists(c) /\ ~Defunct(c))
             /\ Contains(deceased[p], c) => (parent[c] = p /\ Defunct(c))
    BY <1>4 DEF FamilyInv, Family, FamilyConsistent
  <2>5. ASSUME NEW c \in User
        PROVE  Contains(deceased'[p], c) => (parent'[c] = p /\ Defunct(c)')
    BY <1>0, <1>1, <1>4, <1>5, <1>6, <2>4
  <2>6. /\ IsInjective(children'[p])
        /\ \A x : Contains(children'[p], x) <=> Contains(children[p], x) \/ (p = curr_pcb /\ x = new)
    <3>1. CASE p = curr_pcb
      BY <2>3, <3>1
    <3>2. CASE p # curr_pcb
      <4>1. children'[p] = children[p]
        BY <1>6, <3>2
      <4> QED BY <2>4, <3>2, <4>1
    <3> QED BY <3>1, <3>2
  <2>7. ASSUME NEW c \in User
        PROVE  Contains(children'[p], c) <=> (parent'[c] = p /\ Exists(c)' /\ ~Defunct(c)')
    <3>1. /\ Contains(children[p], c) <=> (parent[c] = p /\ Exists(c) /\ ~Defunct(c))
          /\ Contains(children'[p], c) <=> Contains(children[p], c) \/ (p = curr_pcb /\ c = new)
          /\ c \in Pid
      BY <1>0, <2>4, <2>6
    <3>2. CASE c = new
      BY <1>2, <1>3, <1>4, <1>5, <1>7, <3>1, <3>2
    <3>3. CASE c # new
      BY <1>3, <1>4, <1>6, <3>1, <3>3
    <3> QED BY <3>2, <3>3
  <2> QED BY <1>1, <2>4, <2>5, <2>6, <2>7
<1> QED BY <1>8, <1>9, <1>10, <1>11, <1>12 DEF Family

(* The end of Wait takes at most the oldest of the deceased children away. *)
LEMMA CollectFamily ==
  ASSUME FamilyInv, Collect,
         UNCHANGED <<next_pid, parent, children, blocked_queue, defunct_queue>>
  PROVE  /\ NoLostWakeup' /\ FamilyConsistent'
         /\ \A p \in Pid : p # curr_pcb => deceased'[p] = deceased[p]
<1>0. /\ curr_pcb \in Pid /\ User \subseteq Pid /\ deceased \in [Pid -> Seq(User)]
      /\ ~Blocked(curr_pcb) /\ ~Defunct(curr_pcb)
  BY SchedulerFacts DEF FamilyInv
<1>1. \/ deceased' = deceased
      \/ /\ deceased[curr_pcb] # <<>>
         /\ deceased' = [deceased EXCEPT ![curr_pcb] = Tail(deceased[curr_pcb])]
  BY DEF Collect
<1>2. \A p \in Pid : p # curr_pcb => deceased'[p] = deceased[p]
  BY <1>0, <1>1
<1>3. \A p : (Blocked(p)' <=> Blocked(p)) /\ (Defunct(p)' <=> Defunct(p)) /\ (Exists(p)' <=> Exists(p))
  BY DEF Blocked, Defunct, Exists
<1>4. NoLostWakeup'
  BY <1>0, <1>2, <1>3 DEF FamilyInv, Family, NoLostWakeup
<1>5. deceased[curr_pcb] \in Seq(User) /\ IsInjective(deceased[curr_pcb])
  BY <1>0 DEF FamilyInv, Family, FamilyConsistent
<1>6. /\ IsInjective(deceased'[curr_pcb])
      /\ \A x : Contains(deceased'[curr_pcb], x) => Contains(deceased[curr_pcb], x)
  <2>1. CASE deceased' = deceased
    BY <1>5, <2>1
  <2>2. CASE /\ deceased[curr_pcb] # <<>>
             /\ deceased'[curr_pcb] = Tail(deceased[curr_pcb])
    BY <1>5, <2>2, QgetLemma
  <2> QED BY <1>0, <1>1, <2>1, <2>2
<1>7. FamilyConsistent'
  BY <1>0, <1>2, <1>3, <1>6 DEF FamilyInv, Family, FamilyConsistent
<1> QED BY <1>2, <1>4, <1>7

(* Wait returns at once, or blocks a process that children says has a      *)
(* living child.                                                           *)
LEMMA WaitFamily ==
  ASSUME FamilyInv, curr_pcb # IDLE, KernelWait
  PROVE  Family'
<1>0. /\ curr_pcb \in User /\ User \subseteq Pid /\ Exists(curr_pcb)
      /\ children \in [Pid -> Seq(User)] /\ blocked_queue \in Seq(User)
      /\ ~Blocked(curr_pcb) /\ ~Defunct(curr_pcb)
  BY SchedulerFacts DEF FamilyInv
<1>1. /\ UNCHANGED <<next_pid, parent, children, freed, machine>>
      /\ mode = "user" /\ kernel_context[curr_pcb] = "none"
  BY DEF KernelWait, UserMode, FamilyInv, Family, Contexts
<1>2. CASE Collect /\ UNCHANGED <<curr_pcb, queues, kernel_context, mode>>
  <2>1. UNCHANGED <<blocked_queue, defunct_queue>>
    BY <1>2 DEF queues
  <2>2. /\ NoLostWakeup' /\ FamilyConsistent'
        /\ \A p \in Pid : p # curr_pcb => deceased'[p] = deceased[p]
    BY <1>1, <1>2, <2>1, CollectFamily
  <2>3. Ancestry' /\ Contexts' /\ FreedAreDefunct' /\ NoBadParent'
    BY <1>1, <1>2, <2>1 DEF FamilyInv, Family, Ancestry, Contexts, FreedAreDefunct, NoBadParent,
                            Exists, Defunct, Blocked
  <2>4. WokenFindsChild'
    BY <1>0, <1>1, <1>2, <2>1, <2>2 DEF FamilyInv, Family, WokenFindsChild, Blocked
  <2> QED BY <2>2, <2>3, <2>4 DEF Family
<1>3. CASE /\ children[curr_pcb] # <<>> /\ deceased[curr_pcb] = <<>>
           /\ switch_to_next_ready_process(ready_queue, Append(blocked_queue, curr_pcb),
                                           defunct_queue, "wait")
           /\ UNCHANGED <<deceased, result>>
  <2>1. /\ blocked_queue' = Append(blocked_queue, curr_pcb) /\ defunct_queue' = defunct_queue
        /\ \A p \in Pid : p # curr_pcb => kernel_context'[p] = kernel_context[p]
        /\ kernel_context'[curr_pcb] = "wait"
        /\ mode' = "user" => kernel_context'[curr_pcb'] = "none"
    BY <1>0, <1>1, <1>3, SwitchContext DEF FamilyInv, SchedulerInv, IDLE, User
  <2>2. \A p : Blocked(p)' <=> Blocked(p) \/ p = curr_pcb
    BY <1>0, <2>1, QputLemma DEF Blocked
  <2>3. \A p : (Defunct(p)' <=> Defunct(p)) /\ (Exists(p)' <=> Exists(p))
    BY <1>1, <2>1 DEF Defunct, Exists
  <2>4. PICK child \in User : Exists(child) /\ ~Defunct(child) /\ parent[child] = curr_pcb
    <3>1. children[curr_pcb] \in Seq(User)
      BY <1>0
    <3>2. Head(children[curr_pcb]) \in User /\ Contains(children[curr_pcb], Head(children[curr_pcb]))
      BY <1>3, <3>1, QgetLemma
    <3> QED BY <1>0, <3>2 DEF FamilyInv, Family, FamilyConsistent
  <2>5. Ancestry'
    BY <1>0, <1>1, <2>1, <2>3 DEF FamilyInv, Family, Ancestry
  <2>6. Contexts' /\ WokenFindsChild'
    BY <1>0, <1>3, <2>1, <2>2 DEF FamilyInv, Family, Contexts, WokenFindsChild
  <2>7. FreedAreDefunct' /\ FamilyConsistent' /\ NoBadParent'
    BY <1>1, <1>3, <2>3 DEF FamilyInv, Family, FreedAreDefunct, FamilyConsistent, NoBadParent
  <2>8. NoLostWakeup'
    BY <1>1, <1>3, <2>2, <2>3, <2>4 DEF FamilyInv, Family, NoLostWakeup
  <2> QED BY <2>5, <2>6, <2>7, <2>8 DEF Family
<1> QED BY <1>2, <1>3 DEF KernelWait

(* Back in Wait after the exit of a child. *)
LEMMA ResumeWaitFamily ==
  ASSUME FamilyInv, resume_wait
  PROVE  Family'
<1>0. User \subseteq Pid
  BY SchedulerFacts DEF FamilyInv
<1>1. /\ Resume("wait") /\ "wait" \in Suspension /\ Collect
      /\ UNCHANGED <<next_pid, parent, children, freed>>
  BY DEF resume_wait, Suspension
<1>2. /\ UNCHANGED <<curr_pcb, blocked_queue, defunct_queue, machine>>
      /\ kernel_context[curr_pcb] = "wait"
      /\ kernel_context'[curr_pcb] = "none"
      /\ \A p \in Pid : p # curr_pcb => kernel_context'[p] = kernel_context[p]
      /\ Contexts'
  BY <1>1, ResumeContext
<1>3. /\ NoLostWakeup' /\ FamilyConsistent'
      /\ \A p \in Pid : p # curr_pcb => deceased'[p] = deceased[p]
  BY <1>1, <1>2, CollectFamily
<1>4. Ancestry' /\ WokenFindsChild'
  BY <1>0, <1>1, <1>2, <1>3 DEF FamilyInv, Family, Ancestry, WokenFindsChild, Exists, Blocked
<1>5. FreedAreDefunct' /\ NoBadParent'
  BY <1>1, <1>2 DEF FamilyInv, Family, FreedAreDefunct, NoBadParent, Defunct
<1> QED BY <1>2, <1>3, <1>4, <1>5 DEF Family

(* An orphan dies unseen: its parent is defunct, so nobody waits for it.   *)
LEMMA ExitOrphanFamily ==
  ASSUME FamilyInv, curr_pcb # IDLE, UserMode, Orphaned(curr_pcb), ExitOrphan
  PROVE  Family'
<1>0. /\ curr_pcb \in User /\ User \subseteq Pid /\ Exists(curr_pcb)
      /\ defunct_queue \in Seq(User) /\ IDLE \notin User
      /\ ~Blocked(curr_pcb) /\ ~Defunct(curr_pcb)
      /\ \A p : ~(Blocked(p) /\ Defunct(p))
  BY SchedulerFacts DEF FamilyInv
<1>1. /\ UNCHANGED <<next_pid, parent, children, deceased, freed, machine>>
      /\ mode = "user" /\ kernel_context[curr_pcb] = "none"
      /\ parent[curr_pcb] # NULL /\ Defunct(parent[curr_pcb])
  BY DEF ExitOrphan, Orphaned, UserMode, family, FamilyInv, Family, Contexts
<1>2. /\ blocked_queue' = blocked_queue /\ defunct_queue' = Append(defunct_queue, curr_pcb)
      /\ \A p \in Pid : p # curr_pcb => kernel_context'[p] = kernel_context[p]
      /\ kernel_context'[curr_pcb] = "switch"
      /\ mode' = "user" => kernel_context'[curr_pcb'] = "none"
  BY <1>0, <1>1, SwitchContext DEF ExitOrphan, FamilyInv, SchedulerInv
<1>3. /\ \A p : Defunct(p)' <=> Defunct(p) \/ p = curr_pcb
      /\ \A p : (Blocked(p)' <=> Blocked(p)) /\ (Exists(p)' <=> Exists(p))
  <2>1. \A p : Contains(defunct_queue', p) <=> Contains(defunct_queue, p) \/ p = curr_pcb
    BY <1>0, <1>2, QputLemma
  <2> QED BY <1>1, <1>2, <2>1 DEF Defunct, Blocked, Exists
<1>4. Ancestry'
  BY <1>0, <1>1, <1>2, <1>3 DEF FamilyInv, Family, Ancestry
<1>5. Contexts' /\ WokenFindsChild'
  BY <1>0, <1>1, <1>2, <1>3 DEF FamilyInv, Family, Contexts, WokenFindsChild
<1>6. FreedAreDefunct' /\ NoBadParent'
  BY <1>1, <1>3 DEF FamilyInv, Family, FreedAreDefunct, NoBadParent
<1>7. NoLostWakeup'
  BY <1>0, <1>1, <1>3 DEF FamilyInv, Family, NoLostWakeup
<1>8. FamilyConsistent'
  BY <1>0, <1>1, <1>3 DEF FamilyInv, Family, FamilyConsistent
<1> QED BY <1>4, <1>5, <1>6, <1>7, <1>8 DEF Family

(* The child moves from the living children of its parent to the deceased  *)
(* ones; a parent blocked in Wait becomes ready and finds it there.        *)
LEMMA ExitToParentFamily ==
  ASSUME FamilyInv, curr_pcb # IDLE, UserMode, ~Orphaned(curr_pcb),
         parent[curr_pcb] # NULL, NEW code, ExitToParent(parent[curr_pcb], code)
  PROVE  Family'
<1> DEFINE dad == parent[curr_pcb]
<1>0. /\ curr_pcb \in User /\ User \subseteq Pid /\ Exists(curr_pcb)
      /\ parent \in [Pid -> Pid \cup {NULL}]
      /\ children \in [Pid -> Seq(User)] /\ deceased \in [Pid -> Seq(User)]
      /\ defunct_queue \in Seq(User) /\ blocked_queue \in Seq(User) /\ IsInjective(blocked_queue)
      /\ IDLE \notin User
      /\ \A p \in Pid : p \in Nat
      /\ ~Blocked(curr_pcb) /\ ~Defunct(curr_pcb)
      /\ \A p : ~(Blocked(p) /\ Defunct(p))
  BY SchedulerFacts DEF FamilyInv
<1>1. /\ children' = [children EXCEPT ![dad] = RemoveFirst(children[dad], curr_pcb), ![curr_pcb] = <<>>]
      /\ deceased' = [deceased EXCEPT ![dad] = Append(deceased[dad], curr_pcb), ![curr_pcb] = <<>>]
      /\ freed' = freed \cup {curr_pcb}
      /\ UNCHANGED <<next_pid, parent, machine>>
      /\ mode = "user" /\ kernel_context[curr_pcb] = "none"
  BY DEF ExitToParent, Bury, UserMode, FamilyInv, Family, Contexts
<1>2. dad \in Pid /\ dad < curr_pcb /\ ~Defunct(dad) /\ dad # curr_pcb
  <2>1. dad \in Pid /\ dad < curr_pcb
    BY <1>0 DEF FamilyInv, Family, Ancestry
  <2> QED BY <1>0, <2>1 DEF Orphaned
<1>3. /\ blocked_queue' = RemoveFirst(blocked_queue, dad)
      /\ defunct_queue' = Append(defunct_queue, curr_pcb)
      /\ \A p \in Pid : p # curr_pcb => kernel_context'[p] = kernel_context[p]
      /\ kernel_context'[curr_pcb] = "switch"
      /\ mode' = "user" => kernel_context'[curr_pcb'] = "none"
  BY <1>0, <1>1, SwitchContext DEF ExitToParent, FamilyInv, SchedulerInv
<1>4. /\ \A p : Defunct(p)' <=> Defunct(p) \/ p = curr_pcb
      /\ \A p : Blocked(p)' <=> Blocked(p) /\ p # dad
      /\ \A p : Exists(p)' <=> Exists(p)
  <2>1. \A p : Contains(defunct_queue', p) <=> Contains(defunct_queue, p) \/ p = curr_pcb
    BY <1>0, <1>3, QputLemma
  <2>2. \A p : Contains(blocked_queue', p) <=> Contains(blocked_queue, p) /\ p # dad
    <3> DEFINE rest == RemoveFirst(blocked_queue, dad)
    <3>1. \A p : Contains(rest, p) <=> Contains(blocked_queue, p) /\ p # dad
      BY <1>0, QremoveLemma
    <3> QED BY <1>3, <3>1
  <2> QED BY <1>1, <2>1, <2>2 DEF Defunct, Blocked, Exists
<1>5. /\ IsInjective(children[dad]) /\ IsInjective(deceased[dad])
      /\ children[dad] \in Seq(User) /\ deceased[dad] \in Seq(User)
      /\ ~Contains(deceased[dad], curr_pcb)
  BY <1>0, <1>2 DEF FamilyInv, Family, FamilyConsistent
<1>6. /\ children'[dad] = RemoveFirst(children[dad], curr_pcb)
      /\ deceased'[dad] = Append(deceased[dad], curr_pcb)
      /\ \A p \in Pid : p # dad /\ p # curr_pcb =>
           children'[p] = children[p] /\ deceased'[p] = deceased[p]
  BY <1>0, <1>1, <1>2
<1>7. /\ IsInjective(children'[dad])
      /\ \A x : Contains(children'[dad], x) <=> Contains(children[dad], x) /\ x # curr_pcb
  BY <1>5, <1>6, QremoveLemma
<1>8. /\ IsInjective(deceased'[dad]) /\ deceased'[dad] # <<>>
      /\ \A x : Contains(deceased'[dad], x) <=> Contains(deceased[dad], x) \/ x = curr_pcb
  <2> DEFINE old  == deceased[dad]
             dead == Append(old, curr_pcb)
  <2>1. old \in Seq(User) /\ IsInjective(old) /\ ~Contains(old, curr_pcb) /\ curr_pcb \in User
    BY <1>0, <1>5
  <2>2. deceased'[dad] = dead
    BY <1>6
  <2> HIDE DEF old
  <2>3. /\ IsInjective(dead) /\ dead # <<>>
        /\ \A x : Contains(dead, x) <=> Contains(old, x) \/ x = curr_pcb
    BY <2>1, QputLemma
  <2> HIDE DEF dead
  <2> QED BY <2>2, <2>3 DEF old
<1>9. \A c \in User : parent'[c] = parent[c]
  BY <1>1
<1>10. dad = parent[curr_pcb]
  OBVIOUS
<1> HIDE DEF dad
<1>11. Ancestry'
  BY <1>0, <1>1, <1>3, <1>4 DEF FamilyInv, Family, Ancestry
<1>12. Contexts' /\ WokenFindsChild'
  <2>1. Contexts'
    BY <1>0, <1>3, <1>4 DEF FamilyInv, Family, Contexts
  <2>2. ASSUME NEW p \in User, kernel_context'[p] = "wait", ~Blocked(p)'
        PROVE  deceased'[p] # <<>>
    <3>1. p # curr_pcb /\ kernel_context[p] = "wait" /\ p \in Pid
      BY <1>0, <1>3, <2>2
    <3>2. CASE p = dad
      BY <1>8, <3>2
    <3>3. CASE p # dad
      BY <1>4, <1>6, <2>2, <3>1, <3>3 DEF FamilyInv, Family, WokenFindsChild
    <3> QED BY <3>2, <3>3
  <2> QED BY <2>1, <2>2 DEF WokenFindsChild
<1>13. FreedAreDefunct' /\ NoBadParent'
  BY <1>1, <1>4 DEF FamilyInv, Family, FreedAreDefunct, NoBadParent
<1>14. NoLostWakeup'
  <2> SUFFICES ASSUME NEW p \in User, Blocked(p)'
               PROVE  /\ deceased'[p] = <<>>
                      /\ \E c \in User : Exists(c)' /\ ~Defunct(c)' /\ parent'[c] = p
    BY DEF NoLostWakeup
  <2>1. Blocked(p) /\ p # dad /\ p # curr_pcb /\ p \in Pid
    BY <1>0, <1>4
  <2>2. PICK c \in User : Exists(c) /\ ~Defunct(c) /\ parent[c] = p
    BY <2>1 DEF FamilyInv, Family, NoLostWakeup
  <2>3. c # curr_pcb
    BY <1>10, <2>1, <2>2
  <2>4. deceased[p] = <<>>
    BY <2>1 DEF FamilyInv, Family, NoLostWakeup
  <2> QED BY <1>4, <1>6, <1>9, <2>1, <2>2, <2>3, <2>4
<1>15. FamilyConsistent'
  <2> SUFFICES ASSUME NEW p \in Pid, ~Defunct(p)'
               PROVE  /\ IsInjective(children'[p]) /\ IsInjective(deceased'[p])
                      /\ \A c \in User :
                           /\ Contains(children'[p], c) <=> (parent'[c] = p /\ Exists(c)' /\ ~Defunct(c)')
                           /\ Contains(deceased'[p], c) => (parent'[c] = p /\ Defunct(c)')
    BY DEF FamilyConsistent
  <2>1. /\ IsInjective(children[p]) /\ IsInjective(deceased[p])
        /\ \A c \in User :
             /\ Contains(children[p], c) <=> (parent[c] = p /\ Exists(c) /\ ~Defunct(c))
             /\ Contains(deceased[p], c) => (parent[c] = p /\ Defunct(c))
    BY <1>4 DEF FamilyInv, Family, FamilyConsistent
  <2>2. CASE p = dad
    BY <1>0, <1>4, <1>7, <1>8, <1>9, <1>10, <2>1, <2>2
  <2>3. CASE p # dad
    <3>1. children'[p] = children[p] /\ deceased'[p] = deceased[p]
      BY <1>4, <1>6, <2>3
    <3> QED BY <1>4, <1>9, <1>10, <2>1, <2>3, <3>1
  <2> QED BY <2>2, <2>3
<1> QED BY <1>11, <1>12, <1>13, <1>14, <1>15 DEF Family

(* Exit: the running process has a parent, and unless that is defunct its  *)
(* queues were not freed.                                                  *)
LEMMA ExitFamily ==
  ASSUME FamilyInv, curr_pcb # IDLE, NEW code, KernelExit(code)
  PROVE  Family'
<1>1. curr_pcb \in User /\ Exists(curr_pcb)
  BY SchedulerFacts DEF FamilyInv
<1>2. UserMode /\ kernel_context[curr_pcb] = "none"
  BY DEF KernelExit, UserMode, FamilyInv, Family, Contexts
<1>3. parent[curr_pcb] # NULL
  BY <1>1, <1>2 DEF FamilyInv, Family, Ancestry
<1>4. CASE Orphaned(curr_pcb)
  <2>1. ExitOrphan
    BY <1>4 DEF KernelExit
  <2> QED BY <1>2, <1>4, <2>1, ExitOrphanFamily
<1>5. CASE ~Orphaned(curr_pcb)
  <2>1. parent[curr_pcb] \notin freed
    BY <1>3, <1>5 DEF FamilyInv, Family, FreedAreDefunct, Orphaned
  <2>2. ExitToParent(parent[curr_pcb], code)
    BY <1>3, <1>5, <2>1 DEF KernelExit
  <2> QED BY <1>2, <1>3, <1>5, <2>2, ExitToParentFamily
<1> QED BY <1>4, <1>5

(* Every step of the kernel keeps the family together. *)
LEMMA FamilyStep == FamilyInv /\ [Next]_vars => FamilyInv'
<1> SUFFICES ASSUME FamilyInv, [Next]_vars
             PROVE  Family'
  BY SchedulerStep DEF FamilyInv
<1>1. ASSUME UNCHANGED <<curr_pcb, queues, family, kernel_context, mode, machine>>
      PROVE  Family'
  BY <1>1 DEF FamilyInv, Family, Ancestry, Contexts, FreedAreDefunct, FamilyConsistent,
              NoLostWakeup, WokenFindsChild, NoBadParent, Exists, Defunct, Blocked, queues, family
<1>2. CASE trap_clock_handler
  BY <1>2, ClockFamily
<1>3. CASE resume
  BY <1>3, ResumePlainFamily, BootFamily, ResumeWaitFamily DEF resume
<1>4. CASE trap_kernel_handler
  BY <1>1, <1>4, ForkFamily, ExitFamily, WaitFamily
     DEF trap_kernel_handler, KernelGetPid, KernelDelay
<1>5. CASE curr_pcb # IDLE /\ trap_fatal_handler
  BY <1>5, ExitFamily DEF trap_fatal_handler
<1>6. CASE UNCHANGED vars
  BY <1>1, <1>6 DEF vars
<1> QED BY <1>2, <1>3, <1>4, <1>5, <1>6 DEF Next

(* After boot init has no parent yet and nobody has children. *)
LEMMA FamilyInit == Init => FamilyInv
<1> SUFFICES ASSUME Init
             PROVE  Family
  BY SchedulerInit DEF FamilyInv
<1>1. /\ \A p : ~Blocked(p) /\ ~Defunct(p)
      /\ \A c \in User : Exists(c) <=> c = INIT
      /\ IDLE \in Pid /\ IDLE # INIT /\ User \subseteq Pid
  BY EmptyQueue, ProcessAssumption DEF Init, Blocked, Defunct, Exists, INIT, IDLE, User, Pid
<1>2. Ancestry /\ Contexts /\ FreedAreDefunct
  BY <1>1 DEF Init, Ancestry, Contexts, FreedAreDefunct
<1>3. FamilyConsistent
  <2>1. \A p \in Pid : p # NULL
    BY DEF Pid, NULL
  <2> QED BY <1>1, <2>1, EmptyQueue DEF Init, FamilyConsistent
<1>4. NoLostWakeup /\ WokenFindsChild /\ NoBadParent
  BY <1>1 DEF Init, NoLostWakeup, WokenFindsChild, NoBadParent
<1> QED BY <1>2, <1>3, <1>4 DEF Family

(* The invariant holds of every state. *)
LEMMA FamilyAlways == Spec => []FamilyInv
BY FamilyInit, FamilyStep, PTL DEF Spec

----------------------------------------------------------------------------
(* The properties of fork, exit and wait.                                  *)

(* The queues of a living process name exactly its living children, once,  *)
(* and otherwise only deceased ones, for any number of processes.          *)
THEOREM FamilyCorrect == Spec => []FamilyConsistent
<1>1. FamilyInv => FamilyConsistent
  BY DEF FamilyInv, Family
<1> QED BY <1>1, FamilyAlways, PTL

(* A process never blocks in Wait next to a deceased child it overlooks,   *)
(* and while it is blocked a living child remains that will wake it.       *)
THEOREM WakeupCorrect == Spec => []NoLostWakeup
<1>1. FamilyInv => NoLostWakeup
  BY DEF FamilyInv, Family
<1> QED BY <1>1, FamilyAlways, PTL

(* Whoever comes back from blocking in Wait has a deceased child to report.*)
THEOREM WokenCorrect == Spec => []WokenFindsChild
<1>1. FamilyInv => WokenFindsChild
  BY DEF FamilyInv, Family
<1> QED BY <1>1, FamilyAlways, PTL

(* KernelExit follows the parent pointer only to a process whose pcb and   *)
(* queues are still there.                                                 *)
THEOREM ParentCorrect == Spec => []NoBadParent
<1>1. FamilyInv => NoBadParent
  BY DEF FamilyInv, Family
<1> QED BY <1>1, FamilyAlways, PTL

(* The youngest of the blocked processes has a living child, which is      *)
(* younger still, so not blocked: it is running or ready.                  *)
LEMMA NotAllBlocked == FamilyInv => IdleOnlyAtTheEnd
<1> SUFFICES ASSUME FamilyInv, curr_pcb = IDLE, ready_queue = <<>>,
                    NEW b \in User, Exists(b), ~Defunct(b)
             PROVE  FALSE
  BY DEF IdleOnlyAtTheEnd
<1> DEFINE I == {MaxPid - p : p \in {q \in User : Blocked(q)}}
<1>1. IDLE \notin User /\ \A p : ~Contains(ready_queue, p)
  BY SchedulerFacts, EmptyQueue DEF FamilyInv
<1>2. \A p \in User : Exists(p) /\ ~Defunct(p) => Blocked(p)
  BY <1>1 DEF FamilyInv, SchedulerInv, SchedulerPartition, Exists
<1>3. I \subseteq Nat /\ I # {}
  <2>1. \A p \in User : MaxPid - p \in Nat
    BY ProcessAssumption DEF User
  <2>2. MaxPid - b \in I
    BY <1>2
  <2> QED BY <2>1, <2>2
<1>4. PICK x \in I : \A y \in I : x =< y
  <2> HIDE DEF I
  <2> QED BY <1>3, LeastNatural
<1>5. PICK p \in User : Blocked(p) /\ x = MaxPid - p
  BY <1>4
<1>6. PICK c \in User : Exists(c) /\ ~Defunct(c) /\ parent[c] = p
  BY <1>5 DEF FamilyInv, Family, NoLostWakeup
<1>7. p < c
  <2>1. p # NULL
    BY DEF User, NULL
  <2> QED BY <1>6, <2>1 DEF FamilyInv, Family, Ancestry
<1>8. MaxPid - c \in I
  BY <1>2, <1>6
<1>9. MaxPid - p =< MaxPid - c
  BY <1>4, <1>5, <1>8
<1> QED BY <1>7, <1>9, ProcessAssumption DEF User

(* Processes never end up all waiting for one another: the kernel idles    *)
(* only when every process has exited.                                     *)
THEOREM IdleCorrect == Spec => []IdleOnlyAtTheEnd
BY FamilyAlways, NotAllBlocked, PTL

(* The scheduler is given the blocked queue that it leaves. *)
LEMMA SwitchBlocked ==
  ASSUME NEW STATE ready, NEW STATE blocked, NEW STATE defunct, NEW where,
         switch_to_next_ready_process(ready, blocked, defunct, where)
  PROVE  blocked_queue' = blocked /\ defunct_queue' = defunct
BY DEF switch_to_next_ready_process

(* Only KernelExit shortens the blocked queue, and only by the parent of   *)
(* the process that exits.                                                 *)
LEMMA WakeStep ==
  ASSUME FamilyInv, [Next]_vars, NEW p \in User, Blocked(p), ~Blocked(p)'
  PROVE  \E c \in User : parent[c] = p /\ ~Defunct(c) /\ Defunct(c)'
<1>0. /\ curr_pcb # IDLE => curr_pcb \in User
      /\ blocked_queue \in Seq(User) /\ defunct_queue \in Seq(User)
      /\ IsInjective(blocked_queue) /\ ~Defunct(curr_pcb)
  BY SchedulerFacts DEF FamilyInv
<1>1. blocked_queue' # blocked_queue
  BY DEF Blocked
<1>2. ~trap_clock_handler
  BY <1>1, SwitchBlocked DEF trap_clock_handler
<1>3. ~resume
  BY <1>1 DEF resume, resume_switch, resume_boot, resume_fork, resume_wait, Resume, queues
<1>4. ~KernelFork /\ ~KernelGetPid /\ ~(\E ticks \in DelayTicks : KernelDelay(ticks))
  BY <1>1 DEF KernelFork, KernelGetPid, KernelDelay, queues
<1>5. ASSUME curr_pcb # IDLE, KernelWait
      PROVE  FALSE
  <2>1. blocked_queue' = Append(blocked_queue, curr_pcb)
    BY <1>1, <1>5, SwitchBlocked DEF KernelWait, queues
  <2>2. Contains(blocked_queue', p)
    BY <1>0, <1>5, <2>1, QputLemma DEF Blocked
  <2> QED BY <2>2 DEF Blocked
<1>6. ASSUME NEW code, curr_pcb # IDLE, KernelExit(code)
      PROVE  \E c \in User : parent[c] = p /\ ~Defunct(c) /\ Defunct(c)'
  <2>1. ExitToParent(parent[curr_pcb], code)
    BY <1>1, <1>6, SwitchBlocked DEF KernelExit, ExitOrphan, queues
  <2>2. /\ blocked_queue' = RemoveFirst(blocked_queue, parent[curr_pcb])
        /\ defunct_queue' = Append(defunct_queue, curr_pcb)
    BY <2>1, SwitchBlocked DEF ExitToParent
  <2>3. parent[curr_pcb] = p
    <3> DEFINE rest == RemoveFirst(blocked_queue, parent[curr_pcb])
    <3>1. p # parent[curr_pcb] => Contains(rest, p)
      BY <1>0, QremoveLemma DEF Blocked
    <3> QED BY <2>2, <3>1 DEF Blocked
  <2>4. PICK c \in User : c = curr_pcb
    BY <1>0, <1>6
  <2>5. Contains(defunct_queue', c)
    BY <1>0, <2>2, <2>4, QputLemma
  <2> QED BY <1>0, <2>3, <2>4, <2>5 DEF Defunct
<1>7. CASE trap_kernel_handler
  BY <1>4, <1>5, <1>6, <1>7 DEF trap_kernel_handler
<1>8. CASE curr_pcb # IDLE /\ trap_fatal_handler
  BY <1>6, <1>8 DEF trap_fatal_handler
<1>9. ~UNCHANGED vars
  BY <1>1 DEF vars, queues
<1> QED BY <1>2, <1>3, <1>7, <1>8, <1>9 DEF Next

(* A blocked process leaves the blocked queue only in the step in which a  *)
(* child of its own exits.                                                 *)
THEOREM WakesCorrect == Spec => OnlyChildWakes
<1> DEFINE Woken == \A p \in User : Blocked(p) /\ ~Blocked(p)' =>
                      \E c \in User : parent[c] = p /\ ~Defunct(c) /\ Defunct(c)'
<1>1. FamilyInv /\ [Next]_vars => [Woken]_vars
  BY WakeStep
<1>2. [][Woken]_vars => OnlyChildWakes
  BY DEF OnlyChildWakes
<1> HIDE DEF Woken
<1> QED BY <1>1, <1>2, FamilyAlways, PTL DEF Spec

----------------------------------------------------------------------------
(* The refinement of ProcessTree.                                          *)

(* Three more facts about the family: only init is ever suspended in       *)
(* KernelStart, nobody has an exit code before it exits, nobody exits      *)
(* before it has a parent, and idle has none.                              *)
OnlyInitBoots == \A p \in User : kernel_context[p] = "boot" => p = INIT
NoEarlyCode   == \A p \in Pid : ~Defunct(p) => exit_code[p] = SUCCESS

DeadHaveParents == \A p \in User : Defunct(p) => parent[p] # NULL
IdleParentless  == parent[IDLE] = NULL

TreeExtra == OnlyInitBoots /\ NoEarlyCode /\ DeadHaveParents /\ IdleParentless
TreeInv   == FamilyInv /\ TreeExtra

(* The tree, process by process, and as the functions that Tree maps to.   *)
StateOf(p) ==
  IF ~Exists(p) THEN "unborn"
  ELSE IF Defunct(p) THEN IF ~Orphaned(p) /\ Contains(deceased[parent[p]], p) THEN "zombie" ELSE "gone"
  ELSE IF kernel_context[p] = "wait" THEN "waiting" ELSE "live"
ParentOf(p)  == IF p = INIT THEN IDLE ELSE parent[p]
ZombiesOf(p) == IF Defunct(p) THEN <<>> ELSE deceased[p]
ResultOf(p)  == IF kernel_context[p] = "fork" THEN SUCCESS ELSE regs0[p]
AliveIn(p)   == StateOf(p) \in {"live", "waiting"}

TState   == [p \in Pid |-> StateOf(p)]
TParent  == [p \in Pid |-> ParentOf(p)]
TZombies == [p \in Pid |-> ZombiesOf(p)]
TAnswer  == [p \in Pid |-> <<ResultOf(p), status[p]>>]

(* What the tree keeps of each process. *)
Same(p) == 
  /\ StateOf(p)' = StateOf(p) /\ ParentOf(p)' = ParentOf(p) /\ ZombiesOf(p)' = ZombiesOf(p)
  /\ ResultOf(p)' = ResultOf(p) /\ status'[p] = status[p]

(* The functions of the tree are known by their values. *)
LEMMA TreeByProcess ==
  /\ TState = [q \in Pid |-> StateOf(q)] /\ TState' = [q \in Pid |-> StateOf(q)']
  /\ TParent = [q \in Pid |-> ParentOf(q)] /\ TParent' = [q \in Pid |-> ParentOf(q)']
  /\ TZombies = [q \in Pid |-> ZombiesOf(q)] /\ TZombies' = [q \in Pid |-> ZombiesOf(q)']
  /\ TAnswer = [q \in Pid |-> <<ResultOf(q), status[q]>>]
  /\ TAnswer' = [q \in Pid |-> <<ResultOf(q)', status'[q]>>]
BY DEF TState, TParent, TZombies, TAnswer

(* A step that changes nothing of the tree. *)
LEMMA TreeSame ==
  ASSUME \A q \in Pid : Same(q), exit_code' = exit_code
  PROVE  UNCHANGED Tree!tree
BY DEF Tree!tree, StateOf, ParentOf, ZombiesOf, ResultOf, Same

(* Fork of the tree. *)
LEMMA TreeFork ==
  ASSUME NEW p \in Pid, NEW c \in Pid, p # c,
         StateOf(p) = "live", StateOf(c) = "unborn",
         \A q \in Pid : /\ StateOf(q)' = IF q = c THEN "live" ELSE StateOf(q)
                        /\ ParentOf(q)' = IF q = c THEN p ELSE ParentOf(q)
                        /\ ZombiesOf(q)' = ZombiesOf(q)
                        /\ ResultOf(q)' = IF q = c THEN 0 ELSE IF q = p THEN c ELSE ResultOf(q)
                        /\ status'[q] = IF q = c THEN status[p] ELSE status[q],
         exit_code' = exit_code
  PROVE  Tree!Fork(p, c)
<1>1. TState[p] = "live" /\ TState[c] = "unborn" /\ TState' = [TState EXCEPT ![c] = "live"]
  BY TreeByProcess
<1>2. TParent' = [TParent EXCEPT ![c] = p] /\ TZombies' = TZombies
  BY TreeByProcess
<1>3. TAnswer' = [TAnswer EXCEPT ![p][1] = c, ![c] = <<0, TAnswer[p][2]>>]
  <2>1. [<<ResultOf(p), status[p]>> EXCEPT ![1] = c] = <<c, status[p]>>
    OBVIOUS
  <2> QED BY <2>1, TreeByProcess
<1> QED BY <1>1, <1>2, <1>3
        DEF Tree!Fork, TState, TParent, TZombies, TAnswer, StateOf, ParentOf, ZombiesOf, ResultOf

(* Exit of the tree, with a parent that keeps the zombie and without. *)
LEMMA TreeExit ==
  ASSUME NEW p \in Pid, NEW x, p # IDLE, StateOf(p) = "live", ParentOf(p) \in Pid,
         \A q \in Pid :
           /\ StateOf(q)' = IF q = p THEN IF AliveIn(ParentOf(p)) THEN "zombie" ELSE "gone"
                            ELSE IF Contains(ZombiesOf(p), q) THEN "gone" ELSE StateOf(q)
           /\ ParentOf(q)' = ParentOf(q)
           /\ ZombiesOf(q)' = IF q = p THEN <<>>
                              ELSE IF AliveIn(ParentOf(p)) /\ q = ParentOf(p) THEN Append(ZombiesOf(q), p)
                              ELSE ZombiesOf(q)
           /\ ResultOf(q)' = ResultOf(q) /\ status'[q] = status[q],
         exit_code' = [exit_code EXCEPT ![p] = IF AliveIn(ParentOf(p)) THEN x ELSE SUCCESS]
  PROVE  Tree!Exit(p, x)
<1> DEFINE kept == AliveIn(ParentOf(p))
<1>1. kept <=> TState[TParent[p]] \in {"live", "waiting"}
  BY TreeByProcess DEF AliveIn
<1>2. /\ TState[p] = "live"
      /\ TState' = [q \in Pid |->
                      IF q = p THEN IF kept THEN "zombie" ELSE "gone"
                      ELSE IF Contains(TZombies[p], q) THEN "gone" ELSE TState[q]]
  BY TreeByProcess
<1>3. TZombies' = [q \in Pid |->
                      IF q = p THEN <<>>
                      ELSE IF kept /\ q = TParent[p] THEN Append(TZombies[q], p)
                      ELSE TZombies[q]]
  BY TreeByProcess
<1>4. TParent' = TParent /\ TAnswer' = TAnswer
  BY TreeByProcess
<1> DEFINE K == TState[TParent[p]] \in {"live", "waiting"}
<1>5. K = kept
  BY <1>1 DEF AliveIn
<1>6. /\ TState' = [q \in Pid |->
                      IF q = p THEN IF K THEN "zombie" ELSE "gone"
                      ELSE IF Contains(TZombies[p], q) THEN "gone" ELSE TState[q]]
      /\ TZombies' = [q \in Pid |->
                      IF q = p THEN <<>>
                      ELSE IF K /\ q = TParent[p] THEN Append(TZombies[q], p)
                      ELSE TZombies[q]]
      /\ exit_code' = [exit_code EXCEPT ![p] = IF K THEN x ELSE SUCCESS]
  BY <1>2, <1>3, <1>5
<1> HIDE DEF K
<1>7. Tree!Alive(TParent[p]) = K
  BY DEF K, Tree!Alive, TState, StateOf
<1>8. /\ TState[p] = "live" /\ p # IDLE
      /\ TState' = [q \in Pid |->
                      IF q = p THEN IF Tree!Alive(TParent[p]) THEN "zombie" ELSE "gone"
                      ELSE IF Tree!Contains(TZombies[p], q) THEN "gone" ELSE TState[q]]
      /\ TZombies' = [q \in Pid |->
                      IF q = p THEN <<>>
                      ELSE IF Tree!Alive(TParent[p]) /\ q = TParent[p] THEN Append(TZombies[q], p)
                      ELSE TZombies[q]]
      /\ exit_code' = [exit_code EXCEPT ![p] = IF Tree!Alive(TParent[p]) THEN x ELSE SUCCESS]
      /\ TParent' = TParent /\ TAnswer' = TAnswer
  <2>1. \A q : Tree!Contains(TZombies[p], q) = Contains(TZombies[p], q)
    BY DEF Tree!Contains, Contains
  <2> QED BY <1>2, <1>4, <1>6, <1>7, <2>1
<1> QED BY <1>8
        DEF Tree!Exit, TState, TParent, TZombies, TAnswer, StateOf, ParentOf, ZombiesOf, ResultOf

(* Collect of the tree. *)
LEMMA TreeCollect ==
  ASSUME NEW p \in Pid, AliveIn(p), ZombiesOf(p) # <<>>,
         NEW c \in Pid, c = Head(ZombiesOf(p)), c # p,
         \A q \in Pid : /\ StateOf(q)' = IF q = c THEN "gone" ELSE IF q = p THEN "live" ELSE StateOf(q)
                        /\ ParentOf(q)' = ParentOf(q)
                        /\ ZombiesOf(q)' = IF q = p THEN Tail(ZombiesOf(q)) ELSE ZombiesOf(q)
                        /\ ResultOf(q)' = IF q = p THEN c ELSE ResultOf(q)
                        /\ status'[q] = IF q = p THEN exit_code[c] ELSE status[q],
         exit_code' = exit_code
  PROVE  Tree!Collect(p)
<1>1. /\ TState[p] \in {"live", "waiting"} /\ TZombies[p] # <<>> /\ c = Head(TZombies[p])
      /\ TState' = [TState EXCEPT ![p] = "live", ![c] = "gone"]
  BY TreeByProcess DEF AliveIn
<1>2. TParent' = TParent /\ TZombies' = [TZombies EXCEPT ![p] = Tail(TZombies[p])]
  BY TreeByProcess
<1>3. TAnswer' = [TAnswer EXCEPT ![p] = <<c, exit_code[c]>>]
  BY TreeByProcess
<1>4. /\ TAnswer' = [TAnswer EXCEPT ![p] = <<Head(TZombies[p]), exit_code[Head(TZombies[p])]>>]
      /\ TState' = [TState EXCEPT ![p] = "live", ![Head(TZombies[p])] = "gone"]
  BY <1>1, <1>3
<1> QED BY <1>1, <1>2, <1>4
        DEF Tree!Collect, Tree!Alive, TState, TParent, TZombies, TAnswer, StateOf, ParentOf, ZombiesOf, ResultOf

(* Block of the tree. *)
LEMMA TreeBlock ==
  ASSUME NEW p \in Pid, StateOf(p) = "live", ZombiesOf(p) = <<>>,
         \E c \in Pid : ParentOf(c) = p /\ AliveIn(c),
         \A q \in Pid : /\ StateOf(q)' = IF q = p THEN "waiting" ELSE StateOf(q)
                        /\ ParentOf(q)' = ParentOf(q) /\ ZombiesOf(q)' = ZombiesOf(q)
                        /\ ResultOf(q)' = ResultOf(q) /\ status'[q] = status[q],
         exit_code' = exit_code
  PROVE  Tree!Block(p)
<1>1. /\ TState[p] = "live" /\ TZombies[p] = <<>>
      /\ TState' = [TState EXCEPT ![p] = "waiting"]
      /\ \E c \in Pid : TParent[c] = p /\ TState[c] \in {"live", "waiting"}
  BY TreeByProcess DEF AliveIn
<1>2. TParent' = TParent /\ TZombies' = TZombies /\ TAnswer' = TAnswer
  BY TreeByProcess
<1> QED BY <1>1, <1>2
        DEF Tree!Block, Tree!Child, Tree!Alive, TState, TParent, TZombies, TAnswer, StateOf, ParentOf, ZombiesOf, ResultOf

(* NoChild and Other of the tree: only the result of the last call changes. *)
LEMMA TreeResult ==
  ASSUME NEW p \in Pid, StateOf(p) = "live", NEW val,
         \A q \in Pid : /\ StateOf(q)' = StateOf(q) /\ ParentOf(q)' = ParentOf(q)
                        /\ ZombiesOf(q)' = ZombiesOf(q) /\ status'[q] = status[q]
                        /\ ResultOf(q)' = IF q = p THEN val ELSE ResultOf(q),
         exit_code' = exit_code
  PROVE  /\ val \in {p, 0, ERROR} => Tree!Other(p)
         /\ /\ val = ERROR /\ ZombiesOf(p) = <<>>
            /\ \A c \in Pid : ~(ParentOf(c) = p /\ AliveIn(c))
            => Tree!NoChild(p)
<1>1. TState[p] = "live" /\ TState' = TState /\ TParent' = TParent /\ TZombies' = TZombies
  BY TreeByProcess
<1>2. TAnswer' = [TAnswer EXCEPT ![p][1] = val]
  <2>1. [<<ResultOf(p), status[p]>> EXCEPT ![1] = val] = <<val, status[p]>>
    OBVIOUS
  <2> QED BY <2>1, TreeByProcess
<1>3. /\ ZombiesOf(p) = <<>> => TZombies[p] = <<>>
      /\ (\A c \in Pid : ~(ParentOf(c) = p /\ AliveIn(c)))
           => \A c \in Pid : ~(TParent[c] = p /\ TState[c] \in {"live", "waiting"})
  BY TreeByProcess DEF AliveIn
<1>4. val \in {p, 0, ERROR} => Tree!Other(p)
  BY <1>1, <1>2
     DEF Tree!Other, TState, TParent, TZombies, TAnswer, StateOf, ParentOf, ZombiesOf, ResultOf
<1>5. ASSUME val = ERROR, TZombies[p] = <<>>,
             \A c \in Pid : ~(TParent[c] = p /\ TState[c] \in {"live", "waiting"})
      PROVE  Tree!NoChild(p)
  BY <1>1, <1>2, <1>5
     DEF Tree!NoChild, Tree!Child, Tree!Alive, TState, TParent, TZombies, TAnswer, StateOf, ParentOf, ZombiesOf, ResultOf
<1> QED BY <1>3, <1>4, <1>5

(* What the lemmas about the steps use of the invariant. *)
LEMMA TreeFacts ==
  ASSUME TreeInv
  PROVE  /\ curr_pcb \in Pid /\ IDLE \in Pid \ User /\ INIT \in User /\ User \subseteq Pid
         /\ curr_pcb # IDLE => curr_pcb \in User
         /\ Exists(curr_pcb) /\ ~Defunct(curr_pcb) /\ ~Blocked(curr_pcb) /\ ~Defunct(IDLE)
         /\ kernel_context \in [Pid -> Suspension]
         /\ regs0 \in [Pid -> Pid \cup {ERROR}] /\ status \in [Pid -> Code] /\ exit_code \in [Pid -> Code]
         /\ deceased \in [Pid -> Seq(User)]
         /\ mode = "user" => /\ kernel_context[curr_pcb] = "none"
                             /\ StateOf(curr_pcb) = "live" /\ AliveIn(curr_pcb)
                             /\ ZombiesOf(curr_pcb) = deceased[curr_pcb]
         /\ \A c \in User : parent[c] # NULL => ParentOf(c) = parent[c] /\ parent[c] \in Pid
         /\ \A p : Defunct(p) => p \in User /\ Exists(p) /\ parent[p] \in Pid
<1>1. /\ curr_pcb \in Pid /\ IDLE \in Pid \ User /\ INIT \in User /\ User \subseteq Pid
      /\ curr_pcb # IDLE => curr_pcb \in User
      /\ Exists(IDLE) /\ ~Defunct(IDLE)
      /\ ~Defunct(curr_pcb) /\ ~Blocked(curr_pcb)
      /\ curr_pcb # IDLE => Exists(curr_pcb)
      /\ kernel_context \in [Pid -> Suspension]
      /\ regs0 \in [Pid -> Pid \cup {ERROR}] /\ status \in [Pid -> Code] /\ exit_code \in [Pid -> Code]
      /\ deceased \in [Pid -> Seq(User)]
  <2>1. next_pid \in 2..(MaxPid + 1)
    BY DEF TreeInv, FamilyInv, SchedulerInv, TypeInv, TypeOK
  <2>2. INIT \in User /\ Exists(IDLE)
    BY <2>1, ProcessAssumption DEF INIT, IDLE, User, Exists
  <2> QED BY <2>2, SchedulerFacts DEF TreeInv, FamilyInv, SchedulerInv, TypeInv, TypeOK
<1>2. mode = "user" => kernel_context[curr_pcb] = "none"
  BY DEF TreeInv, FamilyInv, Family, Contexts
<1>3. ASSUME NEW c \in User, parent[c] # NULL
      PROVE  ParentOf(c) = parent[c] /\ parent[c] \in Pid
  <2>1. parent[c] < c /\ parent[c] \in Pid
    BY <1>1, <1>3, SchedulerFacts DEF TreeInv, FamilyInv, Family, Ancestry
  <2> QED BY <2>1 DEF ParentOf, INIT, IDLE, Pid
<1>4. \A p : Defunct(p) => p \in User /\ Exists(p) /\ parent[p] \in Pid
  BY <1>3, SchedulerFacts DEF TreeInv, TreeExtra, DeadHaveParents, FamilyInv
<1> QED BY <1>1, <1>2, <1>3, <1>4 DEF StateOf, AliveIn, ZombiesOf

(* Where only queues of the scheduler and suspensions other than in Wait,  *)
(* Fork and KernelStart change, the tree stays.                            *)
LEMMA TreeStays ==
  ASSUME UNCHANGED <<next_pid, parent, deceased, exit_code, defunct_queue, status>>,
         \A p \in Pid : /\ kernel_context'[p] = "wait" <=> kernel_context[p] = "wait"
                        /\ ResultOf(p)' = ResultOf(p)
                        /\ kernel_context'[p] = "boot" => kernel_context[p] = "boot",
         TreeInv
  PROVE  UNCHANGED Tree!tree /\ TreeExtra'
<1>1. \A p : /\ Defunct(p)' <=> Defunct(p)
             /\ Exists(p)' <=> Exists(p)
             /\ Orphaned(p)' <=> Orphaned(p)
  BY DEF Defunct, Exists, Orphaned
<1>2. \A p \in Pid : Same(p)
  BY <1>1 DEF Same, StateOf, ParentOf, ZombiesOf
<1>3. UNCHANGED Tree!tree
  BY <1>2, TreeSame
<1>4. TreeExtra'
  BY <1>1, TreeFacts DEF TreeInv, TreeExtra, OnlyInitBoots, NoEarlyCode, DeadHaveParents, IdleParentless
<1> QED BY <1>3, <1>4

(* A clock trap is no step of the tree. *)
LEMMA ClockTree ==
  ASSUME TreeInv, trap_clock_handler
  PROVE  UNCHANGED Tree!tree /\ TreeExtra'
<1>1. /\ UNCHANGED <<next_pid, parent, deceased, exit_code, regs0, status>>
      /\ mode = "user" /\ kernel_context[curr_pcb] = "none"
  BY TreeFacts DEF trap_clock_handler, UserMode, family, result
<1>2. /\ defunct_queue' = defunct_queue
      /\ \A p \in Pid : p # curr_pcb => kernel_context'[p] = kernel_context[p]
      /\ kernel_context'[curr_pcb] \in {"none", "switch"}
  BY <1>1, SwitchContext DEF trap_clock_handler, TreeInv, FamilyInv, SchedulerInv
<1>3. \A p \in Pid : /\ kernel_context'[p] = "wait" <=> kernel_context[p] = "wait"
                     /\ ResultOf(p)' = ResultOf(p)
                     /\ kernel_context'[p] = "boot" => kernel_context[p] = "boot"
  BY <1>1, <1>2 DEF ResultOf
<1> QED BY <1>1, <1>2, <1>3, TreeStays

(* Nor is the way back from a clock trap, or into a child of Fork, whose    *)
(* result the tree has shown since the fork.                               *)
LEMMA ResumePlainTree ==
  ASSUME TreeInv, resume_switch \/ resume_fork
  PROVE  UNCHANGED Tree!tree /\ TreeExtra'
<1>1. PICK where \in {"switch", "fork"} :
        /\ Resume(where)
        /\ regs0' = IF where = "fork" THEN [regs0 EXCEPT ![curr_pcb] = SUCCESS] ELSE regs0
  BY DEF resume_switch, resume_fork, result, Return
<1>2. UNCHANGED <<next_pid, parent, deceased, exit_code, status>>
  BY DEF resume_switch, resume_fork, family, result
<1>3. /\ defunct_queue' = defunct_queue
      /\ kernel_context[curr_pcb] = where
      /\ kernel_context'[curr_pcb] = "none"
      /\ \A p \in Pid : p # curr_pcb => kernel_context'[p] = kernel_context[p]
  <2>1. where \in Suspension
    BY DEF Suspension
  <2> QED BY <1>1, <2>1, ResumeContext DEF TreeInv
<1>4. \A p \in Pid : /\ kernel_context'[p] = "wait" <=> kernel_context[p] = "wait"
                     /\ ResultOf(p)' = ResultOf(p)
                     /\ kernel_context'[p] = "boot" => kernel_context[p] = "boot"
  BY <1>1, <1>3, TreeFacts DEF ResultOf
<1> QED BY <1>2, <1>3, <1>4, TreeStays

(* Init, back in KernelStart, becomes the child of idle that it already is *)
(* in the tree.                                                            *)
LEMMA BootTree ==
  ASSUME TreeInv, resume_boot
  PROVE  UNCHANGED Tree!tree /\ TreeExtra'
<1>1. /\ parent' = [parent EXCEPT ![curr_pcb] = IDLE]
      /\ UNCHANGED <<next_pid, deceased, exit_code, regs0, status>>
      /\ Resume("boot") /\ "boot" \in Suspension
  BY DEF resume_boot, Suspension, result
<1>2. /\ defunct_queue' = defunct_queue
      /\ kernel_context[curr_pcb] = "boot"
      /\ kernel_context'[curr_pcb] = "none"
      /\ \A p \in Pid : p # curr_pcb => kernel_context'[p] = kernel_context[p]
  BY <1>1, ResumeContext DEF TreeInv
<1>3. curr_pcb = INIT /\ INIT # IDLE
  BY <1>2, TreeFacts DEF TreeInv, FamilyInv, SchedulerInv, TypeInv, IdleContext, TreeExtra, OnlyInitBoots, INIT, IDLE
<1>4. \A p : /\ Defunct(p)' <=> Defunct(p)
             /\ Exists(p)' <=> Exists(p)
  BY <1>1, <1>2 DEF Defunct, Exists
<1>5. /\ \A p \in Pid : Defunct(p) => p # curr_pcb /\ parent'[p] = parent[p]
      /\ parent'[IDLE] = parent[IDLE]
  BY <1>1, <1>3, TreeFacts
<1>6. \A p \in Pid : Same(p)
  BY <1>1, <1>2, <1>3, <1>4, <1>5, TreeFacts DEF Same, StateOf, ParentOf, ZombiesOf, ResultOf, Orphaned, Defunct
<1>7. UNCHANGED Tree!tree
  BY <1>1, <1>6, TreeSame
<1>8. TreeExtra'
  BY <1>1, <1>2, <1>4, <1>5, TreeFacts DEF TreeInv, TreeExtra, OnlyInitBoots, NoEarlyCode, DeadHaveParents, IdleParentless
<1> QED BY <1>7, <1>8

(* Fork is Fork of the tree, with the next pid for the child. *)
LEMMA ForkTree ==
  ASSUME TreeInv, curr_pcb # IDLE, KernelFork
  PROVE  /\ \E p, c \in Pid : Tree!Fork(p, c)
         /\ TreeExtra'
<1> DEFINE new == next_pid
<1>1. /\ new \in Pid /\ next_pid' = new + 1
      /\ kernel_context' = [kernel_context EXCEPT ![new] = "fork"]
      /\ parent' = [parent EXCEPT ![new] = curr_pcb]
      /\ regs0' = [regs0 EXCEPT ![curr_pcb] = new, ![new] = regs0[curr_pcb]]
      /\ status' = [status EXCEPT ![new] = status[curr_pcb]]
      /\ UNCHANGED <<defunct_queue, deceased, exit_code>>
      /\ mode = "user"
  BY DEF KernelFork, UserMode
<1>2. PICK n \in Pid : n = new
  BY <1>1
<1>3. /\ ~Exists(n) /\ n # curr_pcb /\ n # INIT /\ n \in User
      /\ \A p \in Pid : Exists(p)' <=> Exists(p) \/ p = n
  <2>1. next_pid \in 2..(MaxPid + 1)
    BY DEF TreeInv, FamilyInv, SchedulerInv, TypeInv, TypeOK
  <2> QED BY <1>1, <1>2, <2>1, TreeFacts DEF Exists, INIT, Pid, User
<1>4. /\ \A p : Defunct(p)' <=> Defunct(p)
      /\ \A p : Defunct(p) => Exists(p)
      /\ parent \in [Pid -> Pid \cup {NULL}]
  BY <1>1, SchedulerFacts DEF Defunct, TreeInv, FamilyInv
<1>5. /\ ~Defunct(n) /\ parent'[n] = curr_pcb /\ kernel_context'[n] = "fork"
      /\ kernel_context[curr_pcb] = "none"
      /\ \A p \in Pid \ {n} : parent'[p] = parent[p] /\ kernel_context'[p] = kernel_context[p]
      /\ \A p \in Pid : /\ status'[p] = IF p = n THEN status[curr_pcb] ELSE status[p]
                        /\ p # n => regs0'[p] = IF p = curr_pcb THEN n ELSE regs0[p]
  BY <1>1, <1>2, <1>3, <1>4, TreeFacts
<1> HIDE DEF new
<1>6. \A p \in Pid : p # n => (Orphaned(p)' <=> Orphaned(p))
  BY <1>4, <1>5 DEF Orphaned, Defunct
<1>7. \A q \in Pid :
        /\ StateOf(q)' = IF q = n THEN "live" ELSE StateOf(q)
        /\ ParentOf(q)' = IF q = n THEN curr_pcb ELSE ParentOf(q)
        /\ ZombiesOf(q)' = ZombiesOf(q)
        /\ ResultOf(q)' = IF q = n THEN 0 ELSE IF q = curr_pcb THEN n ELSE ResultOf(q)
        /\ status'[q] = IF q = n THEN status[curr_pcb] ELSE status[q]
  <2> TAKE q \in Pid
  <2>1. StateOf(q)' = IF q = n THEN "live" ELSE StateOf(q)
    BY <1>1, <1>3, <1>4, <1>5, <1>6 DEF StateOf
  <2>2. ParentOf(q)' = IF q = n THEN curr_pcb ELSE ParentOf(q)
    BY <1>3, <1>5 DEF ParentOf
  <2>3. ZombiesOf(q)' = ZombiesOf(q)
    BY <1>1, <1>4 DEF ZombiesOf
  <2>4. ResultOf(q)' = IF q = n THEN 0 ELSE IF q = curr_pcb THEN n ELSE ResultOf(q)
    BY <1>3, <1>5 DEF ResultOf, SUCCESS
  <2> QED BY <1>5, <2>1, <2>2, <2>3, <2>4
<1>8. StateOf(n) = "unborn" /\ StateOf(curr_pcb) = "live" /\ curr_pcb \in Pid
  BY <1>1, <1>3, TreeFacts DEF StateOf
<1>9. Tree!Fork(curr_pcb, n)
  <2>1. PICK p \in Pid : p = curr_pcb
    BY <1>8
  <2> QED BY <1>1, <1>3, <1>7, <1>8, <2>1, TreeFork
<1>10. TreeExtra'
  BY <1>1, <1>3, <1>4, <1>5, TreeFacts DEF TreeInv, TreeExtra, OnlyInitBoots, NoEarlyCode, DeadHaveParents, IdleParentless
<1> QED BY <1>2, <1>8, <1>9, <1>10

(* GetPid and Delay are nothing to the tree but their result. *)
LEMMA ResultTree ==
  ASSUME TreeInv, mode = "user", NEW val, regs0' = [regs0 EXCEPT ![curr_pcb] = val],
         UNCHANGED <<next_pid, parent, deceased, exit_code, defunct_queue, kernel_context, status>>
  PROVE  /\ \A p \in Pid : p = curr_pcb /\ val \in {p, 0, ERROR} => Tree!Other(p)
         /\ \A p \in Pid : /\ p = curr_pcb /\ val = ERROR /\ deceased[p] = <<>>
                           /\ \A c \in Pid : ~(ParentOf(c) = p /\ AliveIn(c))
                           => Tree!NoChild(p)
         /\ TreeExtra'
<1>1. PICK p \in Pid : p = curr_pcb
  BY TreeFacts
<1>2. \A q : /\ Defunct(q)' <=> Defunct(q)
             /\ Exists(q)' <=> Exists(q)
             /\ Orphaned(q)' <=> Orphaned(q)
  BY DEF Defunct, Exists, Orphaned
<1>3. \A q \in Pid : /\ StateOf(q)' = StateOf(q) /\ ParentOf(q)' = ParentOf(q)
                     /\ ZombiesOf(q)' = ZombiesOf(q) /\ status'[q] = status[q]
  BY <1>2 DEF StateOf, ParentOf, ZombiesOf
<1>4. \A q \in Pid : ResultOf(q)' = IF q = p THEN val ELSE ResultOf(q)
  BY <1>1, TreeFacts DEF ResultOf
<1>5. StateOf(p) = "live" /\ ZombiesOf(p) = deceased[p]
  BY <1>1, TreeFacts
<1>6. /\ val \in {p, 0, ERROR} => Tree!Other(p)
      /\ /\ val = ERROR /\ ZombiesOf(p) = <<>>
         /\ \A c \in Pid : ~(ParentOf(c) = p /\ AliveIn(c))
         => Tree!NoChild(p)
  BY <1>3, <1>4, <1>5, TreeResult
<1>7. TreeExtra'
  BY <1>2, TreeFacts DEF TreeInv, TreeExtra, OnlyInitBoots, NoEarlyCode, DeadHaveParents, IdleParentless
<1> QED BY <1>1, <1>5, <1>6, <1>7

(* The end of Wait collects the oldest zombie, or fails if there is none:  *)
(* at once only in a process without a child.                              *)
LEMMA CollectTree ==
  ASSUME TreeInv, curr_pcb # IDLE, Collect,
         AliveIn(curr_pcb), kernel_context'[curr_pcb] = "none", kernel_context[curr_pcb] # "fork",
         \A p \in Pid : p # curr_pcb => kernel_context'[p] = kernel_context[p],
         deceased[curr_pcb] # <<>>,
         UNCHANGED <<next_pid, parent, exit_code, defunct_queue>>
  PROVE  /\ \E p \in Pid : Tree!Collect(p)
         /\ TreeExtra'
<1>1. PICK p \in Pid : p = curr_pcb
  BY TreeFacts
<1>2. /\ p \in User /\ ~Defunct(p) /\ Exists(p) /\ deceased[p] \in Seq(User)
      /\ IsInjective(deceased[p]) /\ deceased[p] # <<>>
      /\ \A q \in User : Contains(deceased[p], q) => parent[q] = p /\ Defunct(q)
  BY <1>1, TreeFacts DEF TreeInv, FamilyInv, Family, FamilyConsistent
<1>3. PICK c \in Pid : c \in User /\ c = Head(deceased[p]) /\ Contains(deceased[p], c)
  BY <1>2, QgetLemma, TreeFacts
<1>4. /\ \A x : Contains(Tail(deceased[p]), x) <=> Contains(deceased[p], x) /\ x # c
  BY <1>2, <1>3, QgetLemma
<1>5. /\ deceased' = [deceased EXCEPT ![p] = Tail(deceased[p])]
      /\ status' = [status EXCEPT ![p] = exit_code[c]]
      /\ regs0' = [regs0 EXCEPT ![p] = c]
  BY <1>1, <1>3 DEF Collect, Return
<1>6. Defunct(c) /\ parent[c] = p /\ c # p
  BY <1>2, <1>3
<1>7. \A q : /\ Defunct(q)' <=> Defunct(q)
             /\ Exists(q)' <=> Exists(q)
             /\ Orphaned(q)' <=> Orphaned(q)
  BY DEF Defunct, Exists, Orphaned
<1>8. \A q \in Pid : deceased'[q] = IF q = p THEN Tail(deceased[p]) ELSE deceased[q]
  BY <1>5, TreeFacts
<1>9. \A q \in Pid : Defunct(q) => q # p /\ parent[q] \in Pid /\ (Contains(deceased[p], q) => parent[q] = p)
  BY <1>2, TreeFacts
<1>10. \A q \in Pid : StateOf(q)' = IF q = c THEN "gone" ELSE IF q = p THEN "live" ELSE StateOf(q)
  <2> TAKE q \in Pid
  <2>1. CASE q = c
    <3>1. parent'[c] = p /\ ~Contains(deceased'[p], c) /\ Defunct(c)' /\ Exists(c)'
      BY <1>1, <1>4, <1>6, <1>7, <1>8, TreeFacts
    <3> QED BY <2>1, <3>1 DEF StateOf
  <2>2. CASE q = p
    BY <1>1, <1>2, <1>6, <1>7, <2>2 DEF StateOf
  <2>3. CASE q # p /\ q # c /\ ~Defunct(q)
    BY <1>1, <1>7, <2>3 DEF StateOf
  <2>4. CASE q # p /\ q # c /\ Defunct(q)
    <3>1. Contains(deceased'[parent[q]], q) <=> Contains(deceased[parent[q]], q)
      BY <1>4, <1>8, <1>9, <2>4
    <3> QED BY <1>7, <2>4, <3>1 DEF StateOf
  <2> QED BY <2>1, <2>2, <2>3, <2>4
<1>11. \A q \in Pid :
         /\ ParentOf(q)' = ParentOf(q)
         /\ ZombiesOf(q)' = IF q = p THEN Tail(ZombiesOf(q)) ELSE ZombiesOf(q)
         /\ ResultOf(q)' = IF q = p THEN c ELSE ResultOf(q)
         /\ status'[q] = IF q = p THEN exit_code[c] ELSE status[q]
  BY <1>1, <1>2, <1>5, <1>7, <1>8, TreeFacts DEF ParentOf, ZombiesOf, ResultOf
<1>12. AliveIn(p) /\ ZombiesOf(p) # <<>> /\ c = Head(ZombiesOf(p))
  BY <1>1, <1>2, <1>3 DEF ZombiesOf
<1>13. Tree!Collect(p)
  BY <1>6, <1>10, <1>11, <1>12, TreeCollect
<1>14. TreeExtra'
  BY <1>1, <1>7, TreeFacts DEF TreeInv, TreeExtra, OnlyInitBoots, NoEarlyCode, DeadHaveParents, IdleParentless
<1> QED BY <1>13, <1>14

(* A process back from blocking in Wait. *)
LEMMA ResumeWaitTree ==
  ASSUME TreeInv, resume_wait
  PROVE  /\ \E p \in Pid : Tree!Collect(p)
         /\ TreeExtra'
<1>1. /\ Resume("wait") /\ "wait" \in Suspension /\ Collect
      /\ UNCHANGED <<next_pid, parent, exit_code>>
  BY DEF resume_wait, Suspension
<1>2. /\ defunct_queue' = defunct_queue
      /\ kernel_context[curr_pcb] = "wait"
      /\ kernel_context'[curr_pcb] = "none"
      /\ \A p \in Pid : p # curr_pcb => kernel_context'[p] = kernel_context[p]
  BY <1>1, ResumeContext DEF TreeInv
<1>3. curr_pcb # IDLE
  BY <1>2 DEF TreeInv, FamilyInv, SchedulerInv, TypeInv, IdleContext
<1>4. deceased[curr_pcb] # <<>>
  BY <1>2, <1>3, TreeFacts DEF TreeInv, FamilyInv, Family, WokenFindsChild
<1>5. AliveIn(curr_pcb)
  BY <1>2, TreeFacts DEF AliveIn, StateOf
<1> QED BY <1>1, <1>2, <1>3, <1>4, <1>5, CollectTree

(* A living child is one of the tree, and the other way round. *)
LEMMA ChildTree ==
  ASSUME TreeInv, curr_pcb # IDLE
  PROVE  \A c \in Pid : ParentOf(c) = curr_pcb /\ AliveIn(c) <=>
                        c \in User /\ Contains(children[curr_pcb], c)
<1>1. \A c \in Pid : AliveIn(c) <=> Exists(c) /\ ~Defunct(c)
  BY DEF AliveIn, StateOf
<1>2. \A c \in User : Contains(children[curr_pcb], c) <=> parent[c] = curr_pcb /\ Exists(c) /\ ~Defunct(c)
  BY TreeFacts DEF TreeInv, FamilyInv, Family, FamilyConsistent
<1>3. \A c \in User : ParentOf(c) = curr_pcb <=> parent[c] = curr_pcb
  <2>1. curr_pcb # NULL /\ curr_pcb \in User
    BY TreeFacts DEF NULL, User
  <2> QED BY <2>1, TreeFacts DEF ParentOf
<1>4. ParentOf(IDLE) # curr_pcb
  <2>1. parent[IDLE] = NULL
    BY DEF TreeInv, TreeExtra, IdleParentless
  <2>2. curr_pcb # NULL /\ IDLE # INIT
    BY TreeFacts DEF NULL, Pid, IDLE, INIT
  <2> QED BY <2>1, <2>2 DEF ParentOf
<1>5. \A c \in Pid : c \in User \/ c = IDLE
  BY DEF Pid, User, IDLE
<1> QED BY <1>1, <1>2, <1>3, <1>4, <1>5, TreeFacts

(* Wait collects, fails in a process without a child, or blocks. *)
LEMMA WaitTree ==
  ASSUME TreeInv, curr_pcb # IDLE, KernelWait
  PROVE  /\ \E p \in Pid : Tree!Collect(p) \/ Tree!NoChild(p) \/ Tree!Block(p)
         /\ TreeExtra'
<1>1. /\ mode = "user" /\ UNCHANGED <<next_pid, parent, exit_code>>
      /\ kernel_context[curr_pcb] = "none"
  BY TreeFacts DEF KernelWait, UserMode
<1>2. CASE /\ Collect /\ deceased[curr_pcb] # <<>>
           /\ UNCHANGED <<curr_pcb, queues, kernel_context, mode>>
  BY <1>1, <1>2, CollectTree, TreeFacts DEF queues
<1>3. CASE /\ Collect /\ children[curr_pcb] = <<>> /\ deceased[curr_pcb] = <<>>
           /\ UNCHANGED <<curr_pcb, queues, kernel_context, mode>>
  <2>1. regs0' = [regs0 EXCEPT ![curr_pcb] = ERROR] /\ UNCHANGED <<deceased, status, defunct_queue, kernel_context>>
    BY <1>3 DEF Collect, Return, queues
  <2>2. \A c \in Pid : ~(ParentOf(c) = curr_pcb /\ AliveIn(c))
    BY <1>3, ChildTree, EmptyQueue
  <2>3. PICK p \in Pid : p = curr_pcb
    BY TreeFacts
  <2>4. Tree!NoChild(p) /\ TreeExtra'
    <3> DEFINE val == ERROR
    <3>1. regs0' = [regs0 EXCEPT ![curr_pcb] = val] /\ val = ERROR
      BY <2>1
    <3> HIDE DEF val
    <3> QED BY <1>1, <1>3, <2>1, <2>2, <2>3, <3>1, ResultTree
  <2> QED BY <2>3, <2>4
<1>4. CASE /\ children[curr_pcb] # <<>> /\ deceased[curr_pcb] = <<>>
           /\ switch_to_next_ready_process(ready_queue, Append(blocked_queue, curr_pcb),
                                           defunct_queue, "wait")
           /\ UNCHANGED <<deceased, result>>
  <2>1. /\ defunct_queue' = defunct_queue
        /\ \A p \in Pid : p # curr_pcb => kernel_context'[p] = kernel_context[p]
        /\ kernel_context'[curr_pcb] = "wait"
    BY <1>1, <1>4, SwitchContext DEF TreeInv, FamilyInv, SchedulerInv
  <2>2. UNCHANGED <<deceased, regs0, status>>
    BY <1>4 DEF result
  <2>3. \A q : /\ Defunct(q)' <=> Defunct(q)
               /\ Exists(q)' <=> Exists(q)
               /\ Orphaned(q)' <=> Orphaned(q)
    BY <1>1, <2>1 DEF Defunct, Exists, Orphaned
  <2>4. PICK p \in Pid : p = curr_pcb
    BY TreeFacts
  <2>5. \A q \in Pid : /\ StateOf(q)' = IF q = p THEN "waiting" ELSE StateOf(q)
                       /\ ParentOf(q)' = ParentOf(q) /\ ZombiesOf(q)' = ZombiesOf(q)
                       /\ ResultOf(q)' = ResultOf(q) /\ status'[q] = status[q]
    BY <1>1, <2>1, <2>2, <2>3, <2>4, TreeFacts DEF StateOf, ParentOf, ZombiesOf, ResultOf
  <2>6. \E c \in Pid : ParentOf(c) = p /\ AliveIn(c)
    <3>1. children[curr_pcb] \in Seq(User)
      BY SchedulerFacts DEF TreeInv, FamilyInv
    <3>2. Head(children[curr_pcb]) \in User /\ Contains(children[curr_pcb], Head(children[curr_pcb]))
      BY <1>4, <3>1, QgetLemma
    <3> QED BY <2>4, <3>2, ChildTree, TreeFacts
  <2>7. StateOf(p) = "live" /\ ZombiesOf(p) = <<>>
    BY <1>1, <1>4, <2>4, TreeFacts
  <2>8. Tree!Block(p)
    BY <1>1, <2>5, <2>6, <2>7, TreeBlock
  <2>9. TreeExtra'
    BY <1>1, <2>1, <2>3, <2>4, TreeFacts DEF TreeInv, TreeExtra, OnlyInitBoots, NoEarlyCode, DeadHaveParents, IdleParentless
  <2> QED BY <2>4, <2>8, <2>9
<1> QED BY <1>2, <1>3, <1>4 DEF KernelWait

(* What both kinds of exit have in common. *)
LEMMA ExitTree ==
  ASSUME TreeInv, NEW p \in Pid, p = curr_pcb, p # IDLE, mode = "user", NEW x,
         NEW kept \in BOOLEAN, kept <=> ~Orphaned(p),
         \A q : Defunct(q)' <=> Defunct(q) \/ q = p,
         \A q \in Pid : q # p => kernel_context'[q] = kernel_context[q],
         kernel_context'[p] = "switch",
         \A q \in Pid : q # p =>
           deceased'[q] = IF kept /\ q = parent[p] THEN Append(deceased[q], p) ELSE deceased[q],
         exit_code' = IF kept THEN [exit_code EXCEPT ![p] = x] ELSE exit_code,
         UNCHANGED <<next_pid, parent, regs0, status>>
  PROVE  Tree!Exit(p, x) /\ TreeExtra'
<1>1. /\ p \in User /\ Exists(p) /\ ~Defunct(p) /\ deceased[p] \in Seq(User)
      /\ kernel_context[p] = "none" /\ StateOf(p) = "live" /\ ZombiesOf(p) = deceased[p]
      /\ exit_code \in [Pid -> Code] /\ exit_code[p] = SUCCESS
      /\ \A q : Exists(q)' <=> Exists(q)
      /\ \A q \in User : Contains(deceased[p], q) => Defunct(q) /\ parent[q] = p
  BY TreeFacts DEF TreeInv, TreeExtra, NoEarlyCode, FamilyInv, Family, FamilyConsistent, Exists
<1>2. /\ parent[p] # NULL /\ parent[p] \in Pid /\ parent[p] # p /\ ParentOf(p) = parent[p]
      /\ Exists(parent[p])
  BY <1>1, SchedulerFacts, TreeFacts DEF TreeInv, FamilyInv, Family, Ancestry, Exists
<1>3. kept <=> AliveIn(ParentOf(p))
  BY <1>2 DEF AliveIn, StateOf, Orphaned
<1>4. \A q \in Pid : Defunct(q) => /\ q \in User /\ q # p /\ Exists(q) /\ parent[q] \in Pid /\ parent[q] # NULL
                                   /\ Orphaned(q)' <=> Orphaned(q) \/ parent[q] = p
  BY <1>1, TreeFacts DEF Orphaned, Defunct, NULL, Pid
<1>5. \A q : Contains(deceased[p], q) => q \in User
  BY <1>1, ElementOfSeq, LenProperties DEF Contains
<1>6. \A q \in Pid : q # p /\ parent[q] \in Pid \ {p} =>
        (Contains(deceased'[parent[q]], q) <=> Contains(deceased[parent[q]], q))
  <2> TAKE q \in Pid
  <2>1. CASE kept /\ parent[q] = parent[p]
    <3>1. deceased[parent[p]] \in Seq(User) /\ deceased'[parent[p]] = Append(deceased[parent[p]], p)
      BY <1>2, <2>1, TreeFacts
    <3>2. q # p => (Contains(Append(deceased[parent[p]], p), q) <=> Contains(deceased[parent[p]], q))
      BY <1>1, <3>1, QputLemma
    <3> QED BY <2>1, <3>1, <3>2
  <2>2. CASE ~(kept /\ parent[q] = parent[p])
    BY <2>2
  <2> QED BY <2>1, <2>2
<1>7. \A q \in Pid : StateOf(q)' = IF q = p THEN IF kept THEN "zombie" ELSE "gone"
                                   ELSE IF Contains(ZombiesOf(p), q) THEN "gone" ELSE StateOf(q)
  <2> TAKE q \in Pid
  <2>1. CASE q = p
    <3>1. Orphaned(p)' <=> ~kept
      BY <1>2 DEF Orphaned, Defunct
    <3>2. kept => Contains(deceased'[parent[p]], p)
      <4>1. kept => deceased'[parent[p]] = Append(deceased[parent[p]], p) /\ deceased[parent[p]] \in Seq(User)
        BY <1>2, TreeFacts
      <4>2. kept => Contains(Append(deceased[parent[p]], p), p)
        BY <1>1, <4>1, QputLemma
      <4> QED BY <4>1, <4>2
    <3>3. Exists(p)' /\ Defunct(p)' /\ parent'[p] = parent[p]
      BY <1>1
    <3> QED BY <2>1, <3>1, <3>2, <3>3 DEF StateOf
  <2>2. CASE q # p /\ ~Defunct(q)
    <3>1. ~Contains(ZombiesOf(p), q)
      BY <1>1, <1>5, <2>2
    <3> QED BY <1>1, <2>2, <3>1 DEF StateOf
  <2>3. CASE q # p /\ Defunct(q) /\ parent[q] = p
    BY <1>1, <1>4, <2>3 DEF StateOf
  <2>4. CASE q # p /\ Defunct(q) /\ parent[q] # p
    <3>1. ~Contains(ZombiesOf(p), q)
      BY <1>1, <1>5, <2>4
    <3>2. Contains(deceased'[parent[q]], q) <=> Contains(deceased[parent[q]], q)
      BY <1>4, <1>6, <2>4
    <3> QED BY <1>1, <1>4, <2>4, <3>1, <3>2 DEF StateOf
  <2> QED BY <2>1, <2>2, <2>3, <2>4
<1>8. \A q \in Pid :
        /\ ParentOf(q)' = ParentOf(q)
        /\ ZombiesOf(q)' = IF q = p THEN <<>>
                           ELSE IF kept /\ q = ParentOf(p) THEN Append(ZombiesOf(q), p)
                           ELSE ZombiesOf(q)
        /\ ResultOf(q)' = ResultOf(q) /\ status'[q] = status[q]
  <2> TAKE q \in Pid
  <2>1. ParentOf(q)' = ParentOf(q) /\ ResultOf(q)' = ResultOf(q) /\ status'[q] = status[q]
    BY <1>1 DEF ParentOf, ResultOf
  <2>2. ZombiesOf(q)' = IF q = p THEN <<>>
                        ELSE IF kept /\ q = ParentOf(p) THEN Append(ZombiesOf(q), p)
                        ELSE ZombiesOf(q)
    <3>1. kept => ~Defunct(parent[p])
      BY <1>2 DEF Orphaned
    <3> QED BY <1>2, <3>1 DEF ZombiesOf
  <2> QED BY <2>1, <2>2
<1>9. exit_code' = [exit_code EXCEPT ![p] = IF kept THEN x ELSE SUCCESS]
  BY <1>1
<1>10. Tree!Exit(p, x)
  <2>1. ParentOf(p) \in Pid
    BY <1>2
  <2>2. \A q \in Pid :
          /\ StateOf(q)' = IF q = p THEN IF AliveIn(ParentOf(p)) THEN "zombie" ELSE "gone"
                           ELSE IF Contains(ZombiesOf(p), q) THEN "gone" ELSE StateOf(q)
          /\ ParentOf(q)' = ParentOf(q)
          /\ ZombiesOf(q)' = IF q = p THEN <<>>
                             ELSE IF AliveIn(ParentOf(p)) /\ q = ParentOf(p) THEN Append(ZombiesOf(q), p)
                             ELSE ZombiesOf(q)
          /\ ResultOf(q)' = ResultOf(q) /\ status'[q] = status[q]
    BY <1>3, <1>7, <1>8
  <2>3. exit_code' = [exit_code EXCEPT ![p] = IF AliveIn(ParentOf(p)) THEN x ELSE SUCCESS]
    BY <1>3, <1>9
  <2> QED BY <1>1, <2>1, <2>2, <2>3, TreeExit
<1>11. TreeExtra'
  <2>1. OnlyInitBoots' /\ IdleParentless'
    BY TreeFacts DEF TreeInv, TreeExtra, OnlyInitBoots, IdleParentless
  <2>2. NoEarlyCode' /\ DeadHaveParents'
    BY <1>1, <1>2, TreeFacts DEF TreeInv, TreeExtra, NoEarlyCode, DeadHaveParents
  <2> QED BY <2>1, <2>2 DEF TreeExtra
<1> QED BY <1>10, <1>11

(* Exit is Exit of the tree, and never follows a parent that is not there. *)
LEMMA KernelExitTree ==
  ASSUME TreeInv, curr_pcb # IDLE, NEW code, code \in Code, KernelExit(code)
  PROVE  /\ \E p \in Pid : \E x \in Code : Tree!Exit(p, x)
         /\ TreeExtra'
<1>1. PICK p \in Pid : p = curr_pcb
  BY TreeFacts
<1>2. /\ p \in User /\ mode = "user" /\ kernel_context[p] = "none"
      /\ UNCHANGED <<regs0, status>>
      /\ parent[p] # NULL /\ parent[p] # p
      /\ defunct_queue \in Seq(User) /\ deceased \in [Pid -> Seq(User)]
  <2>1. p \in User /\ mode = "user" /\ kernel_context[p] = "none" /\ UNCHANGED <<regs0, status>>
    BY <1>1, TreeFacts DEF KernelExit, UserMode, result
  <2>2. parent[p] # NULL /\ parent[p] < p /\ p \in Nat
    BY <1>1, <2>1, SchedulerFacts, TreeFacts DEF TreeInv, FamilyInv, Family, Ancestry
  <2> QED BY <2>1, <2>2, SchedulerFacts DEF TreeInv, FamilyInv
<1>3. ASSUME defunct_queue' = Append(defunct_queue, curr_pcb)
      PROVE  \A q : Defunct(q)' <=> Defunct(q) \/ q = p
  <2>1. \A q : Contains(defunct_queue', q) <=> Contains(defunct_queue, q) \/ q = p
    BY <1>1, <1>2, <1>3, QputLemma
  <2> QED BY <2>1 DEF Defunct
<1>4. CASE Orphaned(p)
  <2>1. ExitOrphan
    BY <1>1, <1>4 DEF KernelExit
  <2>2. /\ UNCHANGED <<next_pid, parent, deceased, exit_code>>
        /\ defunct_queue' = Append(defunct_queue, curr_pcb)
        /\ \A q \in Pid : q # p => kernel_context'[q] = kernel_context[q]
        /\ kernel_context'[p] = "switch"
    BY <1>1, <1>2, <2>1, SwitchContext DEF ExitOrphan, family, TreeInv, FamilyInv, SchedulerInv
  <2> DEFINE kept == FALSE
  <2>3. /\ kept \in BOOLEAN /\ (kept <=> ~Orphaned(p))
        /\ \A q \in Pid : q # p =>
             deceased'[q] = IF kept /\ q = parent[p] THEN Append(deceased[q], p) ELSE deceased[q]
        /\ exit_code' = IF kept THEN [exit_code EXCEPT ![p] = code] ELSE exit_code
    BY <1>4, <2>2
  <2>4. Tree!Exit(p, code) /\ TreeExtra'
    BY <1>1, <1>2, <1>3, <2>2, <2>3, ExitTree
  <2> QED BY <2>4
<1>5. CASE ~Orphaned(p)
  <2>1. ExitToParent(parent[p], code)
    <3>1. parent[p] \notin freed
      BY <1>2, <1>5 DEF TreeInv, FamilyInv, Family, FreedAreDefunct, Orphaned
    <3> QED BY <1>1, <1>2, <1>5, <3>1 DEF KernelExit
  <2>2. /\ UNCHANGED <<next_pid, parent>>
        /\ exit_code' = [exit_code EXCEPT ![p] = code]
        /\ deceased' = [deceased EXCEPT ![parent[p]] = Append(deceased[parent[p]], p), ![p] = <<>>]
        /\ defunct_queue' = Append(defunct_queue, curr_pcb)
        /\ \A q \in Pid : q # p => kernel_context'[q] = kernel_context[q]
        /\ kernel_context'[p] = "switch"
    BY <1>1, <1>2, <2>1, SwitchContext DEF ExitToParent, Bury, TreeInv, FamilyInv, SchedulerInv
  <2> DEFINE kept == TRUE
  <2>3. /\ kept \in BOOLEAN /\ (kept <=> ~Orphaned(p))
        /\ \A q \in Pid : q # p =>
             deceased'[q] = IF kept /\ q = parent[p] THEN Append(deceased[q], p) ELSE deceased[q]
        /\ exit_code' = IF kept THEN [exit_code EXCEPT ![p] = code] ELSE exit_code
    BY <1>2, <1>5, <2>2
  <2>4. Tree!Exit(p, code) /\ TreeExtra'
    BY <1>1, <1>2, <1>3, <2>2, <2>3, ExitTree, ZenonT(40)
  <2> QED BY <2>4
<1> QED BY <1>4, <1>5

(* Every step of the kernel is a step of the tree or none. *)
LEMMA TreeStep == TreeInv /\ [Next]_vars => TreeInv' /\ [Tree!TreeNext]_(Tree!tree)
<1> SUFFICES ASSUME TreeInv, [Next]_vars
             PROVE  TreeExtra' /\ (Tree!TreeNext \/ UNCHANGED Tree!tree)
  BY FamilyStep DEF TreeInv
<1>1. CASE trap_clock_handler
  BY <1>1, ClockTree
<1>2. CASE resume_switch \/ resume_fork \/ resume_boot
  BY <1>2, ResumePlainTree, BootTree
<1>3. CASE resume_wait
  <2>1. \E p \in Pid : Tree!Collect(p)
    BY <1>3, ResumeWaitTree
  <2> QED BY <1>3, <2>1, ResumeWaitTree DEF Tree!TreeNext
<1>4. CASE curr_pcb # IDLE /\ KernelFork
  <2>1. \E p, c \in Pid : Tree!Fork(p, c)
    BY <1>4, ForkTree
  <2> QED BY <1>4, <2>1, ForkTree DEF Tree!TreeNext
<1>5. ASSUME NEW code \in Code, curr_pcb # IDLE, KernelExit(code)
      PROVE  TreeExtra' /\ (Tree!TreeNext \/ UNCHANGED Tree!tree)
  <2>1. \E p \in Pid : \E x \in Code : Tree!Exit(p, x)
    BY <1>5, KernelExitTree
  <2> QED BY <1>5, <2>1, KernelExitTree DEF Tree!TreeNext
<1>6. CASE curr_pcb # IDLE /\ KernelWait
  <2>1. \E p \in Pid : Tree!Collect(p) \/ Tree!NoChild(p) \/ Tree!Block(p)
    BY <1>6, WaitTree
  <2> QED BY <1>6, <2>1, WaitTree DEF Tree!TreeNext
<1>7. ASSUME NEW val, val \in {curr_pcb, SUCCESS, ERROR}, mode = "user",
             regs0' = [regs0 EXCEPT ![curr_pcb] = val],
             UNCHANGED <<next_pid, parent, deceased, exit_code, defunct_queue, kernel_context, status>>
      PROVE  TreeExtra' /\ (Tree!TreeNext \/ UNCHANGED Tree!tree)
  <2>1. PICK p \in Pid : p = curr_pcb
    BY TreeFacts
  <2>2. Tree!Other(p) /\ TreeExtra'
    BY <1>7, <2>1, ResultTree DEF SUCCESS
  <2> QED BY <2>2 DEF Tree!TreeNext
<1>8. CASE KernelGetPid
  BY <1>7, <1>8 DEF KernelGetPid, UserMode, Return, family, queues
<1>9. CASE \E ticks \in DelayTicks : KernelDelay(ticks)
  <2>1. PICK ticks \in DelayTicks : KernelDelay(ticks)
    BY <1>9
  <2> DEFINE val == IF ticks < 0 THEN ERROR ELSE SUCCESS
  <2>2. /\ val \in {curr_pcb, SUCCESS, ERROR} /\ mode = "user"
        /\ regs0' = [regs0 EXCEPT ![curr_pcb] = val]
        /\ UNCHANGED <<next_pid, parent, deceased, exit_code, defunct_queue, kernel_context, status>>
    BY <2>1 DEF KernelDelay, UserMode, Return, family, queues
  <2> HIDE DEF val
  <2> QED BY <1>7, <2>2
<1>10. CASE trap_kernel_handler
  BY <1>4, <1>5, <1>6, <1>8, <1>9, <1>10 DEF trap_kernel_handler, Code
<1>11. CASE curr_pcb # IDLE /\ trap_fatal_handler
  BY <1>5, <1>11 DEF trap_fatal_handler, Code
<1>12. CASE UNCHANGED vars
  <2>1. /\ UNCHANGED <<next_pid, parent, deceased, exit_code, defunct_queue, status>>
        /\ UNCHANGED <<kernel_context, regs0>>
    BY <1>12 DEF vars, queues, family, result
  <2>2. \A p \in Pid : ResultOf(p)' = ResultOf(p)
    BY <2>1 DEF ResultOf
  <2> QED BY <2>1, <2>2, TreeStays
<1> QED BY <1>1, <1>2, <1>3, <1>10, <1>11, <1>12 DEF Next, resume

(* After boot the tree is idle and its child init. *)
LEMMA TreeStart == Init => TreeInv /\ Tree!TreeInit
<1> SUFFICES ASSUME Init
             PROVE  TreeExtra /\ Tree!TreeInit
  BY FamilyInit DEF TreeInv
<1>1. /\ \A p : ~Defunct(p)
      /\ IDLE \in Pid /\ INIT \in Pid \ {IDLE} /\ User \subseteq Pid
      /\ \A p \in Pid : Exists(p) <=> p \in {IDLE, INIT}
  BY EmptyQueue, ProcessAssumption DEF Init, Defunct, Exists, INIT, IDLE, User, Pid
<1>2. TreeExtra
  BY <1>1 DEF Init, TreeExtra, OnlyInitBoots, NoEarlyCode, DeadHaveParents, IdleParentless
<1>3. /\ TState = [p \in Pid |-> IF p \in {IDLE, INIT} THEN "live" ELSE "unborn"]
      /\ TParent = [p \in Pid |-> IF p = INIT THEN IDLE ELSE ERROR]
      /\ TZombies = [p \in Pid |-> <<>>]
      /\ TAnswer = [p \in Pid |-> <<0, SUCCESS>>]
      /\ exit_code = [p \in Pid |-> SUCCESS]
  <2>1. \A p \in Pid : /\ StateOf(p) = IF p \in {IDLE, INIT} THEN "live" ELSE "unborn"
                       /\ ParentOf(p) = IF p = INIT THEN IDLE ELSE ERROR
                       /\ ZombiesOf(p) = <<>> /\ ResultOf(p) = 0 /\ status[p] = SUCCESS
    BY <1>1 DEF Init, StateOf, ParentOf, ZombiesOf, ResultOf, SUCCESS, NULL, ERROR
  <2> QED BY <2>1, TreeByProcess DEF Init
<1>4. Tree!TreeInit
  BY <1>1, <1>3
     DEF Tree!TreeInit, TState, TParent, TZombies, TAnswer, StateOf, ParentOf, ZombiesOf, ResultOf
<1> QED BY <1>2, <1>4

(* fork, exit and wait, with their queues, scheduler and kernel stacks,    *)
(* keep the promises of ProcessTree, for any number of processes: its      *)
(* fairness apart, Process implements it.                                  *)
THEOREM TreeCorrect == Spec => Tree!TreeInit /\ [][Tree!TreeNext]_(Tree!tree)
<1> QED BY TreeStart, TreeStep, PTL DEF Spec
=============================================================================
