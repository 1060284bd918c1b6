--------------------------- MODULE ContextProofs ---------------------------
(***************************************************************************)
(* Proofs about the user contexts, for any number of processes, calls and  *)
(* images.  SavedIsLive is inductive only together with what is known of   *)
(* the places where a process can be suspended: a process that runs in     *)
(* user mode is suspended nowhere, one that has not booted has no image,   *)
(* and a child that has not returned from Fork has the context in which it *)
(* was forked.                                                             *)
(***************************************************************************)
EXTENDS Context, TLAPS

Born == alive \subseteq 0..next_pid-1
UserNotSuspended == mode = "user" => kernel_context[curr_pcb] = "none"
BootHasNoImage == \A p \in Pid : kernel_context[p] = "boot" => stack_context[p].image = 0
ForkHasClone == \A p \in Pid : kernel_context[p] = "fork" => stack_context[p] = forked_at[p]

ContextInv ==
  TypeOK /\ SavedIsLive /\ Born /\ UserNotSuspended /\ BootHasNoImage /\ ForkHasClone

(* An answer and the context after a call are contexts. *)
LEMMA AnsweredType ==
  ASSUME NEW context \in UserContext, NEW response \in Response
  PROVE  /\ Answered(context, response) \in UserContext
         /\ Answered(context, response).image = context.image
         /\ Answered(context, response).pc = context.pc
         /\ Answered(context, response).r0 = response
BY DEF Answered, UserContext

(* What a call leaves is a context of the process that made it. *)
LEMMA AfterCallType ==
  ASSUME TypeOK, CanCall
  PROVE  /\ AfterCall \in UserContext
         /\ AfterCall.image = curr_uctxt.image
         /\ AfterCall.pc = curr_uctxt.pc + 1
<1>1. curr_uctxt \in UserContext
  BY DEF TypeOK, curr_uctxt
<1> QED BY <1>1, ContextAssumption DEF CanCall, AfterCall, UserContext

(* A program that is loaded starts with a context of its own. *)
LEMMA LoadedType ==
  ASSUME TypeOK, curr_uctxt.image < MaxExecs
  PROVE  /\ LoadedContext \in UserContext
         /\ LoadedContext.image = curr_uctxt.image + 1
<1>1. curr_uctxt \in UserContext /\ user_context[curr_pcb] \in UserContext
  BY DEF TypeOK, curr_uctxt
<1>2. curr_uctxt.image + 1 \in 0..MaxExecs /\ 0 \in 0..MaxCalls
  BY <1>1, ContextAssumption DEF UserContext
<1>3. \A c \in UserContext, i \in 0..MaxExecs, n \in 0..MaxCalls :
        /\ [c EXCEPT !.image = i, !.pc = n] \in UserContext
        /\ [c EXCEPT !.image = i, !.pc = n].image = i
  BY DEF UserContext
<1> QED BY <1>1, <1>2, <1>3 DEF LoadedContext

----------------------------------------------------------------------------
(* A switch saves the running process's context and changes no other. *)
LEMMA SwitchKeepsInv ==
  ASSUME ContextInv, NEW context \in UserContext, NEW where \in {"switch", "wait"},
         alive' \subseteq alive,
         switch_to_next_ready_process(context, where)
  PROVE  ContextInv'
<1> USE DEF ContextInv
<1>1. curr_pcb' \in alive' /\ curr_pcb \in Pid
  BY DEF switch_to_next_ready_process, Candidates, TypeOK
<1>2. TypeOK'
  BY <1>1 DEF switch_to_next_ready_process, TypeOK, Saved
<1>3. SavedIsLive'
  BY <1>1 DEF switch_to_next_ready_process, SavedIsLive, TypeOK, Saved
<1>4. Born' /\ UserNotSuspended'
  BY DEF switch_to_next_ready_process, Born, UserNotSuspended
<1>5. BootHasNoImage' /\ ForkHasClone'
  BY <1>1 DEF switch_to_next_ready_process, BootHasNoImage, ForkHasClone, TypeOK
<1> QED BY <1>2, <1>3, <1>4, <1>5

(* A process that resumes changes its own contexts alone. *)
LEMMA ResumeKeepsInv ==
  ASSUME ContextInv, NEW where, NEW context \in UserContext, Resume(where, context),
         user_context' \in [Pid -> UserContext],
         \A p \in Pid \ {curr_pcb} : user_context'[p] = user_context[p]
  PROVE  ContextInv'
<1> USE DEF ContextInv
<1>1. curr_pcb \in Pid BY DEF TypeOK
<1>2. TypeOK' BY <1>1 DEF Resume, TypeOK
<1>3. SavedIsLive' BY <1>1 DEF Resume, SavedIsLive, TypeOK
<1>4. Born' /\ UserNotSuspended' BY <1>1 DEF Resume, Born, UserNotSuspended, TypeOK
<1>5. BootHasNoImage' /\ ForkHasClone'
  BY <1>1 DEF Resume, BootHasNoImage, ForkHasClone, TypeOK
<1> QED BY <1>2, <1>3, <1>4, <1>5

(* A call that does not switch changes the contexts of its caller alone. *)
LEMMA CallKeepsInv ==
  ASSUME ContextInv, RunsProgram, NEW context \in UserContext,
         stack_context' = [stack_context EXCEPT ![curr_pcb] = context],
         user_context' \in [Pid -> UserContext],
         \A p \in Pid \ {curr_pcb} : user_context'[p] = user_context[p],
         UNCHANGED <<curr_pcb, next_pid, alive, kernel_context, mode, forked_at>>
  PROVE  ContextInv'
<1> USE DEF ContextInv
<1>1. curr_pcb \in Pid /\ kernel_context[curr_pcb] = "none"
  BY DEF TypeOK, UserNotSuspended, RunsProgram
<1>2. TypeOK' BY <1>1 DEF TypeOK
<1>3. SavedIsLive' BY <1>1 DEF SavedIsLive, TypeOK
<1>4. Born' /\ UserNotSuspended' BY DEF Born, UserNotSuspended
<1>5. BootHasNoImage' /\ ForkHasClone'
  BY <1>1 DEF BootHasNoImage, ForkHasClone, TypeOK
<1> QED BY <1>2, <1>3, <1>4, <1>5

----------------------------------------------------------------------------
(* Every step of the kernel preserves the invariant. *)
LEMMA ContextInit == Init => ContextInv
<1> SUFFICES ASSUME Init PROVE ContextInv
  OBVIOUS
<1>1. DoIdle \in UserContext
  BY ContextAssumption DEF DoIdle, UserContext, Response
<1>2. TypeOK
  BY <1>1, ContextAssumption DEF Init, TypeOK, Pid, IDLE, INIT
<1>3. SavedIsLive /\ Born /\ UserNotSuspended /\ BootHasNoImage /\ ForkHasClone
  BY ContextAssumption
  DEF Init, SavedIsLive, Born, UserNotSuspended, BootHasNoImage, ForkHasClone, Pid, IDLE, INIT, DoIdle
<1> QED BY <1>2, <1>3 DEF ContextInv

(* Fork keeps the invariant. *)
LEMMA ForkKeepsInv == ContextInv /\ KernelFork => ContextInv'
<1> SUFFICES ASSUME ContextInv, KernelFork PROVE ContextInv'
  OBVIOUS
<1> USE DEF ContextInv
<1>1. /\ curr_pcb \in Pid /\ next_pid \in Pid /\ next_pid \notin alive /\ next_pid # curr_pcb
      /\ kernel_context[curr_pcb] = "none"
  BY ContextAssumption
  DEF TypeOK, Born, Pid, KernelFork, CanCall, RunsProgram, UserNotSuspended
<1>2. AfterCall \in UserContext /\ Answered(AfterCall, "pid") \in UserContext
  BY AfterCallType, AnsweredType DEF KernelFork, Response
<1>3. TypeOK'
  BY <1>1, <1>2, ContextAssumption DEF KernelFork, TypeOK, Cloned, Pid
<1>4. SavedIsLive'
  BY <1>1 DEF KernelFork, SavedIsLive, TypeOK
<1>5. Born' /\ UserNotSuspended'
  BY <1>1 DEF KernelFork, Born, UserNotSuspended, TypeOK
<1>6. BootHasNoImage' /\ ForkHasClone'
  BY <1>1 DEF KernelFork, BootHasNoImage, ForkHasClone, TypeOK, Cloned
<1> QED BY <1>3, <1>4, <1>5, <1>6

(* Exec keeps the invariant, whether it loads the program or not. *)
LEMMA ExecKeepsInv == ContextInv /\ KernelExec => ContextInv'
<1> SUFFICES ASSUME ContextInv, KernelExec PROVE ContextInv'
  OBVIOUS
<1>1. TypeOK /\ RunsProgram /\ curr_pcb \in Pid /\ user_context[curr_pcb] \in UserContext
  BY DEF ContextInv, TypeOK, KernelExec, CanCall
<1>2. CASE /\ curr_uctxt.image < MaxExecs
           /\ user_context' = [user_context EXCEPT ![curr_pcb] = LoadedContext]
           /\ \E garbage \in {"none", "done"} :
                stack_context' = [stack_context EXCEPT ![curr_pcb] = Answered(LoadedContext, garbage)]
  <2>1. LoadedContext \in UserContext
    BY <1>1, <1>2, LoadedType
  <2>2. PICK garbage \in {"none", "done"} :
           stack_context' = [stack_context EXCEPT ![curr_pcb] = Answered(LoadedContext, garbage)]
    BY <1>2
  <2>3. Answered(LoadedContext, garbage) \in UserContext
    BY <2>1, AnsweredType DEF Response
  <2>4. /\ user_context' \in [Pid -> UserContext]
        /\ \A p \in Pid \ {curr_pcb} : user_context'[p] = user_context[p]
    BY <1>1, <1>2, <2>1 DEF TypeOK
  <2> QED BY <1>1, <2>2, <2>3, <2>4, CallKeepsInv DEF KernelExec
<1>3. CASE /\ stack_context' = [stack_context EXCEPT
                               ![curr_pcb] = Answered(user_context[curr_pcb], "error")]
           /\ UNCHANGED user_context
  <2>1. Answered(user_context[curr_pcb], "error") \in UserContext
    BY <1>1, AnsweredType DEF Response
  <2>2. /\ user_context' \in [Pid -> UserContext]
        /\ \A p \in Pid \ {curr_pcb} : user_context'[p] = user_context[p]
    BY <1>1, <1>3 DEF TypeOK
  <2> QED BY <1>1, <1>3, <2>1, <2>2, CallKeepsInv DEF KernelExec
<1> QED BY <1>2, <1>3 DEF KernelExec

(* The end of KernelStart keeps the invariant. *)
LEMMA BootKeepsInv == ContextInv /\ resume_boot => ContextInv'
<1> SUFFICES ASSUME ContextInv, resume_boot PROVE ContextInv'
  OBVIOUS
<1>1. TypeOK /\ curr_pcb \in Pid /\ curr_uctxt \in UserContext /\ curr_uctxt.image = 0
  BY DEF ContextInv, TypeOK, resume_boot, Resume, BootHasNoImage, curr_uctxt
<1>2. CASE Resume("boot", LoadedContext) /\ user_context' = [user_context EXCEPT ![curr_pcb] = LoadedContext]
  <2>1. LoadedContext \in UserContext
    BY <1>1, LoadedType, ContextAssumption
  <2>2. /\ user_context' \in [Pid -> UserContext]
        /\ \A p \in Pid \ {curr_pcb} : user_context'[p] = user_context[p]
    BY <1>1, <1>2, <2>1 DEF TypeOK
  <2> QED BY <1>2, <2>1, <2>2, ResumeKeepsInv
<1>3. CASE Resume("boot", curr_uctxt) /\ UNCHANGED user_context
  BY <1>1, <1>3, ResumeKeepsInv DEF TypeOK
<1> QED BY <1>2, <1>3 DEF resume_boot

(* So does every step. *)
LEMMA ContextStep == ContextInv /\ [Next]_vars => ContextInv'
<1> SUFFICES ASSUME ContextInv, [Next]_vars PROVE ContextInv'
  OBVIOUS
<1>1. /\ TypeOK /\ curr_pcb \in Pid
      /\ curr_uctxt \in UserContext /\ user_context[curr_pcb] \in UserContext
  BY DEF ContextInv, TypeOK, curr_uctxt
<1>2. CASE trap_clock_handler
  <2>1. CASE UNCHANGED alive /\ switch_to_next_ready_process(curr_uctxt, "switch")
    BY <1>1, <2>1, SwitchKeepsInv
  <2>2. CASE UNCHANGED vars
    BY <2>2 DEF vars, ContextInv, TypeOK, SavedIsLive, Born, UserNotSuspended,
                BootHasNoImage, ForkHasClone
  <2> QED BY <1>2, <2>1, <2>2 DEF trap_clock_handler
<1>3. CASE resume_switch
  BY <1>1, <1>3, ResumeKeepsInv DEF resume_switch, TypeOK
<1>4. CASE resume_boot
  BY <1>4, BootKeepsInv
<1>5. CASE KernelCall
  <2>1. Answered(AfterCall, "done") \in UserContext
    BY <1>1, <1>5, AfterCallType, AnsweredType DEF KernelCall, Response
  <2> QED BY <1>1, <1>5, <2>1, CallKeepsInv DEF KernelCall, CanCall, TypeOK
<1>6. CASE KernelWait
  BY <1>1, <1>6, AfterCallType, SwitchKeepsInv DEF KernelWait
<1>7. CASE resume_wait
  <2>1. Answered(user_context[curr_pcb], "pid") \in UserContext
    BY <1>1, AnsweredType DEF Response
  <2> QED BY <1>1, <1>7, <2>1, ResumeKeepsInv DEF resume_wait, TypeOK
<1>8. CASE KernelFork
  BY <1>8, ForkKeepsInv
<1>9. CASE resume_fork
  <2>1. Answered(curr_uctxt, "zero") \in UserContext
    BY <1>1, AnsweredType DEF Response
  <2> QED BY <1>1, <1>9, <2>1, ResumeKeepsInv DEF resume_fork, TypeOK
<1>10. CASE KernelExec
  BY <1>10, ExecKeepsInv
<1>11. CASE KernelExit
  BY <1>1, <1>11, SwitchKeepsInv DEF KernelExit
<1>12. CASE UNCHANGED vars
  BY <1>12 DEF vars, ContextInv, TypeOK, SavedIsLive, Born, UserNotSuspended,
               BootHasNoImage, ForkHasClone
<1> QED
  BY <1>2, <1>3, <1>4, <1>5, <1>6, <1>7, <1>8, <1>9, <1>10, <1>11, <1>12 DEF Next

(* The invariant holds of every state. *)
LEMMA ContextInvariant == Spec => []ContextInv
<1>1. ContextInv /\ [Next]_vars => ContextInv'
  BY ContextStep
<1> QED BY ContextInit, <1>1, PTL DEF Spec

(* Contexts keep their types, whatever the processes call and whoever is   *)
(* switched to.                                                            *)
THEOREM ContextTypes == Spec => []TypeOK
<1>1. ContextInv => TypeOK
  BY DEF ContextInv
<1> QED BY ContextInvariant, <1>1, PTL

(* The context that a switch saves in the pcb stays that of the kernel     *)
(* stack until the process runs again (user_context and curr_uctxt in      *)
(* switch_to_next_ready_process).                                          *)
THEOREM SavedContextIsLive == Spec => []SavedIsLive
<1>1. ContextInv => SavedIsLive
  BY DEF ContextInv
<1> QED BY ContextInvariant, <1>1, PTL

----------------------------------------------------------------------------
(* A switch and a call that leaves the context in its caller where it was  *)
(* or after it repeat nothing.                                             *)
NoRepeat ==
  \A p \in alive : stack_context'[p].r0 = "error" \/ GoesOn(stack_context'[p], stack_context[p])

(* A step that lets only the running process go on, or answers it with an *)
(* error, keeps to NoRepeat. *)
LEMMA OneGoesOn ==
  ASSUME ContextInv, NEW context \in UserContext,
         stack_context' = [stack_context EXCEPT ![curr_pcb] = context],
         context.r0 = "error" \/ GoesOn(context, curr_uctxt)
  PROVE  NoRepeat
<1>1. /\ alive \subseteq Pid /\ curr_pcb \in Pid
      /\ stack_context \in [Pid -> UserContext]
  BY DEF ContextInv, TypeOK
<1>2. SUFFICES ASSUME NEW p \in alive
               PROVE  stack_context'[p].r0 = "error" \/ GoesOn(stack_context'[p], stack_context[p])
  BY DEF NoRepeat
<1>3. CASE p = curr_pcb
  BY <1>1, <1>3 DEF curr_uctxt
<1>4. CASE p # curr_pcb
  <2>1. stack_context'[p] = stack_context[p] /\ stack_context[p].pc \in Int
    BY <1>1, <1>4 DEF UserContext
  <2> QED BY <2>1 DEF GoesOn
<1> QED BY <1>3, <1>4

(* Every step keeps to NoRepeat. *)
LEMMA NoRepeatStep == ContextInv /\ [Next]_vars => NoRepeat \/ UNCHANGED vars
<1> SUFFICES ASSUME ContextInv, Next PROVE NoRepeat \/ UNCHANGED vars
  BY DEF vars
<1>1. /\ TypeOK /\ curr_pcb \in alive /\ curr_pcb \in Pid
      /\ curr_uctxt \in UserContext /\ user_context[curr_pcb] \in UserContext
  BY DEF ContextInv, TypeOK, curr_uctxt
<1>2. GoesOn(curr_uctxt, curr_uctxt)
  BY <1>1 DEF GoesOn, UserContext
<1>3. /\ kernel_context[curr_pcb] \in {"switch", "wait"} => user_context[curr_pcb] = curr_uctxt
      /\ kernel_context[curr_pcb] = "boot" => curr_uctxt.image = 0
  BY <1>1 DEF ContextInv, SavedIsLive, BootHasNoImage, curr_uctxt
<1>4. CanCall => /\ AfterCall \in UserContext /\ GoesOn(AfterCall, curr_uctxt)
                 /\ \A r \in Response : /\ Answered(AfterCall, r) \in UserContext
                                         /\ GoesOn(Answered(AfterCall, r), curr_uctxt)
  BY <1>1, AfterCallType, AnsweredType DEF GoesOn, UserContext
<1>5. curr_uctxt.image < MaxExecs =>
        /\ LoadedContext \in UserContext /\ GoesOn(LoadedContext, curr_uctxt)
        /\ \A r \in Response : /\ Answered(LoadedContext, r) \in UserContext
                                /\ GoesOn(Answered(LoadedContext, r), curr_uctxt)
  BY <1>1, LoadedType, AnsweredType DEF GoesOn, UserContext
<1>6. \A r \in Response : /\ Answered(curr_uctxt, r) \in UserContext
                          /\ GoesOn(Answered(curr_uctxt, r), curr_uctxt)
  BY <1>1, AnsweredType DEF GoesOn, UserContext
<1>7. CASE trap_clock_handler
  BY <1>1, <1>2, <1>7, OneGoesOn DEF trap_clock_handler, switch_to_next_ready_process
<1>8. CASE resume_switch
  BY <1>1, <1>2, <1>3, <1>8, OneGoesOn DEF resume_switch, Resume
<1>9. CASE resume_boot
  <2>1. CASE Resume("boot", LoadedContext)
    <3>1. curr_uctxt.image = 0 /\ 0 < MaxExecs
      BY <1>3, <2>1, ContextAssumption DEF Resume
    <3>2. LoadedContext \in UserContext /\ GoesOn(LoadedContext, curr_uctxt)
      BY <1>5, <3>1
    <3> QED BY <2>1, <3>2, OneGoesOn DEF Resume
  <2>2. CASE Resume("boot", curr_uctxt)
    BY <1>1, <1>2, <2>2, OneGoesOn DEF Resume
  <2> QED BY <1>9, <2>1, <2>2 DEF resume_boot
<1>10. CASE KernelCall
  BY <1>4, <1>10, OneGoesOn DEF KernelCall, Response
<1>11. CASE KernelWait
  BY <1>4, <1>11, OneGoesOn DEF KernelWait, switch_to_next_ready_process
<1>12. CASE resume_wait
  <2>1. user_context[curr_pcb] = curr_uctxt /\ "pid" \in Response
    BY <1>3, <1>12 DEF resume_wait, Resume, Response
  <2> QED BY <1>6, <1>12, <2>1, OneGoesOn DEF resume_wait, Resume
<1>13. CASE KernelFork
  <2>1. next_pid \notin alive
    BY DEF ContextInv, TypeOK, Born
  <2>2. \A p \in alive :
          stack_context'[p] = IF p = curr_pcb THEN Answered(AfterCall, "pid") ELSE stack_context[p]
    BY <1>1, <1>13, <2>1 DEF KernelFork, TypeOK
  <2>3. GoesOn(Answered(AfterCall, "pid"), stack_context[curr_pcb])
    BY <1>4, <1>13 DEF KernelFork, Response, curr_uctxt
  <2>4. \A p \in alive : GoesOn(stack_context[p], stack_context[p])
    BY <1>1 DEF TypeOK, GoesOn, UserContext
  <2> QED BY <2>2, <2>3, <2>4 DEF NoRepeat
<1>14. CASE resume_fork
  BY <1>6, <1>14, OneGoesOn DEF resume_fork, Resume, Response
<1>15. CASE KernelExec
  <2>1. CASE curr_uctxt.image < MaxExecs /\ \E garbage \in {"none", "done"} :
               stack_context' = [stack_context EXCEPT ![curr_pcb] = Answered(LoadedContext, garbage)]
    BY <1>5, <2>1, OneGoesOn DEF Response
  <2>2. CASE stack_context' = [stack_context EXCEPT
                                ![curr_pcb] = Answered(user_context[curr_pcb], "error")]
    <3>1. /\ Answered(user_context[curr_pcb], "error") \in UserContext
          /\ Answered(user_context[curr_pcb], "error").r0 = "error"
      BY <1>1, AnsweredType DEF Response
    <3> QED BY <2>2, <3>1, OneGoesOn
  <2> QED BY <1>15, <2>1, <2>2 DEF KernelExec
<1>16. CASE KernelExit
  BY <1>1, <1>2, <1>16, OneGoesOn DEF KernelExit, switch_to_next_ready_process
<1> QED
  BY <1>7, <1>8, <1>9, <1>10, <1>11, <1>12, <1>13, <1>14, <1>15, <1>16 DEF Next

(* No program runs code again that it has run (regs and pc restored by     *)
(* trap_clock_handler, KernelWait and the scheduler), failing Execs apart. *)
THEOREM NothingRepeats == Spec => NeverRepeats
<1>1. ContextInv /\ [Next]_vars
        => [\A p \in alive : stack_context'[p].r0 = "error"
                              \/ GoesOn(stack_context'[p], stack_context[p])]_vars
  BY NoRepeatStep DEF NoRepeat
<1> QED BY ContextInvariant, <1>1, PTL DEF Spec, NeverRepeats

(* What a step that returns from Fork does, of any living process. *)
LEMMA ForkReturnStep ==
  ASSUME ContextInv, Next, NEW p \in alive,
         kernel_context[p] = "fork", kernel_context'[p] = "none"
  PROVE  stack_context'[p] = Answered(forked_at[p], "zero")
<1>1. p \in Pid /\ curr_pcb \in Pid /\ next_pid \notin alive
  BY DEF ContextInv, TypeOK, Born
<1>2. CASE resume_fork
  BY <1>1, <1>2 DEF resume_fork, Resume, ContextInv, TypeOK, ForkHasClone, curr_uctxt
<1>3. CASE trap_clock_handler \/ KernelWait \/ KernelExit
  BY <1>1, <1>3 DEF trap_clock_handler, KernelWait, KernelExit,
                    switch_to_next_ready_process, ContextInv, TypeOK, vars
<1>4. CASE resume_switch \/ resume_boot \/ resume_wait
  BY <1>1, <1>4 DEF resume_switch, resume_boot, resume_wait, Resume, ContextInv, TypeOK
<1>5. CASE KernelCall \/ KernelExec \/ KernelFork
  BY <1>1, <1>5 DEF KernelCall, KernelExec, KernelFork, ContextInv, TypeOK
<1> QED BY <1>2, <1>3, <1>4, <1>5 DEF Next

(* The child of KernelFork returns where its parent called, with 0, from   *)
(* the stack that KCCopy cloned.                                           *)
THEOREM ForkReturns == Spec => ForkReturnsTwice
<1>1. ContextInv /\ [Next]_vars
        => [\A p \in alive : kernel_context[p] = "fork" /\ kernel_context'[p] = "none"
              => stack_context'[p] = Answered(forked_at[p], "zero")]_vars
  BY ForkReturnStep
<1> QED BY ContextInvariant, <1>1, PTL DEF Spec, ForkReturnsTwice
=============================================================================
