------------------------------ MODULE Context ------------------------------
(***************************************************************************)
(* The user contexts of the processes.  The hardware keeps the context of  *)
(* the interrupted program at the top of the kernel stack, at an address   *)
(* that is the same for every process and that curr_uctxt holds; so each   *)
(* kernel stack has a context of its own (stack_context), and curr_uctxt   *)
(* is that of the stack mapped now.  Each pcb has a copy (user_context),   *)
(* written by create_process, LoadProgram and the switch, and read back by *)
(* the process that a switch returns to, and by Exec.                      *)
(*                                                                         *)
(* A context is abstracted to the image it belongs to, the number of calls *)
(* the program has made in it, and register 0.  Which process is switched  *)
(* to is left open (Process decides).                                      *)
(***************************************************************************)
EXTENDS Integers

CONSTANTS MaxPid,    \* bound on the processes created
          MaxCalls,  \* bound on the calls a program makes in one image
          MaxExecs   \* bound on the images a process loads

ASSUME ContextAssumption ==
  MaxPid \in Nat \ {0} /\ MaxCalls \in Nat /\ MaxExecs \in Nat \ {0}

IDLE == 0
INIT == 1
Pid  == 0..MaxPid
Response == {"none", "pid", "zero", "error", "done"}
UserContext == [image : 0..MaxExecs, pc : 0..MaxCalls, r0 : Response]

VARIABLES
  curr_pcb, next_pid,
  alive,          \* the processes created and not exited
  kernel_context, \* where each process is suspended in the kernel
  mode,           \* "user", or "kernel" just after a switch
  stack_context,  \* the context at the top of each kernel stack
  user_context,   \* the copy in each pcb
  forked_at       \* history: the context in which each process was forked

vars == <<curr_pcb, next_pid, alive, kernel_context, mode,
          stack_context, user_context, forked_at>>

DoIdle == [image |-> 0, pc |-> 0, r0 |-> "none"]
curr_uctxt == stack_context[curr_pcb]
Answered(context, response) == [context EXCEPT !.r0 = response]

(* A program, not the kernel's DoIdle, runs in user mode. *)
RunsProgram == mode = "user" /\ curr_uctxt.image > 0

(* The context a system call hands to trap_kernel_handler: the program     *)
(* goes on after the call.                                                 *)
CanCall == RunsProgram /\ curr_uctxt.pc < MaxCalls
AfterCall == [curr_uctxt EXCEPT !.pc = @ + 1]
----------------------------------------------------------------------------
Init ==
  /\ curr_pcb = IDLE /\ next_pid = INIT + 1 /\ alive = {IDLE, INIT}
  /\ kernel_context = [p \in Pid |-> IF p = INIT THEN "boot" ELSE "none"]
  /\ mode = "user"
  /\ stack_context = [p \in Pid |-> DoIdle]
  /\ user_context = [p \in Pid |-> DoIdle]
  /\ forked_at = [p \in Pid |-> DoIdle]

(* Wrong: the context is not saved. *)
SavedBefore(context) == user_context
Saved(context) == [user_context EXCEPT ![curr_pcb] = context]

(* Wrong: the process that exits is still a candidate. *)
CandidatesBefore(where) == {q \in alive : q = curr_pcb => where = "switch" /\ q # IDLE}
Candidates(where) == {q \in alive' : q = curr_pcb => where = "switch" /\ q # IDLE}

(* switch_to_next_ready_process, with `context' at the top of the kernel   *)
(* stack; the process will resume at the place `where'.  A process alone   *)
(* that the clock interrupts is switched to itself.                        *)
switch_to_next_ready_process(context, where) ==
  /\ \E q \in Candidates(where) : curr_pcb' = q
  /\ stack_context' = [stack_context EXCEPT ![curr_pcb] = context]
  /\ user_context' = Saved(context)
  /\ kernel_context' = [kernel_context EXCEPT ![curr_pcb] = where]
  /\ mode' = "kernel"
  /\ UNCHANGED <<next_pid, forked_at>>

Resume(where, context) ==
  /\ mode = "kernel" /\ kernel_context[curr_pcb] = where
  /\ stack_context' = [stack_context EXCEPT ![curr_pcb] = context]
  /\ kernel_context' = [kernel_context EXCEPT ![curr_pcb] = "none"]
  /\ mode' = "user"
  /\ UNCHANGED <<curr_pcb, next_pid, alive, forked_at>>

(* Idle keeps running when nobody is ready. *)
trap_clock_handler ==
  /\ mode = "user"
  /\ \/ UNCHANGED alive /\ switch_to_next_ready_process(curr_uctxt, "switch")
     \/ curr_pcb = IDLE /\ UNCHANGED vars

(* *curr_uctxt = curr_pcb->user_context, after the switch. *)
resume_switch == Resume("switch", user_context[curr_pcb]) /\ UNCHANGED user_context

(* LoadProgram writes the entry point and the stack pointer of the new     *)
(* image to the pcb, and nothing else of the context.                      *)
LoadedContext == [user_context[curr_pcb] EXCEPT !.image = curr_uctxt.image + 1, !.pc = 0]

(* The end of KernelStart in init; if the load fails, init idles.          *)
resume_boot ==
  \/ /\ Resume("boot", LoadedContext)
     /\ user_context' = [user_context EXCEPT ![curr_pcb] = LoadedContext]
  \/ Resume("boot", curr_uctxt) /\ UNCHANGED user_context

(* GetPid, Brk, Delay, and a Wait that need not block. *)
KernelCall ==
  /\ CanCall
  /\ stack_context' = [stack_context EXCEPT ![curr_pcb] = Answered(AfterCall, "done")]
  /\ UNCHANGED <<curr_pcb, next_pid, alive, kernel_context, mode, user_context, forked_at>>

KernelWait ==
  /\ CanCall
  /\ UNCHANGED alive
  /\ switch_to_next_ready_process(AfterCall, "wait")

resume_wait ==
  /\ Resume("wait", Answered(user_context[curr_pcb], "pid"))
  /\ UNCHANGED user_context

(* Fork: create_process copies the caller's context to the child's pcb,    *)
(* KCCopy copies it with the kernel stack.                                 *)
(* Wrong: the child's stack holds the context of before the call.          *)
ClonedEarly == curr_uctxt
Cloned == AfterCall

KernelFork ==
  /\ CanCall /\ next_pid <= MaxPid
  /\ next_pid' = next_pid + 1 /\ alive' = alive \cup {next_pid}
  /\ stack_context' = [stack_context EXCEPT ![curr_pcb] = Answered(AfterCall, "pid"),
                                            ![next_pid] = Cloned]
  /\ user_context' = [user_context EXCEPT ![next_pid] = AfterCall]
  /\ kernel_context' = [kernel_context EXCEPT ![next_pid] = "fork"]
  /\ forked_at' = [forked_at EXCEPT ![next_pid] = AfterCall]
  /\ UNCHANGED <<curr_pcb, mode>>

(* The child returns with what is on its stack: nothing is restored.       *)
resume_fork == Resume("fork", Answered(curr_uctxt, "zero")) /\ UNCHANGED user_context

(* Exec replaces the live context by the one in the pcb, whether the load  *)
(* succeeded or not.  On success KernelExec returns no value.              *)
KernelExec ==
  /\ CanCall
  /\ \/ /\ curr_uctxt.image < MaxExecs
        /\ user_context' = [user_context EXCEPT ![curr_pcb] = LoadedContext]
        /\ \E garbage \in {"none", "done"} :
             stack_context' = [stack_context EXCEPT ![curr_pcb] = Answered(LoadedContext, garbage)]
     \/ /\ stack_context' = [stack_context EXCEPT
                               ![curr_pcb] = Answered(user_context[curr_pcb], "error")]
        /\ UNCHANGED user_context
  /\ UNCHANGED <<curr_pcb, next_pid, alive, kernel_context, mode, forked_at>>

KernelExit ==
  /\ RunsProgram
  /\ alive' = alive \ {curr_pcb}
  /\ switch_to_next_ready_process(curr_uctxt, "switch")

Next ==
  \/ trap_clock_handler \/ resume_switch \/ resume_boot
  \/ KernelCall \/ KernelWait \/ resume_wait
  \/ KernelFork \/ resume_fork \/ KernelExec \/ KernelExit

Spec == Init /\ [][Next]_vars
----------------------------------------------------------------------------
(* Contexts, places and modes keep their types. *)
TypeOK ==
  /\ curr_pcb \in alive /\ alive \subseteq Pid /\ next_pid \in 2..MaxPid+1
  /\ kernel_context \in [Pid -> {"none", "boot", "switch", "wait", "fork"}]
  /\ mode \in {"user", "kernel"}
  /\ stack_context \in [Pid -> UserContext] /\ user_context \in [Pid -> UserContext]
  /\ forked_at \in [Pid -> UserContext]

(* Of a process that was switched out, the pcb holds the context that its  *)
(* kernel stack holds: restoring it changes nothing.                       *)
SavedIsLive ==
  \A p \in alive : kernel_context[p] \in {"switch", "wait"} =>
    user_context[p] = stack_context[p]

(* A program never runs code again that it has run already: except where   *)
(* Exec fails, each process only goes on, or starts the next image.        *)
GoesOn(new, old) == new.image > old.image \/ (new.image = old.image /\ new.pc >= old.pc)
NeverRepeats ==
  [][\A p \in alive : stack_context'[p].r0 = "error" \/ GoesOn(stack_context'[p], stack_context[p])]_vars

(* The child comes back from Fork where its parent called it, with 0, how- *)
(* ever many switches and however much of the parent lie in between.       *)
ForkReturnsTwice ==
  [][\A p \in alive : kernel_context[p] = "fork" /\ kernel_context'[p] = "none"
       => stack_context'[p] = Answered(forked_at[p], "zero")]_vars

(* test_exec_syscall.c: "int rc = Exec(...); if (rc == ERROR)": an Exec    *)
(* that fails returns ERROR to its caller, which goes on after the call.   *)
ExecReturnsError ==
  [][CanCall /\ stack_context'[curr_pcb].r0 = "error" /\ curr_uctxt.r0 # "error"
       => stack_context'[curr_pcb] = Answered(AfterCall, "error")]_vars
=============================================================================
