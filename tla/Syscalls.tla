------------------------------ MODULE Syscalls ------------------------------
(***************************************************************************)
(* A system call on its way: the wrapper of the user library puts its      *)
(* arguments and a number into registers and traps, the kernel's handler   *)
(* chooses a function by the number, and what that returns goes back       *)
(* through register 0.  Exec, and KernelStart for the first program, build *)
(* the stack on which a new program finds its arguments.  What the kernel's *)
(* functions do to processes and memory is in Process, Memory and Context; *)
(* here they return any of their results.                                  *)
(***************************************************************************)
EXTENDS Integers, Sequences

CONSTANTS
  PAGESIZE, MAX_PT_LEN,
  Values,    \* arguments, other than pointers, that programs pass
  Strings,   \* arguments of programs, as [text, len]
  Pids,
  Images,    \* pages of text, data and bss, from the base of region 1
  MaxArgs    \* bound on the arguments of a program

WORD == 4
ERROR == -1
SUCCESS == 0
NULL == 0
NamePtr == 100    \* the two pointers that Exec takes
VectorPtr == 200
POST_ARGV_NULL_SPACE == 32
VMEM_1_LIMIT == 2 * MAX_PT_LEN * PAGESIZE

ASSUME SyscallsAssumption ==
  /\ PAGESIZE \in Nat \ {0} /\ PAGESIZE % 8 = 0 /\ MAX_PT_LEN \in Nat
  /\ Values \subseteq Int /\ Pids \subseteq Nat /\ MaxArgs \in Nat
  /\ Images \subseteq 1..MAX_PT_LEN
  /\ \A s \in Strings : s.len \in Nat

VARIABLES
  mode,     \* "boot", "user", "trap", "back" in the wrapper, "exited", "halted"
  code, regs,  \* zero while the program itself uses the registers
  rc,       \* what the last call has returned
  stack,    \* of the running program, as LoadProgram has built it
  asked,    \* history: the wrapper called, its arguments, and those of Exec
  served    \* history: the function the kernel has called for it, with what, and its result

vars == <<mode, code, regs, rc, stack, asked, served>>
cpu  == <<code, regs>>

(* The low bytes of the call numbers.                                      *)
YALNIX ==
  [FORK |-> 1, EXEC |-> 2, EXIT |-> 3, WAIT |-> 4, GETPID |-> 5, BRK |-> 6, DELAY |-> 7,
   TTY_READ |-> 33, TTY_WRITE |-> 34, REGISTER |-> 49, SEND |-> 50, RECEIVE |-> 51,
   RECEIVESPECIFIC |-> 52, REPLY |-> 53, FORWARD |-> 54, COPY_FROM |-> 55, COPY_TO |-> 56,
   READ_SECTOR |-> 65, WRITE_SECTOR |-> 66, PIPE_INIT |-> 72, PIPE_READ |-> 73, PIPE_WRITE |-> 74,
   NOP |-> 80, SEM_INIT |-> 96, SEM_UP |-> 97, SEM_DOWN |-> 98, LOCK_INIT |-> 99,
   LOCK_ACQUIRE |-> 100, LOCK_RELEASE |-> 101, CVAR_INIT |-> 102, CVAR_SIGNAL |-> 103,
   CVAR_BROADCAST |-> 104, CVAR_WAIT |-> 105, RECLAIM |-> 106,
   CUSTOM_0 |-> 112, CUSTOM_1 |-> 113, CUSTOM_2 |-> 114]

(* The wrappers: the number, and how many arguments reach the registers.   *)
ProcessCalls ==
  [Nop |-> <<YALNIX.NOP, 4>>, Fork |-> <<YALNIX.FORK, 0>>, _Exit |-> <<YALNIX.EXIT, 1>>,
   Wait |-> <<YALNIX.WAIT, 1>>, GetPid |-> <<YALNIX.GETPID, 0>>, SysBrk |-> <<YALNIX.BRK, 1>>,
   Delay |-> <<YALNIX.DELAY, 1>>, TtyRead |-> <<YALNIX.TTY_READ, 3>>, TtyWrite |-> <<YALNIX.TTY_WRITE, 3>>]

ServiceCalls ==
  [Register |-> <<YALNIX.REGISTER, 1>>, Send |-> <<YALNIX.SEND, 2>>, Receive |-> <<YALNIX.RECEIVE, 0>>,
   ReceiveSpecific |-> <<YALNIX.RECEIVESPECIFIC, 2>>, Reply |-> <<YALNIX.REPLY, 2>>,
   Forward |-> <<YALNIX.FORWARD, 3>>, CopyFrom |-> <<YALNIX.COPY_FROM, 4>>, CopyTo |-> <<YALNIX.COPY_TO, 4>>,
   ReadSector |-> <<YALNIX.READ_SECTOR, 2>>, WriteSector |-> <<YALNIX.WRITE_SECTOR, 2>>,
   PipeInit |-> <<YALNIX.PIPE_INIT, 1>>, PipeRead |-> <<YALNIX.PIPE_READ, 3>>,
   PipeWrite |-> <<YALNIX.PIPE_WRITE, 3>>, SemInit |-> <<YALNIX.SEM_INIT, 2>>,
   SemUp |-> <<YALNIX.SEM_UP, 1>>, SemDown |-> <<YALNIX.SEM_DOWN, 1>>,
   LockInit |-> <<YALNIX.LOCK_INIT, 1>>, Acquire |-> <<YALNIX.LOCK_ACQUIRE, 1>>,
   Release |-> <<YALNIX.LOCK_RELEASE, 1>>, CvarInit |-> <<YALNIX.CVAR_INIT, 1>>,
   CvarWait |-> <<YALNIX.CVAR_WAIT, 2>>, CvarSignal |-> <<YALNIX.CVAR_SIGNAL, 1>>,
   CvarBroadcast |-> <<YALNIX.CVAR_BROADCAST, 1>>, Reclaim |-> <<YALNIX.RECLAIM, 1>>,
   Custom0 |-> <<YALNIX.CUSTOM_0, 4>>, Custom1 |-> <<YALNIX.CUSTOM_1, 4>>, Custom2 |-> <<YALNIX.CUSTOM_2, 4>>]

Wrappers ==
  [w \in DOMAIN ProcessCalls \cup DOMAIN ServiceCalls |->
     IF w \in DOMAIN ProcessCalls THEN ProcessCalls[w] ELSE ServiceCalls[w]]

NoCall   == [call |-> "none", args |-> <<>>]
NotServed == [by |-> "none", args |-> <<>>, response |-> 0]
NoStack  == [sp |-> 0, pages |-> 0, image |-> 0, words |-> <<>>, texts |-> <<>>]
Vectors  == UNION {[1..n -> Strings] : n \in 0..MaxArgs}
----------------------------------------------------------------------------
(* The argument strings, one after another below VMEM_1_LIMIT.             *)

(* Wrong: the terminating null is not counted. *)
BytesUnterminated(arg) == arg.len
(* An argument takes its characters and the null.                          *)
Bytes(arg) == arg.len + 1

Before(args) == LET f[i \in 1..Len(args)+1] == IF i = 1 THEN 0 ELSE f[i-1] + Bytes(args[i-1]) IN f
Size(args) == Before(args)[Len(args) + 1]
StringAddr(args, i) == VMEM_1_LIMIT - Size(args) + Before(args)[i]

(* The argument count, the vector and two null pointers, below the strings *)
(* and at a double word.                                                   *)
VectorAddr(size, argcount) ==
  LET a == VMEM_1_LIMIT - size - (argcount + 3 + POST_ARGV_NULL_SPACE) * WORD IN a - (a % 8)

StackPages(sp) == (VMEM_1_LIMIT - (sp - (sp % PAGESIZE))) \div PAGESIZE

Fits(pages, image) == pages + image < MAX_PT_LEN

Built(args, image) ==
  LET argc == Len(args) sp == VectorAddr(Size(args), argc) IN
  [sp |-> sp, pages |-> StackPages(sp), image |-> image,
   words |-> <<argc>> \o [i \in 1..argc |-> StringAddr(args, i)] \o <<NULL, NULL>>,
   texts |-> [i \in 1..argc |-> [at |-> StringAddr(args, i), text |-> args[i].text, len |-> args[i].len + 1]]]

Loads(args) ==
  \E image \in Images :
    /\ Fits(StackPages(VectorAddr(Size(args), Len(args))), image)
    /\ stack' = Built(args, image)
----------------------------------------------------------------------------
Init ==
  /\ mode = "boot" /\ code = 0 /\ regs = <<0, 0, 0, 0>> /\ rc = 0
  /\ stack = NoStack /\ asked = NoCall /\ served = NotServed

(* init gets the arguments of the kernel's command line.                   *)
KernelStart ==
  /\ mode = "boot"
  /\ \/ \E args \in Vectors : Loads(args) /\ mode' = "user"
     \/ mode' = "halted" /\ UNCHANGED stack
  /\ UNCHANGED <<cpu, rc, asked, served>>

(* The program runs with registers of its own, and no call under way.      *)
Resumes ==
  /\ mode' = "user" /\ code' = 0 /\ regs' = <<0, 0, 0, 0>>
  /\ rc' = 0 /\ asked' = NoCall /\ served' = NotServed

(* Wrong: the arguments end at the last register. *)
RegistersFromLast(args) == [i \in 1..4-Len(args) |-> 0] \o args
(* The arguments from the first register on; zero in the others.           *)
Registers(args) == args \o [i \in 1..4-Len(args) |-> 0]

YSYSCALL(number, args) ==
  /\ mode = "user" /\ mode' = "trap"
  /\ code' = number /\ regs' = Registers(args)
  /\ UNCHANGED <<rc, stack>>

(* Receive takes a buffer and does not pass it on.                         *)
Declared(w) == IF w = "Receive" THEN 1 ELSE Wrappers[w][2]

Calls(w, args) ==
  /\ YSYSCALL(Wrappers[w][1], SubSeq(args, 1, Wrappers[w][2]))
  /\ asked' = [call |-> w, args |-> args] /\ served' = NotServed

Exec(name, vector) ==
  \E a \in {NULL, NamePtr}, b \in {NULL, VectorPtr} :
    /\ YSYSCALL(YALNIX.EXEC, <<a, b>>)
    /\ asked' = [call |-> "Exec", args |-> <<a, b>>, name |-> name, vector |-> vector]
    /\ served' = NotServed

(* The cases of the handler that call a function and return its result.    *)
Function ==
  [number \in {YALNIX.FORK, YALNIX.WAIT, YALNIX.GETPID, YALNIX.BRK, YALNIX.DELAY,
               YALNIX.TTY_READ, YALNIX.TTY_WRITE} |->
     CASE number = YALNIX.FORK -> "KernelFork"
       [] number = YALNIX.WAIT -> "KernelWait"
       [] number = YALNIX.GETPID -> "KernelGetPid"
       [] number = YALNIX.BRK -> "KernelBrk"
       [] number = YALNIX.DELAY -> "KernelDelay"
       [] number = YALNIX.TTY_READ -> "TtyRead"
       [] number = YALNIX.TTY_WRITE -> "TtyWrite"]

(* The end of the wrapper.                                                 *)
Return == mode = "back" /\ Resumes /\ UNCHANGED stack

(* The arguments the case passes on: the first register or none.  The      *)
(* terminal functions are called without any of their three.               *)
Passed(by) == IF by \in {"KernelWait", "KernelBrk", "KernelDelay"} THEN <<regs[1]>> ELSE <<>>

(* What a function may return.  The terminal functions have empty bodies,  *)
(* so that whatever is in the register comes back.                         *)
Responses(by, args) ==
  CASE by = "KernelFork" -> Pids \cup {SUCCESS, ERROR}
    [] by = "KernelWait" -> Pids \cup {ERROR}
    [] by = "KernelGetPid" -> Pids
    [] by = "KernelBrk" -> {SUCCESS, ERROR}
    [] by = "KernelDelay" -> IF args[1] < 0 THEN {ERROR} ELSE {SUCCESS}
    [] OTHER -> Values

Returns(value) ==
  /\ mode = "trap" /\ mode' = "back"
  /\ regs' = [regs EXCEPT ![1] = value] /\ rc' = value
  /\ UNCHANGED <<code, stack, asked>>

trap_function ==
  /\ code \in DOMAIN Function
  /\ LET by == Function[code] IN \E response \in Responses(by, Passed(by)) :
       /\ Returns(response)
       /\ served' = [by |-> by, args |-> Passed(by), response |-> response]

(* A number without a case changes nothing: register 0 still holds the     *)
(* first argument.                                                         *)
trap_default ==
  /\ code \notin DOMAIN Function \cup {YALNIX.EXEC, YALNIX.EXIT}
  /\ Returns(regs[1]) /\ UNCHANGED served

trap_exit ==
  /\ mode = "trap" /\ code = YALNIX.EXIT /\ mode' = "exited"
  /\ served' = [by |-> "KernelExit", args |-> <<regs[1]>>, response |-> 0]
  /\ UNCHANGED <<cpu, rc, stack, asked>>

(* The bytes of the vector's first pointer, up to one that is zero, which  *)
(* the highest always is.                                                  *)
PointerBytes(vector) == [text : {"pointer"}, len : IF vector = <<>> THEN {0} ELSE 0..3]

(* Exec hands LoadProgram the registers for a vector of arguments: each is *)
(* taken for a pointer to a string, up to the first that is zero.          *)
Handed(bytes) ==
  LET n == CHOOSE i \in 1..4 : regs[i] = NULL /\ \A j \in 1..i-1 : regs[j] # NULL IN
  [i \in 1..n-1 |-> IF regs[i] = NamePtr THEN asked.name ELSE bytes]

(* A failed Exec returns ERROR to where the pcb's copy of the context goes *)
(* on, which is not here but in an earlier call or between two (Context);  *)
(* when it fails while it reads the file, the program is gone.             *)
trap_exec ==
  /\ mode = "trap" /\ code = YALNIX.EXEC
  /\ \/ regs[1] # NULL /\ \E bytes \in PointerBytes(asked.vector) : Loads(Handed(bytes))
     \/ UNCHANGED stack
     \/ regs[1] # NULL /\ stack' = NoStack
  /\ Resumes

trap_kernel_handler == trap_function \/ trap_default \/ trap_exit \/ trap_exec

Next ==
  \/ KernelStart
  \/ \E w \in DOMAIN Wrappers : \E args \in [1..Declared(w) -> Values] : Calls(w, args)
  \/ \E name \in Strings, vector \in Vectors : Exec(name, vector)
  \/ trap_kernel_handler \/ Return

Spec == Init /\ [][Next]_vars
----------------------------------------------------------------------------
(* A new program finds its arguments: the stack pointer is at a double     *)
(* word in the mapped pages, with a page left free below them; from there  *)
(* up come the count, as many pointers, and two null pointers; each        *)
(* pointer is to a whole string, and the strings lie above all of these    *)
(* and "one whole elf structure's worth of nulls" (hardware.h), below the  *)
(* end of the region, and not over each other.                             *)
WellFormed(s) ==
  LET argc == Len(s.texts)
      bottom == VMEM_1_LIMIT - s.pages * PAGESIZE
      End(t) == t.at + t.len IN
  /\ s.sp % 8 = 0 /\ bottom <= s.sp
  /\ VMEM_1_LIMIT \div 2 + (s.image + 1) * PAGESIZE <= bottom
  /\ s.words[1] = argc
  /\ \A i \in 1..argc : s.words[i+1] = s.texts[i].at
  /\ Len(s.words) = argc + 3 /\ \A i \in argc+2..argc+3 : s.words[i] = NULL
  /\ \A i \in 1..argc : LET t == s.texts[i] IN
       /\ s.sp + (Len(s.words) + POST_ARGV_NULL_SPACE) * WORD <= t.at /\ End(t) <= VMEM_1_LIMIT
       /\ \A j \in 1..i-1 : End(s.texts[j]) <= t.at

(* Every stack that a program is started on is such a stack. *)
StackWellFormed == stack # NoStack => WellFormed(stack)

(* The calls that calls.c offers and the kernel has: the function that     *)
(* serves each, and how many of the call's arguments it is given.          *)
Promised ==
  [Fork |-> <<"KernelFork", 0>>, Wait |-> <<"KernelWait", 1>>, GetPid |-> <<"KernelGetPid", 0>>,
   SysBrk |-> <<"KernelBrk", 1>>, Delay |-> <<"KernelDelay", 1>>, _Exit |-> <<"KernelExit", 1>>,
   TtyRead |-> <<"TtyRead", 0>>, TtyWrite |-> <<"TtyWrite", 0>>]

(* What a program gets back from a call the kernel has was computed by the *)
(* function of that call, for this call and from the arguments it was made *)
(* with (from none of them where a terminal is read or written); and for a *)
(* call without a case in the handler no function of the kernel runs,      *)
(* whatever its number and arguments.  Nothing is claimed of what such a   *)
(* call returns: it is its own first argument, and no answer.              *)
CallsAnswered ==
  mode \in {"back", "exited"} =>
    IF asked.call \in DOMAIN Promised
      THEN /\ served.by = Promised[asked.call][1]
           /\ served.args = SubSeq(asked.args, 1, Promised[asked.call][2])
           /\ mode = "back" => rc = served.response
      ELSE served = NotServed

(* load_program.c: "its arguments come from the array at "args", which is  *)
(* in standard argv format", and test_exec.c prints the arguments that     *)
(* test_exec_syscall.c has passed to Exec: a program loaded by Exec has    *)
(* the arguments of the vector that Exec was called with, which begins     *)
(* with the program's name.                                                *)
ExecPassesArguments ==
  [][mode = "trap" /\ asked.call = "Exec" /\ asked.args = <<NamePtr, VectorPtr>>
     /\ asked.vector # <<>> /\ Head(asked.vector) = asked.name
     /\ stack' \notin {stack, NoStack} =>
       [i \in DOMAIN stack'.texts |-> stack'.texts[i].text]
         = [i \in DOMAIN asked.vector |-> asked.vector[i].text]]_vars
=============================================================================
