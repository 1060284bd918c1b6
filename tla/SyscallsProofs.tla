--------------------------- MODULE SyscallsProofs ---------------------------
(***************************************************************************)
(* Proofs about Syscalls, for any page size, region, values, strings and   *)
(* images: what a wrapper asks for is what the kernel answers, and the     *)
(* stack that LoadProgram builds holds the arguments.                      *)
(***************************************************************************)
EXTENDS Syscalls, QueueTheorems, TLAPS

(* The numbers of the calls whose result the handler returns. *)
Numbers == {1, 4, 5, 6, 7, 33, 34}

(* These are the numbers that Function knows. *)
LEMMA FunctionDomain == DOMAIN Function = Numbers
BY DEF Function, YALNIX, Numbers

(* The number of a wrapper leads to the function the wrapper stands for,   *)
(* and that of a wrapper without one to the handler's default; a wrapper   *)
(* whose function takes an argument passes one.                            *)
Reaches(w, entry) ==
  /\ entry[1] \in Nat /\ entry[2] \in 0..4
  /\ w \in DOMAIN Promised =>
       \/ w = "_Exit" /\ entry[1] = YALNIX.EXIT
       \/ /\ entry[1] \in DOMAIN Function /\ Function[entry[1]] = Promised[w][1]
          /\ Promised[w][2] = IF Promised[w][1] \in {"KernelWait", "KernelBrk", "KernelDelay"} THEN 1 ELSE 0
  /\ w \in DOMAIN Promised => Promised[w][2] = 0 \/ (Promised[w][2] = 1 /\ entry[2] = 1)
  /\ w \notin DOMAIN Promised =>
       entry[1] \notin DOMAIN Function \cup {YALNIX.EXEC, YALNIX.EXIT}

(* The handler's cases, by number. *)
LEMMA FunctionIs ==
  /\ Function[1] = "KernelFork" /\ Function[4] = "KernelWait" /\ Function[5] = "KernelGetPid"
  /\ Function[6] = "KernelBrk" /\ Function[7] = "KernelDelay"
  /\ Function[33] = "TtyRead" /\ Function[34] = "TtyWrite"
BY DEF Function, YALNIX

(* The wrappers of the calls about processes, by number. *)
LEMMA CallTable == ProcessCalls =
  [Nop |-> <<80, 4>>, Fork |-> <<1, 0>>, _Exit |-> <<3, 1>>,
   Wait |-> <<4, 1>>, GetPid |-> <<5, 0>>, SysBrk |-> <<6, 1>>,
   Delay |-> <<7, 1>>, TtyRead |-> <<33, 3>>, TtyWrite |-> <<34, 3>>]
BY DEF ProcessCalls, YALNIX

(* They lead where they should. *)
LEMMA CallsReach == \A w \in DOMAIN ProcessCalls : Reaches(w, ProcessCalls[w])
<1>1. YALNIX.EXEC = 2 /\ YALNIX.EXIT = 3
  BY DEF YALNIX
<1>2. DOMAIN ProcessCalls = {"Nop", "Fork", "_Exit", "Wait", "GetPid", "SysBrk", "Delay", "TtyRead", "TtyWrite"}
  BY DEF ProcessCalls
<1> QED BY <1>1, <1>2, CallTable, FunctionDomain, FunctionIs DEF Reaches, Numbers, Promised

(* The services' numbers are none that the handler knows. *)
LEMMA ServicesReach == \A w \in DOMAIN ServiceCalls :
  /\ ServiceCalls[w][1] \in 49..114 /\ ServiceCalls[w][2] \in 0..4
  /\ w \notin DOMAIN Promised
BY DEF ServiceCalls, YALNIX, Promised

(* Every wrapper leads where it should. *)
LEMMA WrappersReach ==
  \A w \in DOMAIN Wrappers :
    Reaches(w, Wrappers[w]) /\ (w = "Receive" => Wrappers[w][2] = 0) /\ w # "Exec"
<1>1. \A w \in DOMAIN ServiceCalls : Reaches(w, ServiceCalls[w])
  BY ServicesReach, FunctionDomain DEF Reaches, Numbers, YALNIX
<1>2. \A w \in DOMAIN Wrappers :
        \/ w \in DOMAIN ProcessCalls /\ Wrappers[w] = ProcessCalls[w]
        \/ w \in DOMAIN ServiceCalls /\ Wrappers[w] = ServiceCalls[w]
  BY DEF Wrappers
<1>3. \A w \in DOMAIN ProcessCalls : w # "Receive" /\ w # "Exec"
  BY DEF ProcessCalls
<1>4. \A w \in DOMAIN ServiceCalls : w # "Exec" /\ (w = "Receive" => ServiceCalls[w][2] = 0)
  BY DEF ServiceCalls
<1> QED BY <1>1, <1>2, <1>3, <1>4, CallsReach

----------------------------------------------------------------------------
(* The registers.                                                          *)

(* Register 0 gets the first argument, or zero. *)
LEMMA FirstRegister ==
  ASSUME NEW args \in Seq(Int), Len(args) <= 4
  PROVE  Registers(args)[1] = IF args = <<>> THEN 0 ELSE args[1]
BY DEF Registers

(* What the wrapper leaves in register 0. *)
First == IF asked.args = <<>> \/ asked.call = "Receive" THEN 0 ELSE asked.args[1]

(* While the kernel has a call to answer, the number and register 0 are    *)
(* those of the wrapper; Exec's registers end with two zeros, which stop   *)
(* LoadProgram's count of the arguments.                                   *)
Registered ==
  mode = "trap" =>
    /\ served = NotServed
    /\ \/ /\ asked.call \in DOMAIN Wrappers
          /\ asked.args \in [1..Declared(asked.call) -> Values]
          /\ code = Wrappers[asked.call][1] /\ regs[1] = First
       \/ /\ asked.call = "Exec" /\ asked.name \in Strings /\ code = YALNIX.EXEC
          /\ \E a \in {NULL, NamePtr}, b \in {NULL, VectorPtr} : regs = <<a, b, 0, 0>>

(* A wrapper sets the registers as Registered says. *)
LEMMA CallRegisters ==
  ASSUME NEW w \in DOMAIN Wrappers, NEW args \in [1..Declared(w) -> Values], Calls(w, args)
  PROVE  Registered'
<1>1. Wrappers[w][2] \in 0..4 /\ (w = "Receive" => Wrappers[w][2] = 0) /\ Values \subseteq Int
  BY WrappersReach, SyscallsAssumption DEF Reaches
<1>2. asked' = [call |-> w, args |-> args] /\ served' = NotServed /\ code' = Wrappers[w][1]
      /\ regs' = Registers(SubSeq(args, 1, Wrappers[w][2]))
  BY DEF Calls, YSYSCALL
<1>3. CASE w = "Receive"
  <2>1. SubSeq(args, 1, Wrappers[w][2]) = <<>>
    BY <1>1, <1>3
  <2>2. <<>> \in Seq(Int) /\ Len(<<>>) <= 4
    OBVIOUS
  <2>3. Registers(<<>>)[1] = 0
    BY <2>2, FirstRegister
  <2> QED BY <1>2, <1>3, <2>1, <2>3 DEF Registered, First
<1>4. CASE w # "Receive"
  <2>1. Declared(w) = Wrappers[w][2]
    BY <1>4 DEF Declared
  <2> DEFINE n == Wrappers[w][2]
  <2>0. n \in 0..4 /\ args \in [1..n -> Int]
    BY <1>1, <2>1
  <2> HIDE DEF n
  <2>2. args \in Seq(Int) /\ Len(args) = n /\ Len(args) <= 4
    BY <2>0
  <2>3. SubSeq(args, 1, n) = args
    BY <2>2
  <2>4. regs'[1] = IF args = <<>> THEN 0 ELSE args[1]
    BY <1>2, <2>2, <2>3, FirstRegister DEF n
  <2> QED BY <1>2, <1>4, <2>4 DEF Registered, First
<1> QED BY <1>3, <1>4

(* Exec sets the registers as Registered says. *)
LEMMA ExecRegisters ==
  ASSUME NEW name \in Strings, NEW vector, Exec(name, vector)
  PROVE  Registered'
<1>1. PICK a \in {NULL, NamePtr}, b \in {NULL, VectorPtr} :
        /\ YSYSCALL(YALNIX.EXEC, <<a, b>>) /\ served' = NotServed
        /\ asked' = [call |-> "Exec", args |-> <<a, b>>, name |-> name, vector |-> vector]
  BY DEF Exec
<1>2. Registers(<<a, b>>) = <<a, b, 0, 0>>
  <2>1. Len(<<a, b>>) = 2 /\ <<a, b>> \in Seq(Int) /\ <<a, b>>[1] = a /\ <<a, b>>[2] = b
    BY DEF NULL, NamePtr, VectorPtr
  <2> DEFINE zeros == [i \in 1..4-Len(<<a, b>>) |-> 0]
  <2>2. zeros \in Seq(Int) /\ Len(zeros) = 2 /\ zeros[1] = 0 /\ zeros[2] = 0
    BY <2>1
  <2> HIDE DEF zeros
  <2>3. zeros = <<0, 0>>
    BY <2>2
  <2>4. Registers(<<a, b>>) = <<a, b>> \o zeros
    BY DEF Registers, zeros
  <2> DEFINE four == <<a, b>> \o <<0, 0>>
  <2>5. /\ four \in Seq(Int) /\ Len(four) = 4
        /\ four[1] = a /\ four[2] = b /\ four[3] = 0 /\ four[4] = 0
    BY <2>1
  <2> HIDE DEF four
  <2>6. four = <<a, b, 0, 0>>
    BY <2>5
  <2> QED BY <2>3, <2>4, <2>6 DEF four
<1>3. code' = YALNIX.EXEC /\ regs' = <<a, b, 0, 0>>
  BY <1>1, <1>2 DEF YSYSCALL
<1> QED BY <1>1, <1>3 DEF Registered

(* One argument, as a sequence. *)
LEMMA OneArgument ==
  ASSUME NEW args \in [1..1 -> Int]
  PROVE  args # <<>> /\ SubSeq(args, 1, 1) = <<args[1]>>
<1>1. args \in Seq(Int) /\ Len(args) = 1 /\ args[1] \in Int
  <2>1. args \in Seq(Int)
    <3>1. \E n \in Nat : args \in [1..n -> Int]
      OBVIOUS
    <3> QED BY <3>1
  <2>2. DOMAIN args = 1..1 /\ args[1] \in Int
    OBVIOUS
  <2>3. Len(args) = 1
    BY <2>1, <2>2, LenProperties
  <2> QED BY <2>1, <2>2, <2>3
<1> DEFINE t == SubSeq(args, 1, 1)
           u == <<args[1]>>
<1>2. /\ t \in Seq(Int) /\ u \in Seq(Int) /\ Len(t) = Len(u)
      /\ \A i \in 1..Len(t) : t[i] = u[i]
  BY <1>1
<1> HIDE DEF t, u
<1>3. t = u
  BY <1>2, SeqEqual
<1>4. args # <<>>
  BY <1>1
<1> QED BY <1>3, <1>4 DEF t, u

(* Whatever the kernel answers is what CallsAnswered says of it. *)
LEMMA AnswerStep ==
  ASSUME Registered, trap_function \/ trap_default \/ trap_exit
  PROVE  CallsAnswered'
<1> DEFINE w == asked.call
<1>0. mode = "trap" /\ asked' = asked /\ mode' \in {"back", "exited"} /\ First' = First
  BY DEF trap_function, trap_default, trap_exit, Returns, First
<1>1. /\ YALNIX.EXEC \notin DOMAIN Function /\ YALNIX.EXIT \notin DOMAIN Function
      /\ YALNIX.EXEC # YALNIX.EXIT
  BY FunctionDomain DEF YALNIX, Numbers
<1>2. code # YALNIX.EXEC
  BY <1>0, <1>1 DEF trap_function, trap_default, trap_exit, Returns
<1>3. /\ w \in DOMAIN Wrappers /\ code = Wrappers[w][1] /\ regs[1] = First /\ served = NotServed
      /\ asked.args \in [1..Declared(w) -> Values]
  BY <1>0, <1>2 DEF Registered
<1>4. Reaches(w, Wrappers[w])
  BY <1>3, WrappersReach
<1>7. /\ SubSeq(asked.args, 1, 0) = <<>>
      /\ Wrappers[w][2] = 1 /\ w # "Receive" => SubSeq(asked.args, 1, 1) = <<regs[1]>>
  <2>1. Declared(w) \in Nat /\ (w # "Receive" => Declared(w) = Wrappers[w][2])
    BY <1>4 DEF Declared, Reaches
  <2>2. asked.args \in [1..Declared(w) -> Int]
    BY <1>3, SyscallsAssumption
  <2> DEFINE args == asked.args
             d == Declared(w)
  <2>3. d \in Nat /\ args \in [1..d -> Int]
    BY <2>1, <2>2
  <2> HIDE DEF args, d
  <2>4. SubSeq(args, 1, 0) = <<>>
    BY <2>3
  <2>5. d = 1 => args # <<>> /\ SubSeq(args, 1, 1) = <<args[1]>>
    BY <2>3, OneArgument
  <2> QED BY <1>3, <2>1, <2>4, <2>5 DEF First, args, d
<1>5. CASE w \in DOMAIN Promised
  <2>0. Promised[w][2] = 0 \/ (Promised[w][2] = 1 /\ Wrappers[w][2] = 1 /\ w # "Receive")
    BY <1>4, <1>5 DEF Reaches, Promised
  <2>1. CASE trap_function
    <3>1. /\ code \in DOMAIN Function /\ Function[code] = Promised[w][1]
          /\ Promised[w][2] = IF Promised[w][1] \in {"KernelWait", "KernelBrk", "KernelDelay"} THEN 1 ELSE 0
      BY <1>1, <1>3, <1>4, <1>5, <2>1 DEF Reaches, trap_function
    <3>2. served'.by = Promised[w][1] /\ served'.args = Passed(Promised[w][1]) /\ rc' = served'.response
      BY <2>1, <3>1 DEF trap_function, Returns
    <3>3. Passed(Promised[w][1]) = SubSeq(asked.args, 1, Promised[w][2])
      <4>1. CASE Promised[w][1] \in {"KernelWait", "KernelBrk", "KernelDelay"}
        <5>1. Promised[w][2] = 1 /\ SubSeq(asked.args, 1, 1) = <<regs[1]>>
          BY <1>7, <2>0, <3>1, <4>1
        <5> QED BY <4>1, <5>1, Zenon DEF Passed
      <4>2. CASE Promised[w][1] \notin {"KernelWait", "KernelBrk", "KernelDelay"}
        <5>1. Promised[w][2] = 0
          BY <3>1, <4>2
        <5> QED BY <1>7, <4>2, <5>1, Zenon DEF Passed
      <4> QED BY <4>1, <4>2
    <3> QED BY <1>0, <1>5, <3>2, <3>3 DEF CallsAnswered
  <2>2. CASE trap_exit
    <3>1. w = "_Exit"
      BY <1>1, <1>3, <1>4, <1>5, <2>2 DEF Reaches, trap_exit
    <3>2. Promised[w] = <<"KernelExit", 1>>
      BY <3>1 DEF Promised
    <3>3. served'.by = "KernelExit" /\ served'.args = <<regs[1]>> /\ mode' = "exited"
      BY <2>2 DEF trap_exit
    <3>4. <<regs[1]>> = SubSeq(asked.args, 1, 1)
      <4>1. Promised[w][2] = 1
        BY <3>2
      <4>2. Wrappers[w][2] = 1 /\ w # "Receive"
        BY <2>0, <4>1
      <4> QED BY <1>7, <4>2, Zenon
    <3> QED BY <1>0, <1>5, <3>2, <3>3, <3>4 DEF CallsAnswered
  <2>3. CASE trap_default
    BY <1>3, <1>4, <1>5, <2>3 DEF Reaches, trap_default
  <2> QED BY <2>1, <2>2, <2>3
<1>6. CASE w \notin DOMAIN Promised
  <2>1. code \notin DOMAIN Function /\ code # YALNIX.EXIT
    BY <1>3, <1>4, <1>6 DEF Reaches
  <2>2. trap_default
    BY <2>1 DEF trap_function, trap_exit
  <2>3. served' = NotServed
    BY <1>3, <2>2 DEF trap_default
  <2> QED BY <1>0, <1>6, <2>3 DEF CallsAnswered
<1> QED BY <1>5, <1>6

(* The registers and the answers stay as Registered and CallsAnswered say. *)
LEMMA CallsStep ==
  Registered /\ CallsAnswered /\ [Next]_vars => Registered' /\ CallsAnswered'
<1> SUFFICES ASSUME Registered, CallsAnswered, [Next]_vars
             PROVE  Registered' /\ CallsAnswered'
  OBVIOUS
<1>1. CASE KernelStart
  BY <1>1 DEF KernelStart, Registered, CallsAnswered
<1>2. ASSUME NEW w \in DOMAIN Wrappers, NEW args \in [1..Declared(w) -> Values], Calls(w, args)
      PROVE  Registered' /\ CallsAnswered'
  BY <1>2, CallRegisters DEF Calls, YSYSCALL, CallsAnswered
<1>3. ASSUME NEW name \in Strings, NEW vector \in Vectors, Exec(name, vector)
      PROVE  Registered' /\ CallsAnswered'
  BY <1>3, ExecRegisters DEF Exec, YSYSCALL, CallsAnswered
<1>4. CASE trap_function \/ trap_default \/ trap_exit
  BY <1>4, AnswerStep DEF trap_function, trap_default, trap_exit, Returns, Registered
<1>5. CASE trap_exec \/ Return
  BY <1>5 DEF trap_exec, Return, Resumes, Registered, CallsAnswered
<1>6. CASE UNCHANGED vars
  BY <1>6 DEF vars, Registered, CallsAnswered, First
<1> QED BY <1>1, <1>2, <1>3, <1>4, <1>5, <1>6 DEF Next, trap_kernel_handler

(* A wrapper reaches the kernel's function for it, with the argument the   *)
(* function takes, and brings back what that returns; for a call without a *)
(* case none of the kernel's functions runs.  For any values, strings and  *)
(* images (Syscalls!CallsAnswered).                                        *)
THEOREM AnswersCorrect == Spec => []CallsAnswered
<1>1. Init => Registered /\ CallsAnswered
  BY DEF Init, Registered, CallsAnswered
<1> QED BY <1>1, CallsStep, PTL DEF Spec

----------------------------------------------------------------------------
(* The stack of a program.                                                 *)

(* A list of arguments: each has a length. *)
IsArguments(args) == Len(args) \in Nat /\ \A i \in 1..Len(args) : args[i].len \in Nat

(* An f that Before's recursion determines up to the n-th argument. *)
Sums(f, args, n) == f = [i \in 1..n |-> IF i = 1 THEN 0 ELSE f[i-1] + Bytes(args[i-1])]

(* There is one for every n: the recursion goes down by one. *)
LEMMA SumsExist ==
  ASSUME NEW args, Len(args) \in Nat
  PROVE  \A n \in 1..Len(args)+1 : \E f : Sums(f, args, n)
<1> DEFINE Bad == {n \in 1..Len(args)+1 : ~\E f : Sums(f, args, n)}
<1> SUFFICES ASSUME Bad # {} PROVE FALSE
  OBVIOUS
<1>1. Bad \subseteq Nat
  OBVIOUS
<1>2. PICK n \in Bad : \A m \in Bad : n <= m
  <2> HIDE DEF Bad
  <2> QED BY <1>1, LeastNatural
<1>3. CASE n = 1
  <2> DEFINE f == [i \in 1..1 |-> 0]
  <2>1. Sums(f, args, 1)
    BY DEF Sums
  <2> QED BY <1>2, <1>3, <2>1
<1>4. CASE n # 1
  <2>1. n - 1 \in 1..Len(args)+1 /\ n - 1 \notin Bad /\ n \in Nat
    BY <1>2, <1>4
  <2>2. PICK f : Sums(f, args, n - 1)
    BY <2>1
  <2> DEFINE g == [i \in 1..n |-> IF i < n THEN f[i] ELSE f[i-1] + Bytes(args[i-1])]
  <2>3. Sums(g, args, n)
    <3>1. \A i \in 1..n-1 : f[i] = IF i = 1 THEN 0 ELSE f[i-1] + Bytes(args[i-1])
      BY <2>2 DEF Sums
    <3>2. \A i \in 1..n : g[i] = IF i = 1 THEN 0 ELSE g[i-1] + Bytes(args[i-1])
      BY <1>4, <2>1, <3>1
    <3> QED BY <3>2 DEF Sums
  <2> QED BY <1>2, <2>3
<1> QED BY <1>3, <1>4

(* So Before is what its recursion says. *)
LEMMA BeforeIs ==
  ASSUME NEW args, Len(args) \in Nat
  PROVE  Sums(Before(args), args, Len(args) + 1)
<1>1. PICK f : Sums(f, args, Len(args) + 1)
  BY SumsExist
<1>2. Before(args) = CHOOSE f_1 : Sums(f_1, args, Len(args) + 1)
  BY DEF Before, Sums
<1> QED BY <1>1, <1>2

(* Each argument starts where the one before it ends. *)
LEMMA BeforeGrows ==
  ASSUME NEW args, IsArguments(args)
  PROVE  /\ Before(args)[1] = 0
         /\ \A i \in 1..Len(args) :
              /\ Before(args)[i + 1] = Before(args)[i] + Bytes(args[i])
         /\ \A i \in 1..Len(args)+1 : Before(args)[i] \in Nat
         /\ \A i, j \in 1..Len(args)+1 : i <= j => Before(args)[i] <= Before(args)[j]
<1> DEFINE b == Before(args)
           L == Len(args)
<1>1. L \in Nat /\ \A i \in 1..L : Bytes(args[i]) \in Nat
  BY DEF IsArguments, Bytes
<1>2. b = [i \in 1..L+1 |-> IF i = 1 THEN 0 ELSE b[i-1] + Bytes(args[i-1])]
  BY <1>1, BeforeIs DEF Sums
<1> HIDE DEF b, L
<1>3. b[1] = 0
  <2>1. 1 \in 1..L+1
    BY <1>1
  <2> QED BY <1>2, <2>1
<1>4. ASSUME NEW i \in 1..L
      PROVE  b[i + 1] = b[i] + Bytes(args[i])
  <2>1. i + 1 \in 1..L+1 /\ i + 1 # 1 /\ (i + 1) - 1 = i
    BY <1>1
  <2> QED BY <1>2, <2>1
<1>5. \A i \in 1..L+1 : b[i] \in Nat
  <2> DEFINE Bad == {n \in 1..L+1 : b[n] \notin Nat}
  <2> SUFFICES ASSUME Bad # {} PROVE FALSE
    OBVIOUS
  <2>1. PICK n \in Bad : \A m \in Bad : n <= m
    <3>1. Bad \subseteq Nat
      BY <1>1
    <3> HIDE DEF Bad
    <3> QED BY <3>1, LeastNatural
  <2>2. n # 1 /\ n - 1 \in 1..L /\ n - 1 \notin Bad /\ (n - 1) + 1 = n
    BY <1>1, <1>3, <2>1
  <2>3. b[n - 1] \in Nat /\ b[n] = b[n - 1] + Bytes(args[n - 1])
    BY <1>1, <1>4, <2>2
  <2> QED BY <1>1, <2>1, <2>2, <2>3
<1>6. \A i, j \in 1..L+1 : i <= j => b[i] <= b[j]
  <2> SUFFICES ASSUME NEW i \in 1..L+1
               PROVE  \A j \in 1..L+1 : i <= j => b[i] <= b[j]
    OBVIOUS
  <2> DEFINE Bad == {n \in 1..L+1 : i <= n /\ ~(b[i] <= b[n])}
  <2> SUFFICES ASSUME Bad # {} PROVE FALSE
    OBVIOUS
  <2>1. PICK n \in Bad : \A m \in Bad : n <= m
    <3>1. Bad \subseteq Nat
      BY <1>1
    <3> HIDE DEF Bad
    <3> QED BY <3>1, LeastNatural
  <2>2. n # i /\ i <= n
    BY <1>5, <2>1
  <2>3. n - 1 \in 1..L /\ n - 1 \notin Bad /\ (n - 1) + 1 = n /\ i <= n - 1
    BY <1>1, <2>1, <2>2
  <2>4. b[i] <= b[n - 1] /\ b[n] = b[n - 1] + Bytes(args[n - 1]) /\ Bytes(args[n - 1]) \in Nat
    BY <1>1, <1>4, <2>3
  <2>5. b[i] \in Nat /\ b[n - 1] \in Nat
    BY <1>1, <1>5, <2>3
  <2> QED BY <2>1, <2>2, <2>4, <2>5
<1> QED BY <1>3, <1>4, <1>5, <1>6 DEF b, L

(* The pages that the stack takes up. *)
LEMMA WholePages ==
  ASSUME NEW sp \in Int
  PROVE  /\ StackPages(sp) \in Int /\ VMEM_1_LIMIT \in Int
         /\ VMEM_1_LIMIT - StackPages(sp) * PAGESIZE <= sp
         /\ VMEM_1_LIMIT \div 2 = MAX_PT_LEN * PAGESIZE
         /\ VMEM_1_LIMIT = (2 * MAX_PT_LEN) * PAGESIZE
<1> DEFINE P == PAGESIZE
           M == MAX_PT_LEN
           k == sp \div P
           r == sp % P
<1>1. P \in Nat \ {0} /\ M \in Nat
  BY SyscallsAssumption
<1>2. \A x \in Int, d \in Nat \ {0} :
        /\ x \div d \in Int /\ x % d \in 0..d-1
        /\ x = d * (x \div d) + (x % d)
  OBVIOUS
<1>3. k \in Int /\ r \in 0..P-1 /\ sp = P * k + r
  BY <1>1, <1>2
<1>4. \A x \in Int, d \in Nat \ {0} : (x * d) \div d = x
  OBVIOUS
<1>5. VMEM_1_LIMIT = 2 * M * P
  BY DEF VMEM_1_LIMIT
<1>6. StackPages(sp) = (2 * M * P - (sp - r)) \div P
  BY <1>5 DEF StackPages
<1> HIDE DEF P, M, k, r
<1>7. sp - r = k * P /\ 2 * M * P - k * P = (2 * M - k) * P /\ 2 * M - k \in Int
  BY <1>1, <1>3
<1>8. StackPages(sp) = 2 * M - k
  BY <1>1, <1>4, <1>6, <1>7
<1>9. M * P \in Int /\ 2 * M * P = (M * P) * 2
  BY <1>1
<1>10. \A x \in Int : (x * 2) \div 2 = x
  OBVIOUS
<1>11. 2 * M * P \in Int /\ (2 * M - k) * P \in Int /\ k * P \in Int /\ 2 * M * P = (2 * M) * P
  BY <1>1, <1>3
<1> QED BY <1>1, <1>3, <1>5, <1>7, <1>8, <1>9, <1>10, <1>11 DEF P, M

(* The words on the stack: the count, the pointers, two nulls. *)
LEMMA Words ==
  ASSUME NEW n \in Nat, NEW f \in [1..n -> Int]
  PROVE  LET words == <<n>> \o f \o <<NULL, NULL>> IN
         /\ Len(words) = n + 3 /\ words[1] = n
         /\ \A i \in 1..n : words[i + 1] = f[i]
         /\ words[n + 2] = NULL /\ words[n + 3] = NULL
<1>1. f \in Seq(Int) /\ Len(f) = n
  OBVIOUS
<1> DEFINE front == <<n>> \o f
           words == front \o <<NULL, NULL>>
<1>2. <<n>> \in Seq(Int) /\ Len(<<n>>) = 1 /\ <<NULL, NULL>> \in Seq(Int) /\ Len(<<NULL, NULL>>) = 2
  BY DEF NULL
<1>3. /\ front \in Seq(Int) /\ Len(front) = n + 1 /\ front[1] = n
      /\ \A i \in 1..n : front[i + 1] = f[i]
  BY <1>1, <1>2
<1> HIDE DEF front
<1>4. /\ Len(words) = n + 3 /\ words[1] = n
      /\ \A i \in 1..n : words[i + 1] = f[i]
  BY <1>2, <1>3
<1>5. words[n + 2] = NULL /\ words[n + 3] = NULL
  BY <1>2, <1>3
<1> QED BY <1>4, <1>5 DEF front

(* The stack that LoadProgram builds, whatever the number and the lengths  *)
(* of the arguments, as long as it passes the check for space.             *)
LEMMA BuiltWellFormed ==
  ASSUME NEW args, IsArguments(args), NEW image \in Images,
         Fits(StackPages(VectorAddr(Size(args), Len(args))), image)
  PROVE  WellFormed(Built(args, image))
<1> DEFINE L == Len(args)
           b == Before(args)
           size == Size(args)
           sp == VectorAddr(size, L)
           at == [i \in 1..L |-> StringAddr(args, i)]
           texts == [i \in 1..L |-> [at |-> StringAddr(args, i), text |-> args[i].text, len |-> args[i].len + 1]]
           words == <<L>> \o at \o <<NULL, NULL>>
           pages == StackPages(sp)
           s == [sp |-> sp, pages |-> pages, image |-> image, words |-> words, texts |-> texts]
           TOP == VMEM_1_LIMIT
<1>1. Built(args, image) = s
  BY DEF Built
<1>2. L \in Nat /\ \A i \in 1..L : args[i].len \in Nat
  BY DEF IsArguments
<1>3. /\ b[1] = 0 /\ \A i \in 1..L+1 : b[i] \in Nat
      /\ \A i \in 1..L : b[i + 1] = b[i] + (args[i].len + 1)
      /\ \A i, j \in 1..L+1 : i <= j => b[i] <= b[j]
  BY BeforeGrows DEF Bytes
<1>4. size = b[L + 1] /\ size \in Nat
  BY <1>2, <1>3 DEF Size
<1>5. TOP \in Int
  BY WholePages, SMT
<1>6. \A i \in 1..L : at[i] = TOP - size + b[i] /\ at[i] \in Int
  <2>1. \A i \in 1..L : StringAddr(args, i) = TOP - size + b[i] /\ b[i] \in Nat
    <3>1. \A i \in 1..L : i \in 1..L+1
      BY <1>2
    <3> QED BY <1>3, <3>1 DEF StringAddr
  <2> HIDE DEF L, size, b, TOP
  <2> QED BY <1>4, <1>5, <2>1
<1>7. sp \in Int /\ (sp % 8) = 0 /\ sp <= TOP - size - (L + 35) * 4
  <2> DEFINE a == TOP - size - (L + 3 + 32) * 4
  <2>1. sp = a - (a % 8)
    BY DEF VectorAddr, POST_ARGV_NULL_SPACE, WORD
  <2> HIDE DEF L, size, sp, TOP
  <2>2. a \in Int /\ a = TOP - size - (L + 35) * 4
    BY <1>2, <1>4, <1>5
  <2> HIDE DEF a
  <2> QED BY <2>1, <2>2
<1>8. Len(texts) = L /\ \A i \in 1..L : texts[i].at = at[i] /\ texts[i].len = args[i].len + 1
  BY <1>2
<1>9. /\ Len(words) = L + 3 /\ words[1] = L /\ \A i \in 1..L : words[i + 1] = at[i]
      /\ words[L + 2] = NULL /\ words[L + 3] = NULL
  <2>1. at \in [1..L -> Int]
    BY <1>6
  <2> HIDE DEF at, L
  <2> QED BY <1>2, <2>1, Words
<1>10. /\ TOP - pages * PAGESIZE <= sp
       /\ TOP \div 2 + (image + 1) * PAGESIZE <= TOP - pages * PAGESIZE
  <2>1. /\ pages \in Int /\ TOP - pages * PAGESIZE <= sp
        /\ TOP \div 2 = MAX_PT_LEN * PAGESIZE /\ TOP = (2 * MAX_PT_LEN) * PAGESIZE
    <3> HIDE DEF sp
    <3> QED BY <1>7, WholePages
  <2>2. pages + image < MAX_PT_LEN /\ image \in Nat /\ MAX_PT_LEN \in Nat /\ PAGESIZE \in Nat
    BY SyscallsAssumption DEF Fits
  <2> HIDE DEF pages, TOP
  <2>3. (MAX_PT_LEN - pages - image - 1) * PAGESIZE >= 0
    <3>1. \A x, y \in Nat : x * y >= 0
      OBVIOUS
    <3>2. MAX_PT_LEN - pages - image - 1 \in Nat
      BY <2>1, <2>2
    <3> QED BY <2>2, <3>1, <3>2
  <2>4. (MAX_PT_LEN - pages - image - 1) * PAGESIZE
          = (2 * MAX_PT_LEN) * PAGESIZE - pages * PAGESIZE - MAX_PT_LEN * PAGESIZE - (image + 1) * PAGESIZE
    BY <2>1, <2>2
  <2>5. /\ (2 * MAX_PT_LEN) * PAGESIZE \in Int /\ pages * PAGESIZE \in Int
        /\ MAX_PT_LEN * PAGESIZE \in Int /\ (image + 1) * PAGESIZE \in Int
    BY <2>1, <2>2
  <2> QED BY <2>1, <2>3, <2>4, <2>5
<1> HIDE DEF L, b, size, sp, at, texts, words, pages, TOP
<1>11. ASSUME NEW i \in 1..L
       PROVE  /\ sp + (L + 3 + 32) * 4 <= at[i] /\ at[i] + (args[i].len + 1) <= TOP
              /\ \A j \in 1..i-1 : at[j] + (args[j].len + 1) <= at[i]
  <2>1. i + 1 \in 1..L+1 /\ i + 1 <= L + 1 /\ L + 1 \in 1..L+1 /\ i \in 1..L+1
    BY <1>2
  <2>2. b[i] \in Nat /\ b[i + 1] = b[i] + (args[i].len + 1) /\ b[i + 1] <= size
    BY <1>3, <1>4, <2>1
  <2>3. at[i] = TOP - size + b[i] /\ at[i] \in Int /\ args[i].len \in Nat
    BY <1>2, <1>6
  <2>4. sp + (L + 3 + 32) * 4 <= at[i] /\ at[i] + (args[i].len + 1) <= TOP
    <3>1. b[i + 1] \in Nat
      BY <1>3, <2>1
    <3>2. PICK T \in Int, p \in Int, z \in Nat, n \in Nat : T = TOP /\ p = sp /\ z = size /\ n = L
      BY <1>2, <1>4, <1>5, <1>7
    <3>3. PICK a \in Int, x \in Nat, y \in Nat, l \in Nat :
            a = at[i] /\ x = b[i] /\ y = b[i + 1] /\ l = args[i].len
      BY <2>2, <2>3, <3>1
    <3>4. a = T - z + x /\ y = x + (l + 1) /\ y <= z /\ p <= T - z - (n + 35) * 4
      BY <1>7, <2>2, <2>3, <3>2, <3>3
    <3>5. p + (n + 3 + 32) * 4 <= a /\ a + (l + 1) <= T
      BY <3>4
    <3> QED BY <3>2, <3>3, <3>5
  <2>5. ASSUME NEW j \in 1..i-1
        PROVE  at[j] + (args[j].len + 1) <= at[i]
    <3>1. j \in 1..L /\ j + 1 \in 1..L+1 /\ j + 1 <= i
      BY <1>2
    <3>2. b[j + 1] = b[j] + (args[j].len + 1) /\ b[j + 1] <= b[i] /\ at[j] = TOP - size + b[j]
      BY <1>3, <1>6, <2>1, <3>1
    <3>3. args[j].len \in Nat /\ b[j] \in Nat
      BY <1>2, <1>3, <3>1
    <3>4. PICK T \in Int, z \in Nat, x \in Nat, y \in Nat, l \in Nat, e \in Nat :
            /\ T = TOP /\ z = size /\ x = b[j] /\ y = b[i]
            /\ l = args[j].len /\ e = b[j + 1]
      <4>1. b[j + 1] \in Nat
        BY <1>3, <3>1
      <4> QED BY <1>4, <1>5, <2>2, <3>3, <4>1
    <3>5. e = x + (l + 1) /\ e <= y /\ at[j] = T - z + x /\ at[i] = T - z + y
      BY <2>3, <3>2, <3>4
    <3>6. (T - z + x) + (l + 1) <= T - z + y
      BY <3>5
    <3> QED BY <3>4, <3>5, <3>6
  <2> QED BY <2>4, <2>5
<1>12. \A i \in L+2..L+3 : words[i] = NULL
  BY <1>2, <1>9
<1>13. WellFormed(s)
  <2>1. s.sp = sp /\ s.pages = pages /\ s.image = image /\ s.words = words /\ s.texts = texts
    OBVIOUS
  <2> HIDE DEF s
  <2>2. \A i \in 1..L : /\ sp + (Len(words) + 32) * 4 <= texts[i].at
                        /\ texts[i].at + texts[i].len <= TOP
                        /\ \A j \in 1..i-1 : texts[j].at + texts[j].len <= texts[i].at
    <3>1. \A i \in 1..L : \A j \in 1..i-1 : j \in 1..L
      BY <1>2
    <3> QED BY <1>8, <1>9, <1>11, <3>1
  <2> QED BY <1>7, <1>8, <1>9, <1>10, <1>12, <2>1, <2>2 DEF WellFormed, POST_ARGV_NULL_SPACE, WORD, TOP
<1> QED BY <1>1, <1>13

(* The arguments of init and those that Exec finds are arguments. *)
LEMMA VectorsAre == \A args \in Vectors : IsArguments(args)
BY SyscallsAssumption DEF Vectors, IsArguments

(* Exec's registers end with a zero, and what they point to has a length. *)
LEMMA HandedAre ==
  ASSUME Registered, mode = "trap", code = YALNIX.EXEC, regs[1] # NULL,
         NEW bytes \in PointerBytes(asked.vector)
  PROVE  IsArguments(Handed(bytes))
<1>1. asked.name \in Strings /\ \E a \in {NULL, NamePtr}, b \in {NULL, VectorPtr} : regs = <<a, b, 0, 0>>
  <2>1. \A w \in DOMAIN Wrappers : Wrappers[w][1] # YALNIX.EXEC
    BY WrappersReach, FunctionDomain DEF Reaches, YALNIX, Numbers
  <2> QED BY <2>1 DEF Registered
<1> DEFINE Ends(i) == regs[i] = NULL /\ \A j \in 1..i-1 : regs[j] # NULL
           n == CHOOSE i \in 1..4 : Ends(i)
<1>2. \E i \in 1..4 : Ends(i)
  BY <1>1 DEF NULL
<1>3. n \in 1..4
  BY <1>2
<1>4. Handed(bytes) = [i \in 1..n-1 |-> IF regs[i] = NamePtr THEN asked.name ELSE bytes]
  BY DEF Handed
<1>5. asked.name.len \in Nat /\ bytes.len \in Nat
  BY <1>1, SyscallsAssumption DEF PointerBytes
<1> HIDE DEF n
<1> QED BY <1>3, <1>4, <1>5 DEF IsArguments

(* A program that is loaded has a well-formed stack. *)
LEMMA LoadedWellFormed ==
  ASSUME NEW args, IsArguments(args), Loads(args)
  PROVE  StackWellFormed'
<1>1. PICK image \in Images :
        /\ Fits(StackPages(VectorAddr(Size(args), Len(args))), image)
        /\ stack' = Built(args, image)
  BY DEF Loads
<1>2. WellFormed(Built(args, image))
  BY <1>1, BuiltWellFormed
<1> QED BY <1>1, <1>2 DEF StackWellFormed

(* The stack is well formed after every step. *)
LEMMA StackStep ==
  Registered /\ StackWellFormed /\ [Next]_vars => StackWellFormed'
<1> SUFFICES ASSUME Registered, StackWellFormed, [Next]_vars
             PROVE  StackWellFormed'
  OBVIOUS
<1>1. stack' = stack => StackWellFormed'
  BY DEF StackWellFormed
<1>2. CASE KernelStart
  BY <1>1, <1>2, VectorsAre, LoadedWellFormed DEF KernelStart
<1>3. ASSUME NEW w \in DOMAIN Wrappers, NEW args \in [1..Declared(w) -> Values], Calls(w, args)
      PROVE  StackWellFormed'
  BY <1>1, <1>3 DEF Calls, YSYSCALL
<1>4. ASSUME NEW name \in Strings, NEW vector \in Vectors, Exec(name, vector)
      PROVE  StackWellFormed'
  BY <1>1, <1>4 DEF Exec, YSYSCALL
<1>5. CASE trap_function \/ trap_default \/ trap_exit
  BY <1>1, <1>5 DEF trap_function, trap_default, trap_exit, Returns
<1>6. CASE trap_exec
  <2>1. CASE regs[1] # NULL /\ \E bytes \in PointerBytes(asked.vector) : Loads(Handed(bytes))
    BY <1>6, <2>1, HandedAre, LoadedWellFormed DEF trap_exec
  <2>2. CASE stack' = NoStack
    BY <2>2 DEF StackWellFormed
  <2> QED BY <1>1, <1>6, <2>1, <2>2 DEF trap_exec
<1>7. CASE Return \/ UNCHANGED vars
  BY <1>1, <1>7 DEF Return, vars
<1> QED BY <1>2, <1>3, <1>4, <1>5, <1>6, <1>7 DEF Next, trap_kernel_handler

(* Every program starts on a stack that holds its arguments, whatever      *)
(* their number and lengths, the size of a page and of the region: the     *)
(* check for space that LoadProgram makes is enough.                       *)
THEOREM StacksWellFormed == Spec => []StackWellFormed
<1>1. Init => Registered /\ CallsAnswered /\ StackWellFormed
  BY DEF Init, Registered, CallsAnswered, StackWellFormed
<1> QED BY <1>1, CallsStep, StackStep, PTL DEF Spec
=============================================================================
