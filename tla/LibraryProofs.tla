--------------------------- MODULE LibraryProofs ---------------------------
(***************************************************************************)
(* Proofs about the character and string library: the classes of the table *)
(* agree, the string functions give what their loop-free descriptions say, *)
(* strtok takes every token, and vsscanf keeps its contract, for every     *)
(* memory, text and format.                                                *)
(***************************************************************************)
EXTENDS Library, QueueTheorems, FiniteSetTheorems, TLAPS

(***************************************************************************)
(* Minima, and recursive functions: two that satisfy the same recursion    *)
(* are the same.                                                           *)
(***************************************************************************)
LEMMA MinIs ==
  ASSUME NEW S \in SUBSET Int, NEW x \in S, \A y \in S : x <= y
  PROVE  Min(S) = x
<1>1. \A z \in S : (\A y \in S : z <= y) => z = x
  OBVIOUS
<1> QED BY <1>1 DEF Min

LEMMA MaxIs ==
  ASSUME NEW S \in SUBSET Int, NEW x \in S, \A y \in S : x >= y
  PROVE  Max(S) = x
<1>1. \A z \in S : (\A y \in S : z >= y) => z = x
  OBVIOUS
<1> QED BY <1>1 DEF Max

(* What is true at 0, and at every number if it is true before it. *)
LEMMA Upwards ==
  ASSUME NEW k \in Nat, NEW T, 0 \in T, \A i \in 1..k : i - 1 \in T => i \in T
  PROVE  0..k \subseteq T
<1> DEFINE Bad == {i \in 0..k : i \notin T}
<1> SUFFICES ASSUME Bad # {} PROVE FALSE
  OBVIOUS
<1>1. PICK x \in Bad : \A y \in Bad : x <= y
  <2> HIDE DEF Bad
  <2>1. Bad \subseteq Nat
    BY DEF Bad
  <2> QED BY <2>1, LeastNatural
<1>2. x # 0 /\ x - 1 \in 0..k
  BY <1>1
<1>3. x - 1 \in T
  BY <1>1, <1>2
<1> QED BY <1>1, <1>2, <1>3

(* The same downwards, from k. *)
LEMMA Downwards ==
  ASSUME NEW k \in Nat, NEW T,
         \A i \in 0..k : (\A j \in i+1..k : j \in T) => i \in T
  PROVE  0..k \subseteq T
<1> DEFINE Bad == {b \in 0..k : k - b \notin T}
<1> SUFFICES ASSUME NEW i \in 0..k, i \notin T PROVE FALSE
  OBVIOUS
<1>1. k - i \in Bad /\ Bad \subseteq Nat
  BY k - (k - i) = i
<1>2. PICK b \in Bad : \A l \in Bad : b <= l
  <2> HIDE DEF Bad
  <2> QED BY <1>1, LeastNatural
<1>3. ASSUME NEW j \in (k - b)+1..k PROVE j \in T
  <2>1. k - j \in 0..k /\ k - (k - j) = j /\ k - j < b
    OBVIOUS
  <2> QED BY <1>2, <2>1
<1> QED BY <1>2, <1>3

(***************************************************************************)
(* The classes.                                                            *)
(***************************************************************************)
CTypeCalled ==
  call.fn = "ctype" => call.c \in Byte /\ ret = [lower |-> tolower(call.c), upper |-> toupper(call.c)]

(* Every class of a byte, by the runs of the table.  *)
LEMMA ClassesOfByte ==
  ASSUME NEW c \in Byte
  PROVE  /\ isupper(c) <=> c \in 65..90 \/ (c \in 192..222 /\ c # 215)
         /\ islower(c) <=> c \in 97..122 \/ (c \in 223..255 /\ c # 247)
         /\ isspace(c) <=> c \in 8..13 \/ c = 32 \/ c = 160
         /\ iscntrl(c) <=> c \in 0..31 \/ c = 127 \/ c \in 128..159
         /\ isprint(c) <=> c \in 32..126 \/ c \in 160..255
         /\ isxdigit(c) <=> c \in 48..57 \/ c \in 65..70 \/ c \in 97..102
         /\ "digit" \in __ctypes(c) <=> c \in 48..57
         /\ ispunct(c) <=> \/ c \in 33..47 \/ c \in 58..64 \/ c \in 91..96 \/ c \in 123..126
                           \/ c \in 161..191 \/ c = 215 \/ c = 247
<1> USE DEF Byte, __ctypes, EOF, isupper, islower, isspace, iscntrl, isprint, isxdigit, ispunct
<1>1. CASE c \in 0..127
  BY <1>1 DEF AsciiClasses
<1>2. CASE c \in 128..255
  BY <1>2 DEF Latin1Classes
<1> QED BY <1>1, <1>2

LEMMA Ctype ==
  ASSUME CTypeCalled PROVE ClassesAgree
<1> SUFFICES ASSUME call.fn = "ctype" PROVE ClassesAgree
  BY DEF ClassesAgree
<1> DEFINE c == call.c
<1>1. c \in Byte /\ ret.lower = tolower(c) /\ ret.upper = toupper(c)
  BY DEF CTypeCalled
<1> HIDE DEF c
<1>2. /\ isalpha(c) <=> isupper(c) \/ islower(c)
      /\ isalnum(c) <=> isupper(c) \/ islower(c) \/ "digit" \in __ctypes(c)
      /\ isgraph(c) <=> isupper(c) \/ islower(c) \/ "digit" \in __ctypes(c) \/ ispunct(c)
  BY DEF isalpha, isalnum, isgraph, isupper, islower, ispunct
<1>3. c \in 0..255
  BY <1>1 DEF Byte
<1>4. /\ iscntrl(c) # isprint(c)
      /\ isgraph(c) <=> isprint(c) /\ ~isspace(c)
      /\ isblank(c) => isspace(c)
  <2>1. iscntrl(c) # isprint(c)
    BY <1>1, <1>3, ClassesOfByte
  <2>2. isgraph(c) <=> isprint(c) /\ ~isspace(c)
    BY <1>1, <1>2, <1>3, ClassesOfByte
  <2>3. isblank(c) => isspace(c)
    BY <1>1, <1>3, ClassesOfByte DEF isblank
  <2> QED BY <2>1, <2>2, <2>3
<1>8. /\ isgraph(c) <=> ispunct(c) # isalnum(c)
      /\ isalnum(c) <=> isalpha(c) # isdigit(c)
      /\ isdigit(c) <=> "digit" \in __ctypes(c)
  <2>1. isdigit(c) <=> "digit" \in __ctypes(c)
    BY <1>1, <1>3, ClassesOfByte DEF isdigit
  <2>2. "digit" \in __ctypes(c) => ~isupper(c) /\ ~islower(c) /\ ~ispunct(c)
    BY <1>1, <1>3, ClassesOfByte
  <2>3. isupper(c) \/ islower(c) => ~ispunct(c)
    BY <1>1, <1>3, ClassesOfByte
  <2>4. isalnum(c) <=> isalpha(c) # isdigit(c)
    <3>1. CASE isdigit(c)
      BY <1>2, <2>1, <2>2, <3>1 DEF isdigit, isalpha
    <3>2. CASE ~isdigit(c)
      BY <1>2, <2>1, <3>2 DEF isdigit, isalpha
    <3> QED BY <3>1, <3>2
  <2>5. isgraph(c) <=> ispunct(c) # isalnum(c)
    <3>1. CASE ispunct(c)
      BY <1>2, <2>2, <2>3, <3>1 DEF ispunct, isalnum
    <3>2. CASE ~ispunct(c)
      BY <1>2, <3>2 DEF ispunct, isalnum
    <3> QED BY <3>1, <3>2
  <2> QED BY <2>1, <2>4, <2>5
<1>5. isascii(c) /\ isprint(c) => (isxdigit(c) <=> digitval(c) \in 0..15)
  <2>1. /\ isxdigit(c) <=> c \in 48..57 \/ c \in 65..70 \/ c \in 97..102
        /\ isprint(c) => c \notin 0..31 /\ c # 127
    BY <1>1, ClassesOfByte DEF Byte
  <2>2. c \in 48..57 \/ c \in 65..70 \/ c \in 97..102 <=> digitval(c) \in 0..15
    BY <1>3 DEF digitval
  <2> QED BY <2>1, <2>2
<1>6. c \notin {223, 255} => (isupper(c) => tolower(ret.lower) = ret.lower /\ toupper(ret.lower) = c)
  <2> SUFFICES ASSUME isupper(c) PROVE tolower(ret.lower) = ret.lower /\ toupper(ret.lower) = c
    OBVIOUS
  <2>1. c \in 65..90 \/ (c \in 192..222 /\ c # 215)
    BY <1>1, ClassesOfByte
  <2>2. ret.lower = c + 32
    BY <1>1, <2>1 DEF tolower, SetCase
  <2>3. c + 32 \in Byte /\ (c + 32 \in 97..122 \/ (c + 32 \in 224..254 /\ c + 32 # 247))
    BY <2>1 DEF Byte
  <2>4. islower(c + 32) /\ ~isupper(c + 32)
    BY <2>3, ClassesOfByte
  <2>5. ClearCase(c + 32) = c
    BY <2>1 DEF ClearCase
  <2> QED BY <2>2, <2>4, <2>5 DEF tolower, toupper
<1>7. c \notin {223, 255} => (islower(c) => isupper(ret.upper) /\ tolower(ret.upper) = c)
  <2> SUFFICES ASSUME c \notin {223, 255}, islower(c) PROVE isupper(ret.upper) /\ tolower(ret.upper) = c
    OBVIOUS
  <2>1. c \in 97..122 \/ (c \in 224..254 /\ c # 247)
    BY <1>1, ClassesOfByte, SMTT(30) DEF Byte
  <2>2. ret.upper = c - 32
    BY <1>1, <2>1 DEF toupper, ClearCase
  <2>3. c - 32 \in Byte /\ (c - 32 \in 65..90 \/ (c - 32 \in 192..222 /\ c - 32 # 215))
    BY <2>1 DEF Byte
  <2>4. isupper(c - 32)
    BY <2>3, ClassesOfByte
  <2>5. SetCase(c - 32) = c
    BY <2>1 DEF SetCase
  <2> QED BY <2>2, <2>4, <2>5 DEF tolower
<1> QED BY <1>1, <1>4, <1>5, <1>6, <1>7, <1>8 DEF ClassesAgree, c

(***************************************************************************)
(* The steps of a program, by what they do to the memory and the call.     *)
(***************************************************************************)
Formatting ==
  UNCHANGED string_vars /\ (job' = job \/ job'.kind \in {"print", "scan", "read back"})

LEMMA StepOfProgram ==
  ASSUME [Next]_vars
  PROVE  Formatting \/ Fills \/ CallsString \/ CallsStringToNul \/ CallsCtype \/ CallsStrtok
<1>1. ASSUME NEW j, CallsPrintf(j) PROVE Formatting
  <2>1. UNCHANGED string_vars
    BY <1>1, Zenon DEF CallsPrintf
  <2>2. job' = [kind |-> "print", directives |-> j.directives, back |-> j.back]
    BY <1>1, Zenon DEF CallsPrintf
  <2> QED BY <2>1, <2>2 DEF Formatting
<1>2. ASSUME NEW j, CallsScanf(j) PROVE Formatting
  <2>1. UNCHANGED string_vars
    BY <1>2, Zenon DEF CallsScanf
  <2>2. job' = [kind |-> "scan"]
    BY <1>2, Zenon DEF CallsScanf
  <2> QED BY <2>1, <2>2 DEF Formatting
<1>6. UNCHANGED vars => Formatting
  BY DEF Formatting, vars, string_vars, print_only, scan_only, match, loop, directive
<1>7. ASSUME ReadsAgain PROVE Formatting
  <2>1. UNCHANGED string_vars
    BY <1>7, Zenon DEF ReadsAgain
  <2>2. job' = [kind |-> "read back", directives |-> job.directives]
    BY <1>7, Zenon DEF ReadsAgain
  <2> QED BY <2>1, <2>2 DEF Formatting
<1>3. UNCHANGED <<string_vars, job>> => Formatting
  BY DEF Formatting
<1>4. print_step /\ UNCHANGED <<scan_only, string_vars, job>> => Formatting
  BY <1>3
<1>5. scan_step /\ UNCHANGED <<print_only, string_vars, job>> => Formatting
  BY <1>3
<1> QED BY <1>1, <1>2, <1>4, <1>5, <1>6, <1>7 DEF Next

MemoryFns == {"memset", "memmove", "memcpy", "memswap", "memccpy"}
CopyFns   == {"strcpy", "strcat", "strncpy", "strncat"}
SearchFns == {"memchr", "memrchr", "memcmp", "memmem", "strchr", "strlen", "strnlen", "strcmp",
              "strncmp", "strpbrk"}

(* The calls of a string function, with the arguments they may have.       *)
LEMMA StringCall ==
  ASSUME CallsString \/ CallsStringToNul, 0 \in Length
  PROVE  /\ job.kind = "memory" /\ call.fn = "none" /\ job' = job
         /\ \/ \E fn \in MemoryFns, dst \in Address, src \in Address \cup {0}, c \in Chars \cup {0}, k \in Length :
                 (fn # "memset" => src \in Address) /\ call_memory(fn, dst, src, c, k)
            \/ \E fn \in CopyFns, dst \in Address, src \in Address, k \in Length : call_string_copy(fn, dst, src, k)
            \/ \E fn \in SearchFns, s \in Address, t \in Address \cup {0}, c \in Chars \cup Length \cup {0}, 
                  k \in Chars \cup Length \cup {0} :
                 /\ fn \in {"memcmp", "memmem", "strcmp", "strncmp"} => t \in Address
                 /\ fn \in {"memchr", "memrchr", "memcmp", "memmem", "strnlen", "strncmp"} => k \in Length
                 /\ fn \in {"memmem"} => c \in Length
                 /\ call_search(fn, s, t, c, k)
<1>1. CASE CallsString
  <2>1. PICK a \in Address, k \in Length :
       \/ \E c \in Chars : \/ call_memory("memset", a, 0, c, k)
                           \/ \E fn \in {"memchr", "memrchr"} : call_search(fn, a, 0, c, k)
       \/ call_search("strnlen", a, 0, 0, k)
       \/ \E b \in Address :
            \/ \E fn \in {"memmove", "memcpy", "memswap"} : call_memory(fn, a, b, 0, k)
            \/ \E c \in Chars : call_memory("memccpy", a, b, c, k)
            \/ \E fn \in {"strncpy", "strncat"} : call_string_copy(fn, a, b, k)
            \/ \E fn \in {"memcmp", "strncmp"} : call_search(fn, a, b, 0, k)
            \/ \E l \in Length : call_search("memmem", a, b, l, k)
    BY <1>1 DEF CallsString
  <2>2. job.kind = "memory" /\ call.fn = "none" /\ job' = job
    BY <1>1 DEF CallsString
  <2> QED BY <2>1, <2>2, Zenon DEF MemoryFns, CopyFns, SearchFns
<1>2. CASE CallsStringToNul
  <2>1. PICK a \in Address :
       \/ call_search("strlen", a, 0, 0, 0)
       \/ \E c \in Chars : \/ call_search("strchr", a, 0, c, 0)
                           \/ \E d \in Chars : call_search("strpbrk", a, 0, c, d)
       \/ \E b \in Address : \/ \E fn \in {"strcpy", "strcat"} : call_string_copy(fn, a, b, 0)
                             \/ call_search("strcmp", a, b, 0, 0)
    BY <1>2 DEF CallsStringToNul
  <2>2. job.kind = "memory" /\ call.fn = "none" /\ job' = job
    BY <1>2 DEF CallsStringToNul
  <2> QED BY <2>1, <2>2, Zenon DEF MemoryFns, CopyFns, SearchFns
<1> QED BY <1>1, <1>2

CallInv ==
  /\ job.kind = "none" => call.fn = "none"
  /\ job.kind = "memory" /\ call.fn = "none" => mem = before /\ IsMemory(mem)
  /\ CTypeCalled

LEMMA MemoryIs ==
  ASSUME NEW m, IsMemory(m)
  PROVE  \E L \in Nat : /\ m \in [0..L -> Byte] /\ m[L] = 0 /\ DOMAIN m = 0..L
                        /\ Cardinality(DOMAIN m) = L + 1 /\ \A s : Left(m, s) = (L + 1) - s
<1> DEFINE L == Cardinality(DOMAIN m) - 1
<1>1. L \in Nat /\ m \in [0..L -> Byte] /\ m[L] = 0
  BY DEF IsMemory
<1> HIDE DEF L
<1>2. DOMAIN m = 0..L
  BY <1>1
<1>3. Cardinality(0..L) = L + 1
  BY <1>1, FS_Interval
<1> QED BY <1>1, <1>2, <1>3 DEF Left

(* The call is recorded with its arguments; for strtok see further down.   *)
LEMMA CallRecorded ==
  ASSUME CallsString \/ CallsStringToNul, 0 \in Length
  PROVE  call'.fn \in MemoryFns \cup CopyFns \cup SearchFns
<1>1. ASSUME NEW fn \in MemoryFns, NEW dst, NEW src, NEW c, NEW k, call_memory(fn, dst, src, c, k)
      PROVE  call'.fn = fn
  <2>1. call' = [fn |-> fn, dst |-> dst, src |-> src, c |-> c, k |-> k]
    BY <1>1, Zenon DEF call_memory, Called
  <2> QED BY <2>1
<1>2. ASSUME NEW fn \in CopyFns, NEW dst, NEW src, NEW k, call_string_copy(fn, dst, src, k)
      PROVE  call'.fn = fn
  <2>1. call' = [fn |-> fn, dst |-> dst, src |-> src, k |-> k]
    BY <1>2, Zenon DEF call_string_copy, Called
  <2> QED BY <2>1
<1>3. ASSUME NEW fn \in SearchFns, NEW s, NEW t, NEW c, NEW k, call_search(fn, s, t, c, k)
      PROVE  call'.fn = fn
  <2>1. call' = [fn |-> fn, s |-> s, t |-> t, c |-> c, k |-> k]
    BY <1>3, Zenon DEF call_search, Called
  <2> QED BY <2>1
<1> QED BY <1>1, <1>2, <1>3, StringCall, Zenon

LEMMA ZeroLength ==
  ASSUME IsMemory(mem) PROVE 0 \in Length
BY MemoryIs DEF Length, Address

LEMMA CallInvHolds == Spec => []CallInv
<1>1. Init => CallInv
  BY DEF Init, CallInv, CTypeCalled, NoJob
<1>2. CallInv /\ [Next]_vars => CallInv'
  <2> SUFFICES ASSUME CallInv, [Next]_vars PROVE CallInv'
    OBVIOUS
  <2>1. CASE Formatting
    BY <2>1 DEF Formatting, CallInv, CTypeCalled, string_vars, IsMemory
  <2>2. CASE Fills
    BY <2>2, LibraryAssumption DEF Fills, CallInv, CTypeCalled, NoJob, IsMemory
  <2>3. CASE CallsString \/ CallsStringToNul
    <3>1. job.kind = "memory" /\ call.fn = "none"
      BY <2>3 DEF CallsString, CallsStringToNul
    <3>2. 0 \in Length
      BY <3>1, ZeroLength DEF CallInv
    <3>3. call'.fn \notin {"none", "ctype"}
      BY <2>3, <3>2, CallRecorded DEF MemoryFns, CopyFns, SearchFns
    <3>4. job' = job
      BY <2>3 DEF CallsString, CallsStringToNul
    <3> QED BY <3>1, <3>3, <3>4 DEF CallInv, CTypeCalled
  <2>4. CASE CallsCtype
    BY <2>4 DEF CallsCtype, call_ctype, Called, CallInv, CTypeCalled
  <2>5. CASE CallsStrtok
    <3>1. call'.fn = "strtok" /\ job'.kind = "strtok"
      BY <2>5 DEF CallsStrtok, strtok
    <3> QED BY <3>1 DEF CallInv, CTypeCalled
  <2> QED BY <2>1, <2>2, <2>3, <2>4, <2>5, StepOfProgram
<1> QED BY <1>1, <1>2, PTL DEF Spec

(* For every byte, the table's classes and the two case mappings agree     *)
(* with one another.                                                       *)
THEOREM ClassesAreConsistent == Spec => []ClassesAgree
<1>1. CallInv => ClassesAgree
  BY Ctype DEF CallInv
<1> QED BY <1>1, CallInvHolds, PTL

(***************************************************************************)
(* Loops.  Each recursive function is what its loop gives from any point   *)
(* on, described without recursion; Upwards and Downwards carry the        *)
(* description from one step of the recursion to all of them.              *)
(***************************************************************************)
Loop(f, stop, k) == f = [i \in 0..k |-> IF i = k \/ i \in stop THEN i ELSE f[i + 1]]

LEMMA StepsIs ==
  ASSUME NEW stop, NEW k \in Nat
  PROVE  LET i == Steps(stop, k) IN i \in 0..k /\ (i = k \/ i \in stop) /\ \A j \in 0..i-1 : j \notin stop
<1> DEFINE Ends(i, x) == x \in i..k /\ (x = k \/ x \in stop) /\ \A j \in i..x-1 : j \notin stop
           g == [i \in 0..k |-> CHOOSE x : Ends(i, x)]
<1>1. ASSUME NEW i \in 0..k PROVE \E x : Ends(i, x)
  <2> DEFINE S == {x \in i..k : x = k \/ x \in stop}
  <2>1. k \in S /\ S \subseteq Nat
    OBVIOUS
  <2>2. PICK x \in S : \A y \in S : x <= y
    <3> HIDE DEF S
    <3> QED BY <2>1, LeastNatural
  <2> QED BY <2>2
<1>2. ASSUME NEW i \in 0..k PROVE Ends(i, g[i])
  BY <1>1
<1>3. ASSUME NEW i \in 0..k, NEW x, NEW y, Ends(i, x), Ends(i, y) PROVE x = y
  BY <1>3
<1>4. ASSUME NEW i \in 0..k, ~(i = k \/ i \in stop) PROVE g[i] = g[i + 1]
  <2>1. i + 1 \in 0..k
    BY <1>4
  <2>2. Ends(i, g[i + 1])
    BY <1>4, <2>1, <1>2, SMTT(30)
  <2> HIDE DEF Ends
  <2> QED BY <2>2, <1>2, <1>3
<1>5. ASSUME NEW i \in 0..k, i = k \/ i \in stop PROVE g[i] = i
  <2>1. Ends(i, i)
    BY <1>5
  <2> HIDE DEF Ends
  <2> QED BY <2>1, <1>2, <1>3
<1>6. Loop(g, stop, k)
  <2>1. g = [i \in 0..k |-> g[i]]
    OBVIOUS
  <2> HIDE DEF Ends, g
  <2>2. \A i \in 0..k : g[i] = IF i = k \/ i \in stop THEN i ELSE g[i + 1]
    BY <1>4, <1>5
  <2> QED BY <2>1, <2>2 DEF Loop
<1> DEFINE h == CHOOSE f : Loop(f, stop, k)
<1>7. Loop(h, stop, k)
  BY <1>6
<1>8. Steps(stop, k) = h[0]
  BY DEF Steps, Loop
<1> HIDE DEF h, Ends, g
<1> DEFINE T == {i \in 0..k : h[i] = g[i]}
<1>9. ASSUME NEW i \in 0..k, \A j \in i+1..k : j \in T PROVE i \in T
  <2>1. h[i] = IF i = k \/ i \in stop THEN i ELSE h[i + 1]
    BY <1>7 DEF Loop
  <2>2. ~(i = k \/ i \in stop) => i + 1 \in T
    BY <1>9
  <2> QED BY <2>1, <2>2, <1>4, <1>5
<1>10. 0 \in T
  <2> HIDE DEF T
  <2>1. 0..k \subseteq T
    BY <1>9, Downwards
  <2> QED BY <2>1
<1>11. Ends(0, Steps(stop, k))
  BY <1>2, <1>8, <1>10
<1> QED BY <1>11 DEF Ends

(* The memory with k bytes of it, from src on, also at dst. *)
Copied(m, dst, src, k) == [a \in DOMAIN m |-> IF dst <= a /\ a < dst + k THEN m[a - dst + src] ELSE m[a]]

UpStep(x, i, dst, src) == [x EXCEPT ![dst + i - 1] = x[src + i - 1]]
UpFrom(f, m, dst, src, k) == f = [i \in 0..k |-> IF i = 0 THEN m ELSE UpStep(f[i - 1], i, dst, src)]

(* Upwards, unless a byte is written before it is read. *)
LEMMA MovesUpIs ==
  ASSUME NEW L \in Nat, NEW m, m \in [0..L -> Byte], NEW dst \in Nat, NEW src \in Nat, NEW k \in Nat,
         dst + k <= L + 1, src + k <= L + 1, dst <= src \/ src + k <= dst
  PROVE  MovesUp(m, dst, src, k) = Copied(m, dst, src, k)
<1> DEFINE g == [i \in 0..k |-> Copied(m, dst, src, i)]
<1>1. g[0] = m
  BY DEF Copied
<1>2. ASSUME NEW i \in 1..k PROVE g[i] = UpStep(g[i - 1], i, dst, src)
  <2>1. i - 1 \in 0..k /\ i \in 0..k
    OBVIOUS
  <2>2. g[i] = Copied(m, dst, src, i) /\ g[i - 1] = Copied(m, dst, src, i - 1)
    BY <2>1
  <2> HIDE DEF g
  <2>3. src + i - 1 \in 0..L /\ dst + i - 1 \in 0..L
    OBVIOUS
  <2>4. g[i - 1][src + i - 1] = m[src + i - 1]
    BY <2>2, <2>3 DEF Copied
  <2>5. ASSUME NEW a \in 0..L
        PROVE  g[i][a] = IF a = dst + i - 1 THEN m[src + i - 1] ELSE g[i - 1][a]
    <3>1. CASE a = dst + i - 1
      BY <2>2, <3>1, SMTT(30) DEF Copied
    <3>2. CASE a # dst + i - 1
      <4>1. dst <= a /\ a < dst + i <=> dst <= a /\ a < dst + (i - 1)
        BY <3>2
      <4> QED BY <2>2, <3>2, <4>1 DEF Copied
    <3> QED BY <3>1, <3>2
  <2>6. DOMAIN g[i] = 0..L /\ DOMAIN g[i - 1] = 0..L /\ g[i] = [a \in 0..L |-> g[i][a]]
    BY <2>2 DEF Copied
  <2> QED BY <2>3, <2>4, <2>5, <2>6 DEF UpStep
<1>3. UpFrom(g, m, dst, src, k)
  <2>1. g = [i \in 0..k |-> g[i]]
    OBVIOUS
  <2> HIDE DEF g
  <2>2. \A i \in 0..k : g[i] = IF i = 0 THEN m ELSE UpStep(g[i - 1], i, dst, src)
    BY <1>1, <1>2
  <2> QED BY <2>1, <2>2 DEF UpFrom
<1> DEFINE h == CHOOSE f : UpFrom(f, m, dst, src, k)
<1>4. UpFrom(h, m, dst, src, k)
  BY <1>3
<1>5. MovesUp(m, dst, src, k) = h[k]
  BY DEF MovesUp, UpFrom, UpStep
<1>6. g[k] = Copied(m, dst, src, k)
  OBVIOUS
<1> HIDE DEF h, g
<1> DEFINE T == {i \in 0..k : h[i] = g[i]}
<1>7. 0 \in T
  BY <1>1, <1>4 DEF UpFrom
<1>8. ASSUME NEW i \in 1..k, i - 1 \in T PROVE i \in T
  BY <1>8, <1>2, <1>4 DEF UpFrom
<1>9. k \in T
  <2> HIDE DEF T
  <2>1. 0..k \subseteq T
    BY <1>7, <1>8, Upwards
  <2> QED BY <2>1
<1> QED BY <1>5, <1>6, <1>9

DownStep(x, i, dst, src, k) == [x EXCEPT ![dst + k - i] = x[src + k - i]]
DownFrom(f, m, dst, src, k) == f = [i \in 0..k |-> IF i = 0 THEN m ELSE DownStep(f[i - 1], i, dst, src, k)]

(* Downwards, for the areas where upwards is not right. *)
LEMMA MovesDownIs ==
  ASSUME NEW L \in Nat, NEW m, m \in [0..L -> Byte], NEW dst \in Nat, NEW src \in Nat, NEW k \in Nat,
         dst + k <= L + 1, src + k <= L + 1, src <= dst
  PROVE  MovesDown(m, dst, src, k) = Copied(m, dst, src, k)
<1> DEFINE LastAt(i) == [a \in 0..L |-> IF dst + k - i <= a /\ a < dst + k THEN m[a - dst + src] ELSE m[a]]
           g == [i \in 0..k |-> LastAt(i)]
<1>1. g[0] = m
  <2>1. LastAt(0) = [a \in 0..L |-> m[a]]
    OBVIOUS
  <2> QED BY <2>1
<1>2. ASSUME NEW i \in 1..k PROVE g[i] = DownStep(g[i - 1], i, dst, src, k)
  <2>1. i - 1 \in 0..k /\ i \in 0..k
    OBVIOUS
  <2>2. g[i] = LastAt(i) /\ g[i - 1] = LastAt(i - 1)
    BY <2>1
  <2> HIDE DEF g
  <2>3. src + k - i \in 0..L /\ dst + k - i \in 0..L
    OBVIOUS
  <2>4. g[i - 1][src + k - i] = m[src + k - i]
    BY <2>2, <2>3
  <2>5. ASSUME NEW a \in 0..L
        PROVE  g[i][a] = IF a = dst + k - i THEN m[src + k - i] ELSE g[i - 1][a]
    <3>1. CASE a = dst + k - i
      BY <2>2, <3>1
    <3>2. CASE a # dst + k - i
      <4>1. dst + k - i <= a <=> dst + k - (i - 1) <= a
        BY <3>2
      <4> QED BY <2>2, <3>2, <4>1
    <3> QED BY <3>1, <3>2
  <2>6. DOMAIN g[i] = 0..L /\ DOMAIN g[i - 1] = 0..L /\ g[i] = [a \in 0..L |-> g[i][a]]
    BY <2>2
  <2> HIDE DEF LastAt
  <2> QED BY <2>3, <2>4, <2>5, <2>6 DEF DownStep
<1>3. DownFrom(g, m, dst, src, k)
  <2>1. g = [i \in 0..k |-> g[i]]
    OBVIOUS
  <2> HIDE DEF g
  <2>2. \A i \in 0..k : g[i] = IF i = 0 THEN m ELSE DownStep(g[i - 1], i, dst, src, k)
    BY <1>1, <1>2
  <2> QED BY <2>1, <2>2 DEF DownFrom
<1> DEFINE h == CHOOSE f : DownFrom(f, m, dst, src, k)
<1>4. DownFrom(h, m, dst, src, k)
  BY <1>3
<1>5. MovesDown(m, dst, src, k) = h[k]
  BY DEF MovesDown, DownFrom, DownStep
<1>6. g[k] = Copied(m, dst, src, k)
  <2>1. dst + k - k = dst
    OBVIOUS
  <2> QED BY <2>1 DEF Copied
<1> HIDE DEF h, g
<1> DEFINE T == {i \in 0..k : h[i] = g[i]}
<1>7. 0 \in T
  BY <1>1, <1>4 DEF DownFrom
<1>8. ASSUME NEW i \in 1..k, i - 1 \in T PROVE i \in T
  BY <1>8, <1>2, <1>4 DEF DownFrom
<1>9. k \in T
  <2> HIDE DEF T
  <2>1. 0..k \subseteq T
    BY <1>7, <1>8, Upwards
  <2> QED BY <2>1
<1> QED BY <1>5, <1>6, <1>9

Swapped(m, s, t, k) ==
  [a \in DOMAIN m |-> IF s <= a /\ a < s + k THEN m[a - s + t]
                      ELSE IF t <= a /\ a < t + k THEN m[a - t + s] ELSE m[a]]
SwapStep(x, i, s, t) == [x EXCEPT ![s + i - 1] = x[t + i - 1], ![t + i - 1] = x[s + i - 1]]
SwapFrom(f, m, s, t, k) == f = [i \in 0..k |-> IF i = 0 THEN m ELSE SwapStep(f[i - 1], i, s, t)]

LEMMA MemswapIs ==
  ASSUME NEW L \in Nat, NEW m, m \in [0..L -> Byte], NEW s \in Nat, NEW t \in Nat, NEW k \in Nat,
         s + k <= L + 1, t + k <= L + 1, s + k <= t \/ t + k <= s
  PROVE  memswap(m, s, t, k) = Swapped(m, s, t, k)
<1> DEFINE g == [i \in 0..k |-> Swapped(m, s, t, i)]
<1>1. g[0] = m
  BY DEF Swapped
<1>2. ASSUME NEW i \in 1..k PROVE g[i] = SwapStep(g[i - 1], i, s, t)
  <2>1. i - 1 \in 0..k /\ i \in 0..k
    OBVIOUS
  <2>2. g[i] = Swapped(m, s, t, i) /\ g[i - 1] = Swapped(m, s, t, i - 1)
    BY <2>1
  <2> HIDE DEF g
  <2>3. s + i - 1 \in 0..L /\ t + i - 1 \in 0..L /\ s + i - 1 # t + i - 1
    OBVIOUS
  <2>4. g[i - 1][s + i - 1] = m[s + i - 1] /\ g[i - 1][t + i - 1] = m[t + i - 1]
    BY <2>2, <2>3 DEF Swapped
  <2>5. ASSUME NEW a \in 0..L
        PROVE  g[i][a] = IF a = s + i - 1 THEN m[t + i - 1] ELSE IF a = t + i - 1 THEN m[s + i - 1]
                         ELSE g[i - 1][a]
    <3>1. CASE a = s + i - 1
      <4>1. s <= a /\ a < s + i /\ a - s + t = t + i - 1
        BY <3>1
      <4> QED BY <2>2, <3>1, <4>1 DEF Swapped
    <3>2. CASE a = t + i - 1
      <4>1. ~(s <= a /\ a < s + i) /\ t <= a /\ a < t + i /\ a - t + s = s + i - 1
        BY <3>2
      <4> QED BY <2>2, <2>3, <3>2, <4>1 DEF Swapped
    <3>3. CASE a # s + i - 1 /\ a # t + i - 1
      <4>1. /\ s <= a /\ a < s + i <=> s <= a /\ a < s + (i - 1)
            /\ t <= a /\ a < t + i <=> t <= a /\ a < t + (i - 1)
        BY <3>3
      <4> QED BY <2>2, <3>3, <4>1 DEF Swapped
    <3> QED BY <3>1, <3>2, <3>3
  <2>6. DOMAIN g[i] = 0..L /\ DOMAIN g[i - 1] = 0..L /\ g[i] = [a \in 0..L |-> g[i][a]]
    BY <2>2 DEF Swapped
  <2> QED BY <2>3, <2>4, <2>5, <2>6 DEF SwapStep
<1>3. SwapFrom(g, m, s, t, k)
  <2>1. g = [i \in 0..k |-> g[i]]
    OBVIOUS
  <2> HIDE DEF g
  <2>2. \A i \in 0..k : g[i] = IF i = 0 THEN m ELSE SwapStep(g[i - 1], i, s, t)
    BY <1>1, <1>2
  <2> QED BY <2>1, <2>2 DEF SwapFrom
<1> DEFINE h == CHOOSE f : SwapFrom(f, m, s, t, k)
<1>4. SwapFrom(h, m, s, t, k)
  BY <1>3
<1>5. memswap(m, s, t, k) = h[k]
  BY DEF memswap, SwapFrom, SwapStep
<1>6. g[k] = Swapped(m, s, t, k)
  OBVIOUS
<1> HIDE DEF h, g
<1> DEFINE T == {i \in 0..k : h[i] = g[i]}
<1>7. 0 \in T
  BY <1>1, <1>4 DEF SwapFrom
<1>8. ASSUME NEW i \in 1..k, i - 1 \in T PROVE i \in T
  BY <1>8, <1>2, <1>4 DEF SwapFrom
<1>9. k \in T
  <2> HIDE DEF T
  <2>1. 0..k \subseteq T
    BY <1>7, <1>8, Upwards
  <2> QED BY <2>1
<1> QED BY <1>5, <1>6, <1>9

(***************************************************************************)
(* Searches.                                                               *)
(***************************************************************************)
LEMMA StepsTo ==
  ASSUME NEW stop, NEW k \in Nat, NEW e \in 0..k, e = k \/ e \in stop, \A j \in 0..e-1 : j \notin stop
  PROVE  Steps(stop, k) = e
<1> DEFINE i == Steps(stop, k)
<1>1. i \in 0..k /\ (i = k \/ i \in stop) /\ \A j \in 0..i-1 : j \notin stop
  BY StepsIs
<1> HIDE DEF i
<1>2. ~(i < e)
  BY <1>1
<1>3. ~(e < i)
  BY <1>1
<1> QED BY <1>1, <1>2, <1>3 DEF i

LEMMA LeastIs ==
  ASSUME NEW S \in SUBSET Int, NEW x, (S = {} /\ x = NULL) \/ (x \in S /\ \A y \in S : x <= y)
  PROVE  Least(S) = x
BY MinIs DEF Least

(* A memory whose last address is L, and a string in it whose NUL is at z. *)
Holds(m, L) == m \in [0..L -> Byte] /\ m[L] = 0
EndsAt(m, L, s, z) == z \in s..L /\ m[z] = 0 /\ \A a \in s..z-1 : m[a] # 0

LEMMA StringEnds ==
  ASSUME NEW L \in Nat, NEW m, Holds(m, L), NEW s \in 0..L
  PROVE  \E z \in s..L : EndsAt(m, L, s, z)
<1> DEFINE S == {a \in s..L : m[a] = 0}
<1>1. L \in S /\ S \subseteq Nat
  BY DEF Holds
<1>2. PICK z \in S : \A y \in S : z <= y
  <2> HIDE DEF S
  <2> QED BY <1>1, LeastNatural
<1> QED BY <1>2 DEF EndsAt

LEMMA LeftIs ==
  ASSUME NEW L \in Nat, NEW m, Holds(m, L), NEW s \in 0..L
  PROVE  /\ Cardinality(DOMAIN m) = L + 1 /\ DOMAIN m = 0..L
         /\ Left(m, s) = (L + 1) - s /\ Left(m, s) \in Nat
<1>1. DOMAIN m = 0..L
  BY DEF Holds
<1>2. Cardinality(0..L) = L + 1
  BY FS_Interval
<1> QED BY <1>1, <1>2 DEF Left

LEMMA StrlenIs ==
  ASSUME NEW L \in Nat, NEW m, Holds(m, L), NEW s \in 0..L, NEW z, EndsAt(m, L, s, z)
  PROVE  strlen(m, s) = z - s
<1> DEFINE k == Left(m, s)
           stop == NulAt(m, s, k)
<1>1. k = (L + 1) - s /\ k \in Nat /\ DOMAIN m = 0..L
  BY LeftIs
<1>2. z - s \in 0..k /\ s + (z - s) = z
  BY <1>1 DEF EndsAt
<1>3. z - s \in stop
  BY <1>1, <1>2 DEF EndsAt, NulAt, Offsets
<1>4. ASSUME NEW j \in 0..(z-s)-1 PROVE j \notin stop
  <2>1. s + j \in s..z-1
    BY <1>2 DEF EndsAt
  <2> QED BY <2>1 DEF EndsAt, NulAt
<1> HIDE DEF stop, k
<1>5. Steps(stop, k) = z - s
  BY <1>1, <1>2, <1>3, <1>4, StepsTo
<1> QED BY <1>5 DEF strlen, stop, k

LEMMA StrnlenIs ==
  ASSUME NEW L \in Nat, NEW m, Holds(m, L), NEW s \in 0..L, NEW z, EndsAt(m, L, s, z), NEW k \in Nat
  PROVE  strnlen(m, s, k) = IF z - s < k THEN z - s ELSE k
<1> DEFINE stop == NulAt(m, s, k)
           e == IF z - s < k THEN z - s ELSE k
<1>1. DOMAIN m = 0..L
  BY LeftIs
<1>2. e \in 0..k /\ e <= z - s /\ s + (z - s) = z
  BY DEF EndsAt
<1>3. e = k \/ e \in stop
  BY <1>1, <1>2 DEF EndsAt, NulAt, Offsets
<1>4. ASSUME NEW j \in 0..e-1 PROVE j \notin stop
  <2>1. s + j \in s..z-1
    BY <1>2 DEF EndsAt
  <2> QED BY <2>1 DEF EndsAt, NulAt
<1> HIDE DEF stop
<1>5. Steps(stop, k) = e
  <2> HIDE DEF e
  <2> QED BY <1>2, <1>3, <1>4, StepsTo
<1> QED BY <1>5 DEF strnlen, stop

LEMMA MemchrIs ==
  ASSUME NEW m, NEW s \in Nat, NEW c, NEW k \in Nat
  PROVE  LET r == memchr(m, s, c, k) IN
         \/ r = NULL /\ \A a \in s..s+k-1 : m[a] # c
         \/ r \in s..s+k-1 /\ m[r] = c /\ \A a \in s..r-1 : m[a] # c
<1> DEFINE stop == {j \in 0..k-1 : m[s + j] = c}
           i == Steps(stop, k)
<1>1. i \in 0..k /\ (i = k \/ i \in stop) /\ \A j \in 0..i-1 : j \notin stop
  BY StepsIs
<1>2. memchr(m, s, c, k) = IF i = k THEN NULL ELSE s + i
  BY DEF memchr
<1> HIDE DEF i
<1>3. ASSUME NEW a \in s..s+i-1 PROVE m[a] # c
  <2>1. a - s \in 0..i-1 /\ a - s \in 0..k-1 /\ s + (a - s) = a
    BY <1>1
  <2> QED BY <1>1, <2>1
<1>4. CASE i = k
  BY <1>2, <1>3, <1>4
<1>5. CASE i # k
  <2>1. i \in 0..k-1 /\ m[s + i] = c
    BY <1>1, <1>5
  <2> QED BY <1>2, <1>3, <1>5, <2>1
<1> QED BY <1>4, <1>5

LEMMA MemrchrIs ==
  ASSUME NEW m, NEW s \in Nat, NEW c, NEW k \in Nat
  PROVE  LET r == memrchr(m, s, c, k) IN
         \/ r = NULL /\ \A a \in s..s+k-1 : m[a] # c
         \/ r \in s..s+k-1 /\ m[r] = c /\ \A a \in r+1..s+k-1 : m[a] # c
<1> DEFINE stop == {j \in 0..k-1 : m[s + k - 1 - j] = c}
           i == Steps(stop, k)
<1>1. i \in 0..k /\ (i = k \/ i \in stop) /\ \A j \in 0..i-1 : j \notin stop
  BY StepsIs
<1>2. memrchr(m, s, c, k) = IF i = k THEN NULL ELSE s + k - 1 - i
  BY DEF memrchr
<1> HIDE DEF i
<1>3. ASSUME NEW a \in s+k-i..s+k-1 PROVE m[a] # c
  <2>1. (s + k - 1) - a \in 0..i-1 /\ (s + k - 1) - a \in 0..k-1 /\ s + k - 1 - ((s + k - 1) - a) = a
    BY <1>1
  <2> QED BY <1>1, <2>1
<1>4. CASE i = k
  <2>1. s + k - i = s
    BY <1>4
  <2> QED BY <1>2, <1>3, <1>4, <2>1
<1>5. CASE i # k
  <2>1. i \in 0..k-1 /\ m[s + k - 1 - i] = c
    BY <1>1, <1>5
  <2>2. (s + k - 1 - i) + 1 = s + k - i /\ s + k - 1 - i \in s..s+k-1
    BY <2>1
  <2> QED BY <1>2, <1>3, <1>5, <2>1, <2>2
<1> QED BY <1>4, <1>5

LEMMA StrchrIs ==
  ASSUME NEW L \in Nat, NEW m, Holds(m, L), NEW s \in 0..L, NEW z, EndsAt(m, L, s, z), NEW c
  PROVE  LET r == strchr(m, s, c) IN
         \/ r = NULL /\ \A a \in s..z : m[a] # c
         \/ r \in s..z /\ m[r] = c /\ \A a \in s..r-1 : m[a] # c
<1> DEFINE k == Left(m, s)
           here == {j \in Offsets(m, s, k) : m[s + j] = c}
           stop == here \cup NulAt(m, s, k)
           i == Steps(stop, k)
<1>1. k = (L + 1) - s /\ k \in Nat /\ DOMAIN m = 0..L
  BY LeftIs
<1>2. strchr(m, s, c) = IF i \in here THEN s + i ELSE NULL
  BY DEF strchr
<1>3. i \in 0..k /\ (i = k \/ i \in stop) /\ \A j \in 0..i-1 : j \notin stop
  BY <1>1, StepsIs
<1> HIDE DEF i
<1>4. z - s \in 0..k-1 /\ s + (z - s) = z /\ z \in 0..L /\ z \in s..L
  BY <1>1 DEF EndsAt
<1>5. z - s \in stop
  BY <1>1, <1>4 DEF EndsAt, NulAt, Offsets
<1>6. i <= z - s /\ i \in 0..k-1
  <2>1. ~(z - s < i)
    BY <1>3, <1>4, <1>5
  <2> HIDE DEF k, stop, here
  <2> QED BY <2>1, <1>1, <1>3, <1>4
<1>7. i \in stop
  BY <1>3, <1>6, <1>1
<1>8. ASSUME NEW a \in s..(s+i)-1 PROVE m[a] # c
  <2>1. a - s \in 0..i-1 /\ s + (a - s) = a /\ a \in 0..L /\ a - s \in 0..k-1
    BY <1>1, <1>6
  <2>2. a - s \notin here
    BY <1>3, <2>1
  <2> QED BY <1>1, <2>1, <2>2 DEF Offsets
<1>9. CASE i \in here
  <2>1. m[s + i] = c
    BY <1>9
  <2>2. s + i \in s..z
    BY <1>6, <1>4
  <2> QED BY <1>2, <1>8, <1>9, <2>1, <2>2
<1>10. CASE i \notin here
  <2>1. m[s + i] = 0 /\ s + i \in s..z
    BY <1>7, <1>10, <1>4, <1>6 DEF NulAt
  <2>2. s + i = z
    BY <2>1, <1>4 DEF EndsAt
  <2>3. m[z] # c
    BY <1>1, <1>4, <1>6, <1>10, <2>2 DEF Offsets
  <2>4. \A a \in s..z : m[a] # c
    BY <2>2, <2>3, <1>4, <1>8
  <2> QED BY <2>4, <1>2, <1>10
<1> QED BY <1>9, <1>10

LEMMA StrpbrkIs ==
  ASSUME NEW L \in Nat, NEW m, Holds(m, L), NEW s \in 0..L, NEW z, EndsAt(m, L, s, z),
         NEW accept, 0 \notin accept
  PROVE  LET r == strpbrk(m, s, accept) IN
         \/ r = NULL /\ \A a \in s..z-1 : m[a] \notin accept
         \/ r \in s..z-1 /\ m[r] \in accept /\ \A a \in s..r-1 : m[a] \notin accept
<1> DEFINE k == Left(m, s)
           bit(c) == IF c = 0 THEN 1 ELSE IF c \in accept THEN 1 ELSE 0
           stop == {j \in Offsets(m, s, k) : bit(m[s + j]) = 1}
           i == Steps(stop, k)
<1>1. k = (L + 1) - s /\ k \in Nat /\ DOMAIN m = 0..L
  BY LeftIs
<1>2. __strxspn(m, s, accept, 1) = i
  BY DEF __strxspn
<1>3. i \in 0..k /\ (i = k \/ i \in stop) /\ \A j \in 0..i-1 : j \notin stop
  BY <1>1, StepsIs
<1>4. \A j \in Offsets(m, s, k) : j \in stop <=> m[s + j] = 0 \/ m[s + j] \in accept
  OBVIOUS
<1> HIDE DEF i, stop
<1>5. z - s \in Offsets(m, s, k) /\ s + (z - s) = z /\ z \in s..L
  BY <1>1 DEF EndsAt, Offsets
<1>6. z - s \in stop
  BY <1>4, <1>5 DEF EndsAt
<1>7. i <= z - s /\ i \in 0..k-1
  <2>1. ~(z - s < i)
    BY <1>3, <1>5, <1>6
  <2> QED BY <2>1, <1>1, <1>3, <1>5
<1>8. i \in stop /\ s + i \in s..z /\ i \in Offsets(m, s, k)
  BY <1>1, <1>3, <1>5, <1>7 DEF Offsets
<1>9. ASSUME NEW a \in s..(s+i)-1 PROVE m[a] \notin accept
  <2>1. a - s \in 0..i-1 /\ s + (a - s) = a /\ a - s \in Offsets(m, s, k)
    BY <1>1, <1>7 DEF Offsets
  <2> QED BY <1>3, <1>4, <2>1
<1>10. strpbrk(m, s, accept) = IF m[s + i] # 0 THEN s + i ELSE NULL
  BY <1>2 DEF strpbrk
<1>11. CASE m[s + i] = 0
  <2>1. s + i = z
    BY <1>5, <1>8, <1>11 DEF EndsAt
  <2> QED BY <2>1, <1>9, <1>10, <1>11
<1>12. CASE m[s + i] # 0
  <2>1. m[s + i] \in accept
    BY <1>4, <1>8, <1>12
  <2>2. s + i # z
    BY <1>12 DEF EndsAt
  <2>3. s + i \in s..z-1
    BY <1>5, <1>8, <2>2
  <2> QED BY <2>1, <2>3, <1>9, <1>10, <1>12
<1> QED BY <1>11, <1>12

(* Where two runs of k bytes first differ, if they do: e.                  *)
MemcmpTo(m, s, t, k, e) ==
  /\ e \in 0..k
  /\ \A j \in 0..e-1 : m[s + j] = m[t + j]
  /\ e < k => m[s + e] # m[t + e]

Gap(m, s, t, k, e) == IF e = k THEN 0 ELSE m[s + e] - m[t + e]

LEMMA MemcmpIs ==
  ASSUME NEW L \in Nat, NEW m, Holds(m, L), NEW s \in Nat, NEW t \in Nat, NEW k \in Nat,
         s + k <= L + 1, t + k <= L + 1
  PROVE  \E e \in 0..k : MemcmpTo(m, s, t, k, e) /\ memcmp(m, s, t, k) = Gap(m, s, t, k, e)
<1> DEFINE stop == Differ(m, s, t, k)
           i == Steps(stop, k)
<1>1. i \in 0..k /\ (i = k \/ i \in stop) /\ \A j \in 0..i-1 : j \notin stop
  BY StepsIs
<1>2. memcmp(m, s, t, k) = Gap(m, s, t, k, i)
  BY DEF memcmp, Difference, Gap
<1> HIDE DEF i
<1>3. ASSUME NEW j \in 0..k-1 PROVE j \in stop <=> m[s + j] # m[t + j]
  <2>1. s + j \in 0..L /\ t + j \in 0..L /\ DOMAIN m = 0..L
    BY DEF Holds
  <2> QED BY <2>1 DEF Differ, Offsets
<1> HIDE DEF stop
<1>4. MemcmpTo(m, s, t, k, i)
  BY <1>1, <1>3 DEF MemcmpTo
<1> QED BY <1>1, <1>2, <1>4

(* Two strings: e is where they first differ, or end, or k.                *)
StrcmpTo(m, s, t, k, e) ==
  /\ e \in 0..k
  /\ \A j \in 0..e-1 : m[s + j] = m[t + j] /\ m[s + j] # 0
  /\ e < k => m[s + e] # m[t + e] \/ m[s + e] = 0

LEMMA StrncmpIs ==
  ASSUME NEW L \in Nat, NEW m, Holds(m, L), NEW s \in 0..L, NEW t \in 0..L, NEW k \in Nat,
         NEW z, EndsAt(m, L, s, z), NEW y, EndsAt(m, L, t, y)
  PROVE  \E e \in 0..k : /\ StrcmpTo(m, s, t, k, e) /\ e <= z - s /\ e <= y - t
                         /\ strncmp(m, s, t, k) = Gap(m, s, t, k, e)
<1> DEFINE stop == Differ(m, s, t, k) \cup NulAt(m, s, k)
           i == Steps(stop, k)
<1>1. i \in 0..k /\ (i = k \/ i \in stop) /\ \A j \in 0..i-1 : j \notin stop
  BY StepsIs
<1>2. strncmp(m, s, t, k) = Gap(m, s, t, k, i)
  BY DEF strncmp, Difference, Gap
<1> HIDE DEF i
<1>3. z \in s..L /\ y \in t..L /\ DOMAIN m = 0..L /\ s + (z - s) = z /\ t + (y - t) = y
  BY DEF Holds, EndsAt
<1>4. ASSUME NEW j \in 0..k-1, j <= z - s, j <= y - t
      PROVE  j \in stop <=> m[s + j] # m[t + j] \/ m[s + j] = 0
  <2>1. s + j \in 0..L /\ t + j \in 0..L
    BY <1>3, <1>4
  <2> QED BY <1>3, <2>1 DEF Differ, NulAt, Offsets
<1> HIDE DEF stop
<1> DEFINE e == IF z - s <= y - t THEN z - s ELSE y - t
<1>5. e \in Nat /\ e <= z - s /\ e <= y - t
  BY <1>3
<1>6. m[s + e] # m[t + e] \/ m[s + e] = 0
  <2>1. CASE z - s <= y - t
    BY <1>3, <2>1 DEF EndsAt
  <2>2. CASE y - t < z - s
    <3>1. m[t + e] = 0 /\ s + e \in s..z-1
      BY <1>3, <2>2 DEF EndsAt
    <3> QED BY <3>1 DEF EndsAt
  <2> QED BY <1>3, <2>1, <2>2
<1> HIDE DEF e
<1>7. i <= e
  <2> SUFFICES ASSUME e < i PROVE FALSE
    BY <1>1, <1>5
  <2>1. e \in 0..k-1 /\ e \in 0..i-1
    BY <1>1, <1>5
  <2> QED BY <1>1, <1>4, <1>5, <1>6, <2>1
<1>8. i <= z - s /\ i <= y - t
  BY <1>1, <1>3, <1>5, <1>7
<1>9. StrcmpTo(m, s, t, k, i)
  <2>1. ASSUME NEW j \in 0..i-1 PROVE m[s + j] = m[t + j] /\ m[s + j] # 0
    <3>1. j \in 0..k-1 /\ j <= z - s /\ j <= y - t
      BY <1>1, <1>3, <1>8
    <3> QED BY <1>1, <1>4, <3>1
  <2>2. ASSUME i < k PROVE m[s + i] # m[t + i] \/ m[s + i] = 0
    BY <1>1, <1>4, <1>8, <2>2
  <2> QED BY <1>1, <2>1, <2>2 DEF StrcmpTo
<1> QED BY <1>1, <1>2, <1>8, <1>9

(***************************************************************************)
(* memmem: the places its loop skips hold no match.                        *)
(***************************************************************************)
Matches(m, a, x, k) == \A i \in 0..k-1 : m[a + i] = m[x + i]

(* What the loop gives when it is at j: v is the first match from there.   *)
FoundFrom(m, y, l, x, k, j, v) ==
  \/ v = NULL /\ \A d \in j..l-k : ~Matches(m, y + d, x, k)
  \/ \E e \in j..l-k : v = y + e /\ Matches(m, y + e, x, k) /\ \A d \in j..e-1 : ~Matches(m, y + d, x, k)

LEMMA FoundOne ==
  ASSUME NEW m, NEW y \in Nat, NEW l \in Nat, NEW x, NEW k \in Nat, NEW j \in Nat
  PROVE  /\ \E v : FoundFrom(m, y, l, x, k, j, v)
         /\ \A v, w : FoundFrom(m, y, l, x, k, j, v) /\ FoundFrom(m, y, l, x, k, j, w) => v = w
<1> DEFINE S == {e \in j..l-k : Matches(m, y + e, x, k)}
<1>1. \E v : FoundFrom(m, y, l, x, k, j, v)
  <2>1. CASE S = {}
    BY <2>1 DEF FoundFrom
  <2>2. CASE S # {}
    <3>1. S \subseteq Nat
      OBVIOUS
    <3>2. PICK e \in S : \A d \in S : e <= d
      <4> HIDE DEF S
      <4> QED BY <2>2, <3>1, LeastNatural
    <3>3. \A d \in j..e-1 : ~Matches(m, y + d, x, k)
      BY <3>2
    <3>4. FoundFrom(m, y, l, x, k, j, y + e)
      BY <3>2, <3>3 DEF FoundFrom
    <3> QED BY <3>4
  <2> QED BY <2>1, <2>2
<1>2. ASSUME NEW v, NEW w, FoundFrom(m, y, l, x, k, j, v), FoundFrom(m, y, l, x, k, j, w) PROVE v = w
  <2>1. CASE v = NULL /\ \A d \in j..l-k : ~Matches(m, y + d, x, k)
    BY <1>2, <2>1 DEF FoundFrom
  <2>2. ASSUME NEW e \in j..l-k, v = y + e, Matches(m, y + e, x, k), \A d \in j..e-1 : ~Matches(m, y + d, x, k)
        PROVE  v = w
    <3>1. PICK f \in j..l-k : w = y + f /\ Matches(m, y + f, x, k) /\ \A d \in j..f-1 : ~Matches(m, y + d, x, k)
      BY <1>2, <2>2 DEF FoundFrom
    <3>2. ~(e < f)
      BY <2>2, <3>1
    <3>3. ~(f < e)
      BY <2>2, <3>1
    <3> QED BY <2>2, <3>1, <3>2, <3>3
  <2> QED BY <1>2, <2>1, <2>2 DEF FoundFrom
<1> QED BY <1>1, <1>2

LEMMA FoundLater ==
  ASSUME NEW m, NEW y \in Nat, NEW l \in Nat, NEW x, NEW k \in Nat, NEW j \in Nat, NEW s \in {1, 2}, NEW v,
         FoundFrom(m, y, l, x, k, j + s, v), ~Matches(m, y + j, x, k),
         s = 2 => ~Matches(m, y + (j + 1), x, k)
  PROVE  FoundFrom(m, y, l, x, k, j, v)
<1>1. ASSUME NEW d \in j..j+s-1 PROVE ~Matches(m, y + d, x, k)
  <2>1. d = j \/ (s = 2 /\ d = j + 1)
    OBVIOUS
  <2> QED BY <2>1
<1>2. CASE v = NULL /\ \A d \in j+s..l-k : ~Matches(m, y + d, x, k)
  <2>1. \A d \in j..l-k : d \in j..j+s-1 \/ d \in j+s..l-k
    OBVIOUS
  <2> QED BY <2>1, <1>1, <1>2 DEF FoundFrom
<1>3. ASSUME NEW e \in j+s..l-k, v = y + e, Matches(m, y + e, x, k),
             \A d \in j+s..e-1 : ~Matches(m, y + d, x, k)
      PROVE  FoundFrom(m, y, l, x, k, j, v)
  <2>1. \A d \in j..e-1 : d \in j..j+s-1 \/ d \in j+s..e-1
    OBVIOUS
  <2>2. \A d \in j..e-1 : ~Matches(m, y + d, x, k)
    BY <2>1, <1>1, <1>3
  <2>3. e \in j..l-k
    OBVIOUS
  <2> QED BY <2>2, <2>3, <1>3 DEF FoundFrom
<1> QED BY <1>2, <1>3 DEF FoundFrom

LEMMA MemcmpZero ==
  ASSUME NEW L \in Nat, NEW m, Holds(m, L), NEW s \in Nat, NEW t \in Nat, NEW k \in Nat,
         s + k <= L + 1, t + k <= L + 1
  PROVE  memcmp(m, s, t, k) = 0 <=> Matches(m, t, s, k)
<1>4. PICK e \in 0..k : MemcmpTo(m, s, t, k, e) /\ memcmp(m, s, t, k) = Gap(m, s, t, k, e)
  BY MemcmpIs
<1>1. MemcmpTo(m, s, t, k, e) /\ memcmp(m, s, t, k) = IF e = k THEN 0 ELSE m[s + e] - m[t + e]
  BY <1>4 DEF Gap
<1>2. CASE e = k
  BY <1>1, <1>2 DEF MemcmpTo, Matches
<1>3. CASE e # k
  <2>1. e \in 0..k-1 /\ m[s + e] # m[t + e] /\ s + e \in 0..L /\ t + e \in 0..L
    BY <1>1, <1>3 DEF MemcmpTo
  <2>2. m[s + e] \in 0..255 /\ m[t + e] \in 0..255
    BY <2>1 DEF Holds, Byte
  <2>3. m[s + e] - m[t + e] # 0
    <3>1. \A a, b \in 0..255 : a # b => a - b # 0
      OBVIOUS
    <3> QED BY <2>1, <2>2, <3>1
  <2> QED BY <1>1, <1>3, <2>1, <2>3 DEF Matches
<1> QED BY <1>2, <1>3

LEMMA MatchIs ==
  ASSUME NEW L \in Nat, NEW m, Holds(m, L), NEW x \in Nat, NEW y \in Nat, NEW k \in Nat, 2 <= k,
         x + k <= L + 1, y + k <= L + 1
  PROVE  Matches(m, y, x, k) <=> m[x] = m[y] /\ m[x + 1] = m[y + 1] /\ memcmp(m, x + 2, y + 2, k - 2) = 0
<1> DEFINE r == k - 2
           u == x + 2
           w == y + 2
<1>1. r \in Nat /\ u \in Nat /\ w \in Nat /\ u + r <= L + 1 /\ w + r <= L + 1
  OBVIOUS
<1>2. \A i \in 0..r-1 : i + 2 \in 0..k-1 /\ u + i = x + (i + 2) /\ w + i = y + (i + 2)
  OBVIOUS
<1>3. \A i \in 0..k-1 : i = 0 \/ i = 1 \/ (i - 2 \in 0..r-1 /\ x + i = u + (i - 2) /\ y + i = w + (i - 2))
  OBVIOUS
<1>4. 0 \in 0..k-1 /\ 1 \in 0..k-1 /\ x + 0 = x /\ y + 0 = y
  OBVIOUS
<1> HIDE DEF r, u, w
<1>5. memcmp(m, u, w, r) = 0 <=> Matches(m, w, u, r)
  BY <1>1, MemcmpZero
<1>6. Matches(m, y, x, k) => m[x] = m[y] /\ m[x + 1] = m[y + 1] /\ Matches(m, w, u, r)
  BY <1>2, <1>4 DEF Matches
<1>7. m[x] = m[y] /\ m[x + 1] = m[y + 1] /\ Matches(m, w, u, r) => Matches(m, y, x, k)
  BY <1>3, <1>4 DEF Matches
<1> QED BY <1>5, <1>6, <1>7 DEF r, u, w

MemmemLoop(f, m, y, l, x, k) ==
  f = [j \in 0..l |->
        IF j > l - k THEN NULL
        ELSE IF m[x + 1] # m[y + j + 1] THEN f[j + Skip(m, x, FALSE)]
        ELSE IF memcmp(m, x + 2, y + j + 2, k - 2) = 0 /\ m[x] = m[y + j] THEN y + j
        ELSE f[j + Skip(m, x, TRUE)]]

LEMMA MemmemFromIs ==
  ASSUME NEW L \in Nat, NEW m, Holds(m, L), NEW y \in Nat, NEW l \in Nat, NEW x \in Nat, NEW k \in Nat,
         y + l <= L + 1, x + k <= L + 1, 2 <= k, k <= l
  PROVE  FoundFrom(m, y, l, x, k, 0, memmemFrom(m, y, l, x, k))
<1> DEFINE Found(j, v) == FoundFrom(m, y, l, x, k, j, v)
           g == [j \in 0..l |-> CHOOSE v : Found(j, v)]
           step == Skip(m, x, FALSE)
           leap == Skip(m, x, TRUE)
           body(f, j) ==
             IF j > l - k THEN NULL
             ELSE IF m[x + 1] # m[y + j + 1] THEN f[j + step]
             ELSE IF memcmp(m, x + 2, y + j + 2, k - 2) = 0 /\ m[x] = m[y + j] THEN y + j
             ELSE f[j + leap]
<1>1. \A j \in 0..l : Found(j, g[j]) /\ \A v : Found(j, v) => v = g[j]
  BY FoundOne
<1>2. /\ step \in {1, 2}
      /\ step = 2 => m[x] = m[x + 1]
      /\ leap \in {1, 2}
      /\ leap = 2 => m[x] # m[x + 1]
  BY DEF Skip
<1>3. \A j \in 0..l : j <= l - k =>
        (Matches(m, y + j, x, k) <=>
           m[x] = m[y + j] /\ m[x + 1] = m[y + j + 1] /\ memcmp(m, x + 2, y + j + 2, k - 2) = 0)
  <2> SUFFICES ASSUME NEW j \in 0..l, j <= l - k
               PROVE  Matches(m, y + j, x, k) <=>
                        m[x] = m[y + j] /\ m[x + 1] = m[y + j + 1] /\ memcmp(m, x + 2, y + j + 2, k - 2) = 0
    OBVIOUS
  <2>1. y + j \in Nat /\ (y + j) + k <= L + 1
    OBVIOUS
  <2> QED BY <2>1, MatchIs
<1> HIDE DEF g, step, leap
<1>4. ASSUME NEW j \in 0..l PROVE g[j] = body(g, j) /\ \A f : (\A d \in j+1..l : f[d] = g[d]) => body(f, j) = body(g, j)
  <2>1. CASE j > l - k
    <3>1. Found(j, NULL)
      BY <2>1 DEF FoundFrom
    <3> QED BY <1>1, <2>1, <3>1
  <2>2. CASE j <= l - k /\ m[x + 1] # m[y + j + 1]
    <3>1. ~Matches(m, y + j, x, k)
      BY <1>3, <2>2
    <3>8. j <= l - k /\ j \in Nat /\ step \in {1, 2}
      BY <1>2, <2>2
    <3>2. j + step \in j+1..l /\ j + step \in 0..l
      BY <3>8
    <3>3. ASSUME step = 2 PROVE ~Matches(m, y + (j + 1), x, k)
      <4>1. 0 \in 0..k-1 /\ (y + (j + 1)) + 0 = y + j + 1 /\ x + 0 = x
        OBVIOUS
      <4> QED BY <4>1, <3>3, <1>2, <2>2 DEF Matches
    <3>4. Found(j + step, g[j + step])
      BY <1>1, <3>2
    <3>5. Found(j, g[j + step])
      BY <3>8, <3>1, <3>3, <3>4, FoundLater, Zenon
    <3>6. g[j] = g[j + step]
      BY <1>1, <3>5
    <3> HIDE DEF Found
    <3> QED BY <2>2, <3>2, <3>6
  <2>3. CASE j <= l - k /\ m[x + 1] = m[y + j + 1] /\ memcmp(m, x + 2, y + j + 2, k - 2) = 0 /\ m[x] = m[y + j]
    <3>1. Matches(m, y + j, x, k)
      BY <1>3, <2>3
    <3>2. Found(j, y + j)
      BY <2>3, <3>1 DEF FoundFrom
    <3>3. g[j] = y + j
      BY <1>1, <3>2
    <3> HIDE DEF Found
    <3> QED BY <2>3, <3>3
  <2>4. CASE j <= l - k /\ m[x + 1] = m[y + j + 1] /\ ~(memcmp(m, x + 2, y + j + 2, k - 2) = 0 /\ m[x] = m[y + j])
    <3>1. ~Matches(m, y + j, x, k)
      BY <1>3, <2>4
    <3>8. j <= l - k /\ j \in Nat /\ leap \in {1, 2}
      BY <1>2, <2>4
    <3>2. j + leap \in j+1..l /\ j + leap \in 0..l
      BY <3>8
    <3>3. ASSUME leap = 2 PROVE ~Matches(m, y + (j + 1), x, k)
      <4>1. 0 \in 0..k-1 /\ (y + (j + 1)) + 0 = y + j + 1 /\ x + 0 = x
        OBVIOUS
      <4> QED BY <4>1, <3>3, <1>2, <2>4 DEF Matches
    <3>4. Found(j + leap, g[j + leap])
      BY <1>1, <3>2
    <3>5. Found(j, g[j + leap])
      BY <3>8, <3>1, <3>3, <3>4, FoundLater, Zenon
    <3>6. g[j] = g[j + leap]
      BY <1>1, <3>5
    <3> HIDE DEF Found
    <3> QED BY <2>4, <3>2, <3>6
  <2> QED BY <2>1, <2>2, <2>3, <2>4
<1>5. MemmemLoop(g, m, y, l, x, k)
  <2>1. g = [j \in 0..l |-> g[j]]
    BY DEF g
  <2>2. g = [j \in 0..l |-> body(g, j)]
    <3> HIDE DEF body
    <3> QED BY <1>4, <2>1
  <2> QED BY <2>2 DEF MemmemLoop, step, leap
<1> DEFINE h == CHOOSE f : MemmemLoop(f, m, y, l, x, k)
<1>6. MemmemLoop(h, m, y, l, x, k)
  BY <1>5
<1>7. memmemFrom(m, y, l, x, k) = h[0]
  BY DEF memmemFrom, MemmemLoop
<1> HIDE DEF h
<1>8. \A j \in 0..l : h[j] = body(h, j)
  <2>1. h = [j \in 0..l |-> body(h, j)]
    BY <1>6 DEF MemmemLoop, step, leap
  <2> HIDE DEF body
  <2> QED BY <2>1
<1> DEFINE T == {j \in 0..l : h[j] = g[j]}
<1>9. ASSUME NEW j \in 0..l, \A d \in j+1..l : d \in T PROVE j \in T
  <2> HIDE DEF body
  <2> QED BY <1>4, <1>8, <1>9
<1>10. 0 \in T
  <2> HIDE DEF T
  <2>1. 0..l \subseteq T
    BY <1>9, Downwards
  <2> QED BY <2>1
<1> QED BY <1>1, <1>7, <1>10

LEMMA MemmemIs ==
  ASSUME NEW L \in Nat, NEW m, Holds(m, L), NEW y \in Nat, NEW l \in Nat, NEW x \in Nat, NEW k \in Nat,
         y + l <= L + 1, x + k <= L + 1, k # 0, l # 0
  PROVE  FoundFrom(m, y, l, x, k, 0, memmem(m, y, l, x, k))
<1>1. CASE k > l
  <2>1. memmem(m, y, l, x, k) = NULL
    BY <1>1 DEF memmem
  <2> QED BY <1>1, <2>1 DEF FoundFrom
<1>2. CASE k <= l /\ k = 1
  <2> DEFINE r == memchr(m, y, m[x], l)
  <2>1. memmem(m, y, l, x, k) = r
    BY <1>2 DEF memmem
  <2>2. \/ r = NULL /\ \A a \in y..y+l-1 : m[a] # m[x]
        \/ r \in y..y+l-1 /\ m[r] = m[x] /\ \A a \in y..r-1 : m[a] # m[x]
    BY MemchrIs
  <2> HIDE DEF r
  <2>3. ASSUME NEW a PROVE Matches(m, a, x, k) <=> m[a + 0] = m[x + 0]
    BY <1>2 DEF Matches
  <2>4. x + 0 = x /\ \A a \in Nat : a + 0 = a
    OBVIOUS
  <2>5. \A d \in 0..l-k : y + d \in y..y+l-1 /\ y + d \in Nat
    BY <1>2
  <2>6. CASE r = NULL /\ \A a \in y..y+l-1 : m[a] # m[x]
    BY <2>1, <2>3, <2>4, <2>5, <2>6 DEF FoundFrom
  <2>7. CASE r \in y..y+l-1 /\ m[r] = m[x] /\ \A a \in y..r-1 : m[a] # m[x]
    <3>1. r - y \in 0..l-k /\ r = y + (r - y)
      BY <1>2, <2>7
    <3>2. Matches(m, y + (r - y), x, k)
      BY <2>3, <2>4, <2>7, <3>1
    <3>3. ASSUME NEW d \in 0..(r-y)-1 PROVE ~Matches(m, y + d, x, k)
      <4>1. y + d \in y..r-1 /\ y + d \in Nat
        BY <2>7
      <4> QED BY <2>3, <2>4, <2>7, <4>1
    <3> QED BY <2>1, <3>1, <3>2, <3>3 DEF FoundFrom
  <2> QED BY <2>2, <2>6, <2>7
<1>3. CASE k <= l /\ k # 1
  <2>1. memmem(m, y, l, x, k) = memmemFrom(m, y, l, x, k)
    BY <1>3 DEF memmem
  <2>2. 2 <= k
    BY <1>3
  <2> QED BY <1>3, <2>1, <2>2, MemmemFromIs
<1> QED BY <1>1, <1>2, <1>3

(* The order of two runs of bytes, from where they first differ.           *)
RunOrder(m, s, t, k) == Order([i \in 1..k |-> m[s + i - 1]], [i \in 1..k |-> m[t + i - 1]])

LEMMA OrderIs ==
  ASSUME NEW m, NEW s \in Nat, NEW t \in Nat, NEW k \in Nat,
         NEW e \in 0..k, MemcmpTo(m, s, t, k, e)
  PROVE  RunOrder(m, s, t, k) = Sign(Gap(m, s, t, k, e))
<1> DEFINE f == [i \in 1..k |-> m[s + i - 1]]
           g == [i \in 1..k |-> m[t + i - 1]]
           differ == {i \in DOMAIN f : f[i] # g[i]}
<1>1. RunOrder(m, s, t, k) = IF differ = {} THEN 0 ELSE Sign(f[Min(differ)] - g[Min(differ)])
  BY Zenon DEF Order, RunOrder
<1>2. \A i \in 1..k : f[i] = m[s + (i - 1)] /\ g[i] = m[t + (i - 1)]
  OBVIOUS
<1>3. differ \subseteq 1..k /\ differ \in SUBSET Int /\ differ = {i \in 1..k : f[i] # g[i]}
  OBVIOUS
<1>4. ASSUME NEW i \in 1..e, i \in 1..k PROVE i \notin differ
  <2>1. i - 1 \in 0..e-1
    BY DEF MemcmpTo
  <2> QED BY <1>2, <1>4, <2>1 DEF MemcmpTo
<1> HIDE DEF f, g, differ
<1>5. CASE e = k
  <2>1. differ = {}
    BY <1>3, <1>4, <1>5
  <2>2. Sign(0) = 0
    BY DEF Sign
  <2> QED BY <1>1, <1>5, <2>1, <2>2, Zenon DEF Gap
<1>6. CASE e # k
  <2>1. e + 1 \in 1..k /\ (e + 1) - 1 = e /\ m[s + e] # m[t + e] /\ e \in Nat
    BY <1>6 DEF MemcmpTo
  <2>2. e + 1 \in differ /\ f[e + 1] = m[s + e] /\ g[e + 1] = m[t + e]
    BY <1>2, <1>3, <2>1
  <2>3. \A i \in differ : e + 1 <= i
    BY <1>3, <1>4, <2>1
  <2>4. Min(differ) = e + 1
    BY <1>3, <2>2, <2>3, MinIs
  <2>5. differ # {}
    BY <2>2
  <2>6. RunOrder(m, s, t, k) = Sign(f[e + 1] - g[e + 1])
    BY <1>1, <2>4, <2>5, Zenon
  <2> QED BY <1>6, <2>2, <2>6, Zenon DEF Gap
<1> QED BY <1>5, <1>6

LEMMA CompareIs ==
  ASSUME NEW L \in Nat, NEW m, Holds(m, L), NEW s \in Nat, NEW t \in Nat, NEW k \in Nat,
         s + k <= L + 1, t + k <= L + 1
  PROVE  Sign(memcmp(m, s, t, k)) = RunOrder(m, s, t, k)
<1>1. PICK e \in 0..k : MemcmpTo(m, s, t, k, e) /\ memcmp(m, s, t, k) = Gap(m, s, t, k, e)
  BY MemcmpIs
<1> QED BY <1>1, OrderIs

LEMMA StringOrder ==
  ASSUME NEW L \in Nat, NEW m, Holds(m, L), NEW s \in 0..L, NEW t \in 0..L, NEW k \in Nat,
         NEW z, EndsAt(m, L, s, z), NEW y, EndsAt(m, L, t, y),
         NEW short, short = IF z - s <= y - t THEN (z - s) + 1 ELSE (y - t) + 1,
         NEW l, l = IF short <= k THEN short ELSE k
  PROVE  Sign(strncmp(m, s, t, k)) = RunOrder(m, s, t, l)
<1>8. PICK e \in 0..k : StrcmpTo(m, s, t, k, e) /\ e <= z - s /\ e <= y - t /\ strncmp(m, s, t, k) = Gap(m, s, t, k, e)
  BY StrncmpIs
<1>1. /\ StrcmpTo(m, s, t, k, e) /\ e <= z - s /\ e <= y - t
      /\ strncmp(m, s, t, k) = IF e = k THEN 0 ELSE m[s + e] - m[t + e]
  BY <1>8, Zenon DEF Gap
<1>2. z \in s..L /\ y \in t..L /\ s + (z - s) = z /\ t + (y - t) = y /\ l \in Nat /\ s \in Nat /\ t \in Nat
  BY DEF EndsAt
<1>3. e <= l
  BY <1>1, <1>2
<1>7. ASSUME NEW d \in 0..l, MemcmpTo(m, s, t, l, d)
      PROVE  RunOrder(m, s, t, l) = Sign(Gap(m, s, t, l, d))
  <2>1. s \in Nat /\ t \in Nat /\ l \in Nat
    BY <1>2
  <2> QED BY ONLY <1>7, <2>1, OrderIs
<1>4. CASE e = k
  <2>1. l = k
    BY <1>1, <1>2, <1>4
  <2>2. MemcmpTo(m, s, t, l, e)
    BY <1>1, <1>4, <2>1 DEF MemcmpTo, StrcmpTo
  <2>3. RunOrder(m, s, t, l) = Sign(Gap(m, s, t, l, e))
    BY <2>2, <1>7 DEF MemcmpTo
  <2> QED BY <1>1, <1>4, <2>1, <2>3, Zenon DEF Gap
<1>5. CASE e # k /\ m[s + e] # m[t + e]
  <2>1. e < l
    BY <1>1, <1>2, <1>5
  <2>2. MemcmpTo(m, s, t, l, e)
    BY <1>1, <1>2, <1>3, <1>5, <2>1 DEF MemcmpTo, StrcmpTo
  <2>3. e # l
    BY <2>1, <1>2, <1>1
  <2>4. RunOrder(m, s, t, l) = Sign(Gap(m, s, t, l, e))
    BY <2>2, <1>7 DEF MemcmpTo
  <2> QED BY <1>1, <1>5, <2>3, <2>4, Zenon DEF Gap
<1>6. CASE e # k /\ m[s + e] = m[t + e]
  <2>1. e < k /\ m[s + e] = 0 /\ m[t + e] = 0
    BY <1>1, <1>6 DEF StrcmpTo
  <2>2. ~(e < z - s)
    <3> SUFFICES ASSUME e < z - s PROVE FALSE
      OBVIOUS
    <3>1. s + e \in s..z-1
      BY <1>1, <1>2
    <3> QED BY <2>1, <3>1 DEF EndsAt
  <2>3. ~(e < y - t)
    <3> SUFFICES ASSUME e < y - t PROVE FALSE
      OBVIOUS
    <3>1. t + e \in t..y-1
      BY <1>1, <1>2
    <3> QED BY <2>1, <3>1 DEF EndsAt
  <2>4. l = e + 1
    BY <1>1, <1>2, <2>1, <2>2, <2>3
  <2>5. MemcmpTo(m, s, t, l, l)
    <3>1. ASSUME NEW j \in 0..l-1 PROVE m[s + j] = m[t + j]
      <4>1. j = e \/ j \in 0..e-1
        BY <1>1, <2>4
      <4> QED BY <1>1, <1>6, <4>1 DEF StrcmpTo
    <3> QED BY <1>2, <3>1 DEF MemcmpTo
  <2>6. strncmp(m, s, t, k) = 0
    <3>1. m[s + e] = 0 /\ m[t + e] = 0 /\ 0 - 0 = 0
      BY <2>1
    <3> QED BY <1>1, <1>6, <3>1
  <2>7. RunOrder(m, s, t, l) = Sign(Gap(m, s, t, l, l))
    BY <2>5, <1>7 DEF MemcmpTo
  <2> QED BY <2>6, <2>7, Zenon DEF Gap
<1> QED BY <1>4, <1>5, <1>6

(***************************************************************************)
(* What a search call leaves behind, until the program does something      *)
(* else: its arguments, its guards and its result.                         *)
(***************************************************************************)
SearchResult(m, fn, s, t, c, k) ==
  CASE fn = "memchr"  -> memchr(m, s, c, k)
    [] fn = "memrchr" -> memrchr(m, s, c, k)
    [] fn = "memcmp"  -> memcmp(m, s, t, k)
    [] fn = "memmem"  -> memmem(m, s, k, t, c)
    [] fn = "strchr"  -> strchr(m, s, c)
    [] fn = "strlen"  -> strlen(m, s)
    [] fn = "strnlen" -> strnlen(m, s, k)
    [] fn = "strcmp"  -> strcmp(m, s, t)
    [] fn = "strncmp" -> strncmp(m, s, t, k)
    [] fn = "strpbrk" -> strpbrk(m, s, {c, k} \ {0})

SearchCalled ==
  call.fn \in SearchFns =>
    /\ IsMemory(before) /\ mem = before
    /\ call.s \in Address /\ call.t \in Address /\ call.c \in Nat /\ call.k \in Nat
    /\ call.fn \in {"memchr", "memrchr", "memcmp", "memmem"} => Fits(call.s, call.k)
    /\ call.fn = "memcmp" => Fits(call.t, call.k)
    /\ call.fn = "memmem" => Fits(call.t, call.c)
    /\ ret = SearchResult(mem, call.fn, call.s, call.t, call.c, call.k)

LEMMA NumbersOf ==
  ASSUME IsMemory(mem)
  PROVE  /\ Address \subseteq Nat /\ Length \subseteq Nat /\ Chars \subseteq Nat
         /\ 0 \in Address /\ 0 \in Length
BY MemoryIs, LibraryAssumption DEF Address, Length, Byte

LEMMA SearchCalledStep ==
  ASSUME IsMemory(mem), NEW fn \in SearchFns, NEW s \in Address, NEW t \in Address \cup {0},
         NEW c \in Chars \cup Length \cup {0}, NEW k \in Chars \cup Length \cup {0}, call_search(fn, s, t, c, k)
  PROVE  SearchCalled'
<1>1. s \in Address /\ t \in Address /\ c \in Nat /\ k \in Nat
  BY NumbersOf
<1>2. call' = [fn |-> fn, s |-> s, t |-> t, c |-> c, k |-> k] /\ before' = mem /\ mem' = mem
  BY Zenon DEF call_search, Called
<1>3. ret' = SearchResult(mem, fn, s, t, c, k)
  BY Zenon DEF call_search, Called, SearchResult
<1>4. /\ fn \in {"memchr", "memrchr", "memcmp", "memmem"} => Fits(s, k)
      /\ fn = "memcmp" => Fits(t, k)
      /\ fn = "memmem" => Fits(t, c)
  BY Zenon DEF call_search
<1>5. call'.fn = fn /\ call'.s = s /\ call'.t = t /\ call'.c = c /\ call'.k = k
  BY <1>2
<1> QED BY <1>1, <1>2, <1>3, <1>4, <1>5 DEF SearchCalled, Address, Fits, IsMemory

LEMMA SearchCalledHolds == Spec => []SearchCalled
<1>1. Init => SearchCalled
  BY DEF Init, SearchCalled, SearchFns
<1>2. CallInv /\ SearchCalled /\ [Next]_vars => SearchCalled'
  <2> SUFFICES ASSUME CallInv, SearchCalled, [Next]_vars PROVE SearchCalled'
    OBVIOUS
  <2>1. CASE Formatting
    BY <2>1 DEF Formatting, SearchCalled, string_vars, IsMemory, Address, Fits
  <2>2. CASE Fills
    BY <2>2 DEF Fills, CallInv, SearchCalled, SearchFns, NoJob
  <2>3. CASE CallsString \/ CallsStringToNul
    <3>1. job.kind = "memory" /\ call.fn = "none"
      BY <2>3 DEF CallsString, CallsStringToNul
    <3>2. IsMemory(mem) /\ 0 \in Length
      BY <3>1, ZeroLength DEF CallInv
    <3>3. ASSUME NEW fn \in MemoryFns, NEW dst, NEW src, NEW c, NEW k, call_memory(fn, dst, src, c, k)
          PROVE  SearchCalled'
      <4>1. call' = [fn |-> fn, dst |-> dst, src |-> src, c |-> c, k |-> k]
        BY <3>3, Zenon DEF call_memory, Called
      <4> QED BY <4>1 DEF SearchCalled, SearchFns, MemoryFns
    <3>4. ASSUME NEW fn \in CopyFns, NEW dst, NEW src, NEW k, call_string_copy(fn, dst, src, k)
          PROVE  SearchCalled'
      <4>1. call' = [fn |-> fn, dst |-> dst, src |-> src, k |-> k]
        BY <3>4, Zenon DEF call_string_copy, Called
      <4> QED BY <4>1 DEF SearchCalled, SearchFns, CopyFns
    <3> QED BY <2>3, <3>2, <3>3, <3>4, StringCall, SearchCalledStep, Zenon
  <2>4. CASE CallsCtype
    <3>1. call'.fn = "ctype"
      BY <2>4 DEF CallsCtype, call_ctype, Called
    <3> QED BY <3>1 DEF SearchCalled, SearchFns
  <2>5. CASE CallsStrtok
    <3>1. call'.fn = "strtok"
      BY <2>5 DEF CallsStrtok, strtok
    <3> QED BY <3>1 DEF SearchCalled, SearchFns
  <2> QED BY <2>1, <2>2, <2>3, <2>4, <2>5, StepOfProgram
<1> QED BY <1>1, <1>2, CallInvHolds, PTL DEF Spec

LEMMA NulIs ==
  ASSUME NEW L \in Nat, Holds(before, L), Address = 0..L, NEW s \in 0..L, NEW z, EndsAt(before, L, s, z)
  PROVE  Nul(s) = z
<1> DEFINE S == {a \in Address : a >= s /\ before[a] = 0}
<1>1. S \in SUBSET Int /\ z \in S /\ \A b \in S : z <= b
  BY DEF EndsAt
<1> HIDE DEF S
<1>2. Min(S) = z
  BY <1>1, MinIs
<1> QED BY <1>2 DEF Nul, S

LEMMA BytesIs ==
  ASSUME NEW L \in Nat, Holds(before, L), NEW s \in Nat, NEW k \in Nat, s + k <= L + 1
  PROVE  /\ Bytes(s, k) \in Seq(Byte) /\ Len(Bytes(s, k)) = k /\ DOMAIN Bytes(s, k) = 1..k
         /\ \A i \in 1..k : Bytes(s, k)[i] = before[s + i - 1]
<1>1. \A i \in 1..k : before[s + i - 1] \in Byte
  BY DEF Holds
<1>2. Bytes(s, k) \in [1..k -> Byte]
  BY <1>1 DEF Bytes
<1> QED BY <1>2 DEF Bytes

(* What a search within k bytes finds. *)
LEMMA FirstFound ==
  ASSUME NEW S \in SUBSET Int, NEW lo \in Nat, NEW hi \in Int, S \subseteq lo..hi, NEW r,
         \/ r = NULL /\ S = {}
         \/ r \in S /\ \A a \in lo..r-1 : a \notin S
  PROVE  r = Least(S)
<1>1. ASSUME r \in S, \A a \in lo..r-1 : a \notin S, NEW y \in S PROVE r <= y
  BY <1>1
<1> QED BY <1>1, LeastIs

LEMMA SearchesInMemory ==
  ASSUME SearchCalled, call.fn \in {"memchr", "memrchr", "memmem", "memcmp"}
  PROVE  SearchesFind
<1> DEFINE s == call.s
           t == call.t
           c == call.c
           k == call.k
           fn == call.fn
           within == {a \in Address : s <= a /\ a < s + k}
<1>1. /\ IsMemory(before) /\ mem = before /\ s \in Address /\ t \in Address /\ c \in Nat /\ k \in Nat
      /\ Fits(s, k)
      /\ fn = "memcmp" => Fits(t, k)
      /\ fn = "memmem" => Fits(t, c)
      /\ ret = SearchResult(mem, fn, s, t, c, k)
  BY DEF SearchCalled, SearchFns
<1>2. PICK L \in Nat : /\ before \in [0..L -> Byte] /\ before[L] = 0 /\ DOMAIN before = 0..L
                       /\ Cardinality(DOMAIN before) = L + 1
  BY <1>1, MemoryIs
<1>3. /\ Address = 0..L /\ Holds(before, L) /\ s \in 0..L /\ s + k <= L + 1
      /\ t \in 0..L
      /\ fn = "memcmp" => t + k <= L + 1
      /\ fn = "memmem" => t + c <= L + 1
  BY <1>1, <1>2 DEF Address, Holds, Fits
<1>4. within = s..s+k-1 /\ within \in SUBSET Int
  BY <1>1, <1>3
<1> HIDE DEF s, t, c, k, fn, within
<1>5. CASE fn = "memchr"
  <2> DEFINE S == {a \in within : before[a] = c}
  <2>1. ret = memchr(before, s, c, k)
    BY <1>1, <1>5, Zenon DEF SearchResult
  <2>2. SearchesFind <=> ret = Least(S)
    BY <1>5 DEF SearchesFind, within, s, c, k, fn
  <2>3. \/ ret = NULL /\ \A a \in s..s+k-1 : before[a] # c
        \/ ret \in s..s+k-1 /\ before[ret] = c /\ \A a \in s..ret-1 : before[a] # c
    BY <1>1, <1>3, <2>1, MemchrIs
  <2>4. S \in SUBSET Int /\ S \subseteq s..s+k-1 /\ s \in Nat /\ s+k-1 \in Int
    BY <1>1, <1>3, <1>4
  <2>5. \/ ret = NULL /\ S = {}
        \/ ret \in S /\ \A a \in s..ret-1 : a \notin S
    BY <1>4, <2>3
  <2> HIDE DEF S
  <2> QED BY <2>2, <2>4, <2>5, FirstFound
<1>6. CASE fn = "memrchr"
  <2> DEFINE S == {a \in within : before[a] = c}
  <2>1. ret = memrchr(before, s, c, k)
    BY <1>1, <1>6, Zenon DEF SearchResult
  <2>2. SearchesFind <=> ret = IF S = {} THEN NULL ELSE Max(S)
    BY <1>6 DEF SearchesFind, within, s, c, k, fn
  <2>3. \/ ret = NULL /\ \A a \in s..s+k-1 : before[a] # c
        \/ ret \in s..s+k-1 /\ before[ret] = c /\ \A a \in ret+1..s+k-1 : before[a] # c
    BY <1>1, <1>3, <2>1, MemrchrIs
  <2>4. S \in SUBSET Int
    BY <1>4
  <2>5. \/ ret = NULL /\ S = {}
        \/ ret \in S /\ \A a \in S : ret >= a
    <3>1. CASE ret = NULL /\ \A a \in s..s+k-1 : before[a] # c
      BY <1>4, <3>1
    <3>2. CASE ret \in s..s+k-1 /\ before[ret] = c /\ \A a \in ret+1..s+k-1 : before[a] # c
      <4>1. ASSUME NEW a \in S PROVE ret >= a
        <5>1. a \in s..s+k-1 /\ before[a] = c /\ a \in Int /\ ret \in Int
          BY <1>4, <1>1, <1>3, <3>2
        <5> QED BY <5>1, <3>2
      <4> QED BY <1>4, <3>2, <4>1
    <3> QED BY <2>3, <3>1, <3>2
  <2> HIDE DEF S
  <2>6. ret \in S => Max(S) = ret
    BY <2>4, <2>5, MaxIs
  <2> QED BY <2>2, <2>5, <2>6
<1>7. CASE fn = "memmem"
  <2> DEFINE S == {a \in within : a + c <= s + k /\ Bytes(a, c) = Bytes(t, c)}
  <2>1. ret = memmem(before, s, k, t, c)
    BY <1>1, <1>7, Zenon DEF SearchResult
  <2>2. SearchesFind <=> ret = IF c = 0 \/ k = 0 THEN NULL ELSE Least(S)
    BY <1>7 DEF SearchesFind, within, s, t, c, k, fn
  <2>3. ASSUME c = 0 \/ k = 0 PROVE ret = NULL
    BY <2>1, <2>3, <1>1 DEF memmem
  <2>4. ASSUME c # 0, k # 0 PROVE ret = Least(S)
    <3>1. FoundFrom(before, s, k, t, c, 0, ret)
      <4>1. s \in Nat /\ t \in Nat
        BY <1>3
      <4> QED BY <1>1, <1>3, <1>7, <2>1, <2>4, <4>1, MemmemIs
    <3>2. ASSUME NEW a \in s..s+k-1 PROVE Bytes(a, c) = Bytes(t, c) <=> Matches(before, a, t, c)
      <4>1. \A i \in 0..c-1 : i + 1 \in 1..c /\ a + (i + 1) - 1 = a + i /\ t + (i + 1) - 1 = t + i
        BY <1>1, <1>3
      <4>2. \A i \in 1..c : i - 1 \in 0..c-1 /\ a + i - 1 = a + (i - 1) /\ t + i - 1 = t + (i - 1)
        BY <1>1, <1>3
      <4>3. ASSUME Bytes(a, c) = Bytes(t, c), NEW i \in 0..c-1 PROVE before[a + i] = before[t + i]
        <5>1. Bytes(a, c)[i + 1] = before[a + (i + 1) - 1] /\ Bytes(t, c)[i + 1] = before[t + (i + 1) - 1]
          BY <4>1 DEF Bytes
        <5> QED BY <5>1, <4>1, <4>3
      <4>4. ASSUME Matches(before, a, t, c) PROVE Bytes(a, c) = Bytes(t, c)
        <5>1. \A i \in 1..c : before[a + i - 1] = before[t + i - 1]
          BY <4>2, <4>4 DEF Matches
        <5> QED BY <5>1 DEF Bytes
      <4> QED BY <4>3, <4>4 DEF Matches
    <3>3. S = {a \in s..s+k-1 : a + c <= s + k /\ Matches(before, a, t, c)}
      BY <3>2, <1>4
    <3> HIDE DEF S
    <3>4. S \in SUBSET Int /\ S \subseteq s..s+k-1 /\ s \in Nat /\ s+k-1 \in Int
      BY <1>1, <1>3, <3>3
    <3>5. CASE ret = NULL /\ \A d \in 0..k-c : ~Matches(before, s + d, t, c)
      <4>1. ASSUME NEW a \in S PROVE FALSE
        <5>1. a - s \in 0..k-c /\ s + (a - s) = a
          BY <3>3, <1>1, <1>3
        <5> QED BY <3>3, <3>5, <5>1
      <4> QED BY <3>4, <3>5, <4>1, FirstFound
    <3>6. ASSUME NEW e \in 0..k-c, ret = s + e, Matches(before, s + e, t, c),
                 \A d \in 0..e-1 : ~Matches(before, s + d, t, c)
          PROVE  ret = Least(S)
      <4>1. ret \in S
        BY <3>3, <3>6, <1>1, <1>3, <2>4
      <4>2. ASSUME NEW a \in s..ret-1, a \in S PROVE FALSE
        <5>1. a - s \in 0..e-1 /\ s + (a - s) = a
          BY <3>6, <1>3
        <5> QED BY <3>3, <3>6, <4>2, <5>1
      <4> QED BY <3>4, <4>1, <4>2, FirstFound
    <3> QED BY <3>1, <3>5, <3>6 DEF FoundFrom
  <2> QED BY <2>2, <2>3, <2>4
<1>8. CASE fn = "memcmp"
  <2>1. ret = memcmp(before, s, t, k)
    BY <1>1, <1>8, Zenon DEF SearchResult
  <2>2. SearchesFind <=> Sign(ret) = Order(Bytes(s, k), Bytes(t, k))
    BY <1>8 DEF SearchesFind, s, t, k, fn
  <2>3. Order(Bytes(s, k), Bytes(t, k)) = RunOrder(before, s, t, k)
    BY DEF Bytes, RunOrder
  <2>4. s \in Nat /\ t \in Nat
    BY <1>3
  <2>7. k \in Nat /\ s + k <= L + 1 /\ t + k <= L + 1
    BY <1>1, <1>3, <1>8
  <2>5. Sign(memcmp(before, s, t, k)) = RunOrder(before, s, t, k)
    BY <1>3, <2>4, <2>7, CompareIs
  <2> QED BY <2>1, <2>2, <2>3, <2>5
<1> QED BY <1>5, <1>6, <1>7, <1>8 DEF fn

LEMMA SearchesInStrings ==
  ASSUME SearchCalled, call.fn \in {"strchr", "strlen", "strnlen", "strcmp", "strncmp", "strpbrk"}
  PROVE  SearchesFind
<1> DEFINE s == call.s
           t == call.t
           c == call.c
           k == call.k
           fn == call.fn
<1>1. /\ IsMemory(before) /\ mem = before /\ s \in Address /\ t \in Address /\ c \in Nat /\ k \in Nat
      /\ ret = SearchResult(mem, fn, s, t, c, k)
  BY DEF SearchCalled, SearchFns
<1>2. PICK L \in Nat : /\ before \in [0..L -> Byte] /\ before[L] = 0 /\ DOMAIN before = 0..L
                       /\ Cardinality(DOMAIN before) = L + 1
  BY <1>1, MemoryIs
<1>3. Address = 0..L /\ Holds(before, L) /\ s \in 0..L /\ t \in 0..L /\ s \in Nat /\ t \in Nat
  BY <1>1, <1>2 DEF Address, Holds
<1> HIDE DEF s, t, c, k, fn
<1>4. PICK z \in s..L : EndsAt(before, L, s, z)
  BY <1>3, StringEnds
<1>5. PICK y \in t..L : EndsAt(before, L, t, y)
  BY <1>3, StringEnds
<1>6. Nul(s) = z /\ Nul(t) = y
  BY <1>3, <1>4, <1>5, NulIs
<1>7. z - s \in Nat /\ y - t \in Nat
  BY <1>3
<1>8. CASE fn = "strchr"
  <2> DEFINE S == {a \in Address : s <= a /\ a <= Nul(s) /\ before[a] = c}
  <2>1. ret = strchr(before, s, c)
    BY <1>1, <1>8, Zenon DEF SearchResult
  <2>2. SearchesFind <=> ret = Least(S)
    BY <1>8 DEF SearchesFind, s, c, fn
  <2>3. \/ ret = NULL /\ \A a \in s..z : before[a] # c
        \/ ret \in s..z /\ before[ret] = c /\ \A a \in s..ret-1 : before[a] # c
    BY <1>3, <1>4, <2>1, StrchrIs
  <2>4. S = {a \in s..z : before[a] = c}
    BY <1>3, <1>6
  <2> HIDE DEF S
  <2>5. S \in SUBSET Int /\ S \subseteq s..z /\ z \in Int
    BY <1>3, <2>4
  <2>6. \/ ret = NULL /\ S = {}
        \/ ret \in S /\ \A a \in s..ret-1 : a \notin S
    BY <2>3, <2>4
  <2> QED BY <1>3, <2>2, <2>5, <2>6, FirstFound
<1>9. CASE fn = "strlen"
  <2>1. ret = strlen(before, s)
    BY <1>1, <1>9, Zenon DEF SearchResult
  <2>2. SearchesFind <=> ret = Nul(s) - s
    BY <1>9 DEF SearchesFind, s, fn
  <2> QED BY <1>3, <1>4, <1>6, <2>1, <2>2, StrlenIs
<1>10. CASE fn = "strnlen"
  <2>1. ret = strnlen(before, s, k)
    BY <1>1, <1>10, Zenon DEF SearchResult
  <2>2. SearchesFind <=> ret = Min({k, Nul(s) - s})
    BY <1>10 DEF SearchesFind, s, k, fn
  <2>3. ret = IF z - s < k THEN z - s ELSE k
    BY <1>1, <1>3, <1>4, <2>1, StrnlenIs
  <2>4. Min({k, z - s}) = IF z - s < k THEN z - s ELSE k
    <3> DEFINE e == IF z - s < k THEN z - s ELSE k
    <3>1. e \in {k, z - s} /\ {k, z - s} \in SUBSET Int /\ \A a \in {k, z - s} : e <= a
      BY <1>1, <1>7
    <3> HIDE DEF e
    <3>2. Min({k, z - s}) = e
      BY <3>1, MinIs
    <3> QED BY <3>2 DEF e
  <2> QED BY <1>6, <2>2, <2>3, <2>4
<1>11. CASE fn = "strpbrk"
  <2> DEFINE accept == {c, k} \ {0}
             S == {a \in Address : s <= a /\ a < Nul(s) /\ before[a] \in accept}
  <2>1. ret = strpbrk(before, s, accept)
    BY <1>1, <1>11, Zenon DEF SearchResult
  <2>2. SearchesFind <=> ret = Least(S)
    BY <1>11 DEF SearchesFind, s, c, k, fn
  <2>3. 0 \notin accept
    OBVIOUS
  <2>7. S = {a \in s..z-1 : before[a] \in accept}
    BY <1>3, <1>6
  <2> HIDE DEF accept, S
  <2>4. \/ ret = NULL /\ \A a \in s..z-1 : before[a] \notin accept
        \/ ret \in s..z-1 /\ before[ret] \in accept /\ \A a \in s..ret-1 : before[a] \notin accept
    BY <1>3, <1>4, <2>1, <2>3, StrpbrkIs
  <2>5. S \in SUBSET Int /\ S \subseteq s..z-1 /\ z-1 \in Int
    BY <1>3, <2>7
  <2>6. \/ ret = NULL /\ S = {}
        \/ ret \in S /\ \A a \in s..ret-1 : a \notin S
    BY <2>4, <2>7
  <2> QED BY <1>3, <2>2, <2>5, <2>6, FirstFound
<1>12. CASE fn \in {"strcmp", "strncmp"}
  <2> DEFINE whole(a) == Append(String(a), 0)
             short == IF z - s <= y - t THEN (z - s) + 1 ELSE (y - t) + 1
  <2>1. Len(whole(s)) = (z - s) + 1 /\ Len(whole(t)) = (y - t) + 1
    <3>1. String(s) = Bytes(s, z - s) /\ String(t) = Bytes(t, y - t)
      BY <1>6 DEF String
    <3>4. s + (z - s) <= L + 1 /\ t + (y - t) <= L + 1
      BY <1>3
    <3>2. Bytes(s, z - s) \in Seq(Byte) /\ Len(Bytes(s, z - s)) = z - s
      BY <1>3, <1>7, <3>4, BytesIs, Zenon
    <3>3. Bytes(t, y - t) \in Seq(Byte) /\ Len(Bytes(t, y - t)) = y - t
      BY <1>3, <1>7, <3>4, BytesIs, Zenon
    <3> QED BY <3>1, <3>2, <3>3
  <2> HIDE DEF whole
  <2>2. Min({Len(whole(s)), Len(whole(t))}) = short
    <3>1. /\ short \in {Len(whole(s)), Len(whole(t))} /\ {Len(whole(s)), Len(whole(t))} \in SUBSET Int
          /\ \A a \in {Len(whole(s)), Len(whole(t))} : short <= a
      BY <1>7, <2>1
    <3> HIDE DEF short
    <3> QED BY <3>1, MinIs
  <2>3. short \in Nat
    BY <1>7
  <2>4. ASSUME NEW l \in Nat PROVE Order(Bytes(s, l), Bytes(t, l)) = RunOrder(before, s, t, l)
    BY DEF Bytes, RunOrder
  <2>5. CASE fn = "strcmp"
    <3>1. ret = strncmp(before, s, t, Left(before, s))
      BY <1>1, <2>5, Zenon DEF SearchResult, strcmp
    <3>2. SearchesFind <=> Sign(ret) = Order(Bytes(s, short), Bytes(t, short))
      BY <2>2, <2>5 DEF SearchesFind, s, t, fn, whole
    <3>3. Left(before, s) = (L + 1) - s /\ Left(before, s) \in Nat
      BY <1>3, LeftIs
    <3>4. short <= Left(before, s)
      BY <1>3, <1>7, <3>3
    <3>5. Sign(strncmp(before, s, t, Left(before, s))) = RunOrder(before, s, t, short)
      BY <1>3, <1>4, <1>5, <3>3, <3>4, StringOrder
    <3> HIDE DEF short
    <3> QED BY <2>3, <2>4, <3>1, <3>2, <3>5
  <2>6. CASE fn = "strncmp"
    <3> DEFINE l == IF short <= k THEN short ELSE k
    <3>1. ret = strncmp(before, s, t, k)
      BY <1>1, <2>6, Zenon DEF SearchResult
    <3>3. Min({short, k}) = l
      <4>1. l \in {short, k} /\ {short, k} \in SUBSET Int /\ \A a \in {short, k} : l <= a
        BY <1>1, <2>3
      <4> HIDE DEF l, short
      <4> QED BY <4>1, MinIs
    <3>2. SearchesFind <=> Sign(ret) = Order(Bytes(s, l), Bytes(t, l))
      <4> HIDE DEF l, short
      <4> QED BY <2>2, <2>6, <3>3 DEF SearchesFind, s, t, k, fn, whole
    <3>4. l \in Nat
      BY <1>1, <2>3
    <3>5. Sign(strncmp(before, s, t, k)) = RunOrder(before, s, t, l)
      BY <1>1, <1>3, <1>4, <1>5, StringOrder, SMTT(30)
    <3> HIDE DEF l
    <3> QED BY <2>4, <3>1, <3>2, <3>4, <3>5
  <2> QED BY <1>12, <2>5, <2>6
<1> QED BY <1>8, <1>9, <1>10, <1>11, <1>12 DEF fn

(* Every search returns the first place (memrchr: the last) where what it  *)
(* looks for is, NULL only if it is nowhere, and every comparison the      *)
(* order of the first bytes that differ, in every memory.                  *)
THEOREM SearchesAreExact == Spec => []SearchesFind
<1>1. SearchCalled => SearchesFind
  <2> SUFFICES ASSUME SearchCalled PROVE SearchesFind
    OBVIOUS
  <2>1. CASE call.fn \notin SearchFns
    BY <2>1 DEF SearchesFind, SearchFns
  <2> QED BY <2>1, SearchesInMemory, SearchesInStrings DEF SearchFns
<1> QED BY <1>1, SearchCalledHolds, PTL

(***************************************************************************)
(* Copies.                                                                 *)
(***************************************************************************)

(* How far a copy goes: up to the first c, or k bytes. *)
CopiesTo(m, src, c, k, e) ==
  /\ e \in 0..k
  /\ \A j \in 0..e-1 : m[src + j] # c
  /\ e < k => m[src + e] = c

LEMMA CopiedBeforeIs ==
  ASSUME NEW L \in Nat, NEW m, Holds(m, L), NEW dst \in Nat, NEW src \in Nat, NEW c, NEW k \in Nat,
         NEW e \in 0..k, CopiesTo(m, src, c, k, e),
         NEW w \in Nat, w = IF e < k THEN e + 1 ELSE k,
         dst + w <= L + 1, src + w <= L + 1, dst <= src \/ src + w <= dst
  PROVE  CopiedBefore(m, dst, src, c, k) = e
<1> DEFINE stop == {j \in Offsets(m, dst, k) \cap Offsets(m, src, k) : MovesUp(m, dst, src, j + 1)[dst + j] = c}
<1>1. m \in [0..L -> Byte] /\ DOMAIN m = 0..L
  BY DEF Holds
<1>2. ASSUME NEW j \in 0..w-1 PROVE j \in stop <=> m[src + j] = c
  <2>1. MovesUp(m, dst, src, j + 1) = Copied(m, dst, src, j + 1)
    <3>1. j + 1 \in Nat /\ dst + (j + 1) <= L + 1 /\ src + (j + 1) <= L + 1
      OBVIOUS
    <3>2. dst <= src \/ src + (j + 1) <= dst
      OBVIOUS
    <3> HIDE DEF stop
    <3> QED BY <1>1, <3>1, <3>2, MovesUpIs
  <2>2. dst + j \in 0..L /\ src + j \in 0..L /\ j \in 0..k-1
    OBVIOUS
  <2>3. (dst + j) - dst + src = src + j /\ dst <= dst + j /\ dst + j < dst + (j + 1)
    OBVIOUS
  <2>4. Copied(m, dst, src, j + 1)[dst + j] = m[src + j]
    BY <1>1, <2>2, <2>3 DEF Copied
  <2>5. j \in Offsets(m, dst, k) \cap Offsets(m, src, k)
    BY <1>1, <2>2 DEF Offsets
  <2> QED BY <2>1, <2>4, <2>5
<1>3. e = k \/ e \in stop
  <2> SUFFICES ASSUME e # k PROVE e \in stop
    OBVIOUS
  <2>1. e \in 0..w-1 /\ m[src + e] = c
    BY DEF CopiesTo
  <2> QED BY <1>2, <2>1
<1>4. ASSUME NEW j \in 0..e-1 PROVE j \notin stop
  <2>1. j \in 0..w-1 /\ m[src + j] # c
    BY DEF CopiesTo
  <2> QED BY <1>2, <2>1
<1> HIDE DEF stop
<1>5. Steps(stop, k) = e
  BY <1>3, <1>4, StepsTo
<1> QED BY <1>5 DEF CopiedBefore, stop

LEMMA CopyEnds ==
  ASSUME NEW m, NEW src \in Nat, NEW c, NEW k \in Nat
  PROVE  \E e \in 0..k : CopiesTo(m, src, c, k, e)
<1> DEFINE S == {j \in 0..k : j = k \/ m[src + j] = c}
<1>1. k \in S /\ S \subseteq Nat
  OBVIOUS
<1>2. PICK e \in S : \A j \in S : e <= j
  <2> HIDE DEF S
  <2> QED BY <1>1, LeastNatural
<1>3. CopiesTo(m, src, c, k, e)
  BY <1>2 DEF CopiesTo
<1> QED BY <1>2, <1>3

(* x is m with a text of k bytes at dst. *)
Laid(x, m, dst, text, k) ==
  x = [a \in DOMAIN m |-> IF dst <= a /\ a < dst + k THEN text[a - dst + 1] ELSE m[a]]

LEMMA StoredIs ==
  ASSUME NEW L \in Nat, Address = 0..L, DOMAIN before = 0..L, NEW dst \in Nat, NEW k \in Nat,
         NEW text, DOMAIN text = 1..k, NEW x, Laid(x, before, dst, text, k)
  PROVE  x = Stored(dst, text)
<1>1. ASSUME NEW a \in 0..L PROVE a - dst + 1 \in DOMAIN text <=> dst <= a /\ a < dst + k
  OBVIOUS
<1>2. x = [a \in 0..L |-> IF a - dst + 1 \in DOMAIN text THEN text[a - dst + 1] ELSE before[a]]
  BY <1>1 DEF Laid
<1> QED BY <1>2 DEF Stored

LEMMA CopiedIsStored ==
  ASSUME NEW L \in Nat, Address = 0..L, Holds(before, L), NEW dst \in Nat, NEW src \in Nat, NEW k \in Nat,
         NEW text, DOMAIN text = 1..k, \A i \in 1..k : text[i] = before[src + i - 1]
  PROVE  Copied(before, dst, src, k) = Stored(dst, text)
<1>1. DOMAIN before = 0..L
  BY DEF Holds
<1>2. ASSUME NEW a \in 0..L, dst <= a /\ a < dst + k PROVE before[a - dst + src] = text[a - dst + 1]
  <2>1. a - dst + 1 \in 1..k /\ src + (a - dst + 1) - 1 = a - dst + src
    BY <1>2
  <2> QED BY <2>1
<1>3. Laid(Copied(before, dst, src, k), before, dst, text, k)
  BY <1>1, <1>2 DEF Copied, Laid
<1>4. Address = 0..L /\ DOMAIN text = 1..k
  OBVIOUS
<1> QED BY ONLY <1>1, <1>3, <1>4, StoredIs

MemoryResult(m, fn, dst, src, c, k) ==
  CASE fn = "memmove" -> memmove(m, dst, src, k)
    [] fn = "memcpy"  -> memcpy(m, dst, src, k)
    [] fn = "memswap" -> memswap(m, dst, src, k)
    [] fn = "memset"  -> memset(m, dst, c, k)
    [] fn = "memccpy" -> memccpy(m, dst, src, c, k).mem
CopyAt(m, fn, dst) == IF fn \in {"strcat", "strncat"} THEN strchr(m, dst, 0) ELSE dst
CopyLength(m, fn, src, k) ==
  CASE fn = "strncpy" -> k [] fn = "strncat" -> strnlen(m, src, k) + 1 [] OTHER -> strlen(m, src) + 1
CopyResult(m, fn, at, dst, src, k) ==
  CASE fn \in {"strcpy", "strcat"} -> strcpy(m, at, src)
    [] fn = "strncpy" -> strncpy(m, dst, src, k)
    [] fn = "strncat" -> CopiesUntilNul(m, at, src, k)

(* What a copying call leaves behind. *)
CopyCalled ==
  LET all == Cardinality(DOMAIN before)
      fn == call.fn
      dst == call.dst
      src == call.src
      k == call.k IN
  /\ fn \in MemoryFns \cup CopyFns =>
       IsMemory(before) /\ dst \in DOMAIN before /\ src \in DOMAIN before /\ k \in Nat
  /\ fn \in MemoryFns =>
       /\ dst + k <= all /\ src + k <= all
       /\ fn \notin {"memmove", "memset"} => Apart(dst, k, src, k)
       /\ mem = MemoryResult(before, fn, dst, src, call.c, k)
       /\ fn = "memccpy" => ret = memccpy(before, dst, src, call.c, k).ret
  /\ fn \in CopyFns =>
       LET at == CopyAt(before, fn, dst)
           written == CopyLength(before, fn, src, k) IN
       /\ at + written <= all
       /\ Apart(dst, at - dst + written, src, strlen(before, src) + 1)
       /\ mem = CopyResult(before, fn, at, dst, src, k)

LEMMA MemoryCalledStep ==
  ASSUME IsMemory(mem), NEW fn \in MemoryFns, NEW dst \in Address, NEW src \in Address \cup {0}, NEW c,
         NEW k \in Length, call_memory(fn, dst, src, c, k)
  PROVE  CopyCalled'
<1>1. dst \in Address /\ src \in Address /\ k \in Nat
  BY NumbersOf
<1>2. call' = [fn |-> fn, dst |-> dst, src |-> src, c |-> c, k |-> k] /\ before' = mem
  BY Zenon DEF call_memory, Called
<1>3. mem' = MemoryResult(mem, fn, dst, src, c, k)
  BY Zenon DEF call_memory, Called, MemoryResult
<1>6. fn = "memccpy" => ret' = memccpy(mem, dst, src, c, k).ret
  BY Zenon DEF call_memory, Called
<1>4. Fits(dst, k) /\ Fits(src, k) /\ (fn \notin {"memmove", "memset"} => Apart(dst, k, src, k))
  BY Zenon DEF call_memory
<1>5. call'.fn = fn /\ call'.dst = dst /\ call'.src = src /\ call'.c = c /\ call'.k = k
  BY <1>2
<1>7. fn \notin CopyFns
  BY DEF MemoryFns, CopyFns
<1> QED BY <1>1, <1>2, <1>3, <1>4, <1>5, <1>6, <1>7 DEF CopyCalled, Address, Fits, IsMemory, Apart

LEMMA CopyCalledStep ==
  ASSUME IsMemory(mem), NEW fn \in CopyFns, NEW dst \in Address, NEW src \in Address, NEW k \in Length,
         call_string_copy(fn, dst, src, k)
  PROVE  CopyCalled'
<1> DEFINE at == CopyAt(mem, fn, dst)
           written == CopyLength(mem, fn, src, k)
<1>1. dst \in Address /\ src \in Address /\ k \in Nat
  BY NumbersOf
<1>2. call' = [fn |-> fn, dst |-> dst, src |-> src, k |-> k] /\ before' = mem
  BY Zenon DEF call_string_copy, Called
<1>3. mem' = CopyResult(mem, fn, at, dst, src, k)
  BY Zenon DEF call_string_copy, Called, CopyResult, CopyAt
<1>4. Fits(at, written) /\ Apart(dst, at - dst + written, src, strlen(mem, src) + 1)
  BY Zenon DEF call_string_copy, CopyAt, CopyLength
<1>5. call'.fn = fn /\ call'.dst = dst /\ call'.src = src /\ call'.k = k
  BY <1>2
<1>7. fn \notin MemoryFns
  BY DEF MemoryFns, CopyFns
<1>8. at + written <= Cardinality(DOMAIN mem)
  BY <1>4 DEF Fits
<1> QED BY <1>1, <1>2, <1>3, <1>4, <1>5, <1>7, <1>8 DEF CopyCalled, Address, IsMemory, Apart

LEMMA CopyCalledHolds == Spec => []CopyCalled
<1>1. Init => CopyCalled
  BY DEF Init, CopyCalled, MemoryFns, CopyFns
<1>2. CallInv /\ CopyCalled /\ [Next]_vars => CopyCalled'
  <2> SUFFICES ASSUME CallInv, CopyCalled, [Next]_vars PROVE CopyCalled'
    OBVIOUS
  <2>1. CASE Formatting
    BY <2>1 DEF Formatting, CopyCalled, string_vars, IsMemory, Apart
  <2>2. CASE Fills
    BY <2>2 DEF Fills, CallInv, CopyCalled, MemoryFns, CopyFns, NoJob
  <2>3. CASE CallsString \/ CallsStringToNul
    <3>1. job.kind = "memory" /\ call.fn = "none"
      BY <2>3 DEF CallsString, CallsStringToNul
    <3>2. IsMemory(mem) /\ 0 \in Length
      BY <3>1, ZeroLength DEF CallInv
    <3>3. ASSUME NEW fn \in SearchFns, NEW s, NEW t, NEW c, NEW k, call_search(fn, s, t, c, k)
          PROVE  CopyCalled'
      <4>1. call' = [fn |-> fn, s |-> s, t |-> t, c |-> c, k |-> k]
        BY <3>3, Zenon DEF call_search, Called
      <4> QED BY <4>1 DEF CopyCalled, SearchFns, MemoryFns, CopyFns
    <3> QED BY <2>3, <3>2, <3>3, StringCall, MemoryCalledStep, CopyCalledStep, Zenon
  <2>4. CASE CallsCtype
    <3>1. call'.fn = "ctype"
      BY <2>4 DEF CallsCtype, call_ctype, Called
    <3> QED BY <3>1 DEF CopyCalled, MemoryFns, CopyFns
  <2>5. CASE CallsStrtok
    <3>1. call'.fn = "strtok"
      BY <2>5 DEF CallsStrtok, strtok
    <3> QED BY <3>1 DEF CopyCalled, MemoryFns, CopyFns
  <2> QED BY <2>1, <2>2, <2>3, <2>4, <2>5, StepOfProgram
<1> QED BY <1>1, <1>2, CallInvHolds, PTL DEF Spec

LEMMA MinOf ==
  ASSUME NEW a \in Int, NEW b \in Int
  PROVE  Min({a, b}) = IF a <= b THEN a ELSE b
<1> DEFINE e == IF a <= b THEN a ELSE b
<1>1. e \in {a, b} /\ {a, b} \in SUBSET Int /\ \A c \in {a, b} : e <= c
  OBVIOUS
<1> HIDE DEF e
<1>2. Min({a, b}) = e
  BY <1>1, MinIs
<1> QED BY <1>2 DEF e

(* memmove, memcpy, memswap, memset and memccpy. *)
LEMMA CopiesInMemory ==
  ASSUME CopyCalled, call.fn \in MemoryFns
  PROVE  CopiesExact
<1> DEFINE dst == call.dst
           src == call.src
           c == call.c
           k == call.k
           fn == call.fn
<1>1. /\ IsMemory(before) /\ dst \in DOMAIN before /\ src \in DOMAIN before /\ k \in Nat
      /\ dst + k <= Cardinality(DOMAIN before) /\ src + k <= Cardinality(DOMAIN before)
      /\ fn \notin {"memmove", "memset"} => Apart(dst, k, src, k)
      /\ mem = MemoryResult(before, fn, dst, src, c, k)
      /\ fn = "memccpy" => ret = memccpy(before, dst, src, c, k).ret
  BY DEF CopyCalled
<1>2. PICK L \in Nat : /\ before \in [0..L -> Byte] /\ before[L] = 0 /\ DOMAIN before = 0..L
                       /\ Cardinality(DOMAIN before) = L + 1
  BY <1>1, MemoryIs
<1>3. /\ Holds(before, L) /\ dst \in 0..L /\ src \in 0..L /\ dst + k <= L + 1 /\ src + k <= L + 1
      /\ dst \in Nat /\ src \in Nat
      /\ fn \notin {"memmove", "memset"} => dst + k <= src \/ src + k <= dst
  BY <1>1, <1>2 DEF Holds, Apart
<1> HIDE DEF dst, src, c, k, fn
<1>4. DOMAIN Bytes(src, k) = 1..k /\ \A i \in 1..k : Bytes(src, k)[i] = before[src + i - 1]
  <2>1. L \in Nat /\ Holds(before, L) /\ src \in Nat /\ k \in Nat /\ src + k <= L + 1
    BY <1>1, <1>3
  <2> QED BY ONLY <2>1, BytesIs
<1>5. CASE fn \in {"memmove", "memcpy"}
  <2>1. mem = Copied(before, dst, src, k)
    <3>1. CASE fn = "memcpy" \/ dst < src
      <4>1. mem = MovesUp(before, dst, src, k)
        BY <1>1, <1>5, <3>1, Zenon DEF MemoryResult, memcpy, memmove
      <4>2. dst <= src \/ src + k <= dst
        BY <1>1, <1>3, <3>1
      <4> QED BY <1>1, <1>2, <1>3, <4>1, <4>2, MovesUpIs
    <3>2. CASE fn = "memmove" /\ ~(dst < src)
      <4>1. mem = MovesDown(before, dst, src, k)
        BY <1>1, <3>2, Zenon DEF MemoryResult, memmove
      <4>2. src <= dst
        BY <1>3, <3>2
      <4> QED BY <1>1, <1>2, <1>3, <4>1, <4>2, MovesDownIs
    <3> QED BY <1>5, <3>1, <3>2
  <2>2. Address = 0..L
    BY <1>2, <2>1 DEF Address, Copied
  <2>4. dst \in Nat /\ src \in Nat /\ k \in Nat /\ Holds(before, L)
    BY <1>1, <1>3
  <2>3. mem = Stored(dst, Bytes(src, k))
    BY ONLY <1>4, <2>1, <2>2, <2>4, CopiedIsStored
  <2> QED BY <1>5, <2>3 DEF CopiesExact, dst, src, k, fn
<1>6. CASE fn = "memswap"
  <2>1. mem = memswap(before, dst, src, k)
    BY <1>1, <1>6, Zenon DEF MemoryResult
  <2>2. mem = Swapped(before, dst, src, k)
    BY <1>1, <1>2, <1>3, <1>6, <2>1, MemswapIs
  <2>3. Address = 0..L
    BY <1>2, <2>2 DEF Address, Swapped
  <2>4. mem = [a \in 0..L |-> IF dst <= a /\ a < dst + k THEN before[a - dst + src]
                              ELSE IF src <= a /\ a < src + k THEN before[a - src + dst] ELSE before[a]]
    BY <1>2, <2>2 DEF Swapped
  <2>5. ASSUME NEW a \in 0..L
        PROVE  /\ a \in dst..dst+k-1 <=> dst <= a /\ a < dst + k
               /\ a \in src..src+k-1 <=> src <= a /\ a < src + k
    BY <1>1, <1>3
  <2>6. mem = [a \in Address |-> IF a \in dst..dst+k-1 THEN before[a - dst + src]
                                 ELSE IF a \in src..src+k-1 THEN before[a - src + dst] ELSE before[a]]
    BY <2>3, <2>4, <2>5
  <2> QED BY <1>6, <2>6 DEF CopiesExact, dst, src, k, fn
<1>7. CASE fn = "memset"
  <2> DEFINE text == [i \in 1..k |-> c]
  <2>1. mem = [a \in 0..L |-> IF dst <= a /\ a < dst + k THEN c ELSE before[a]]
    BY <1>1, <1>2, <1>7, Zenon DEF MemoryResult, memset
  <2>2. Address = 0..L
    BY <2>1 DEF Address
  <2>3. DOMAIN text = 1..k /\ \A i \in 1..k : text[i] = c
    OBVIOUS
  <2> HIDE DEF text
  <2>4. Laid(mem, before, dst, text, k)
    <3>1. \A a \in 0..L : dst <= a /\ a < dst + k => a - dst + 1 \in 1..k
      BY <1>1, <1>3
    <3> QED BY <1>2, <2>1, <2>3, <3>1 DEF Laid
  <2>5. k \in Nat /\ dst \in Nat /\ DOMAIN before = 0..L
    BY <1>1, <1>2, <1>3
  <2>6. mem = Stored(dst, text)
    BY ONLY <2>2, <2>3, <2>4, <2>5, StoredIs
  <2> QED BY <1>7, <2>6 DEF CopiesExact, dst, c, k, fn, text
<1>8. CASE fn = "memccpy"
  <2>1. PICK e \in 0..k : CopiesTo(before, src, c, k, e)
    BY <1>1, <1>3, CopyEnds
  <2> DEFINE w == IF e < k THEN e + 1 ELSE k
             S == {a \in Address : src <= a /\ a < src + k /\ before[a] = c}
  <2>2. w \in Nat /\ w <= k /\ dst + w <= L + 1 /\ src + w <= L + 1 /\ (dst <= src \/ src + w <= dst)
    BY <1>1, <1>3, <1>8
  <2>3. CopiedBefore(before, dst, src, c, k) = e
    <3> HIDE DEF S
    <3>1. PICK v \in Nat : v = w
      BY <2>2
    <3>2. v = IF e < k THEN e + 1 ELSE k
      BY <3>1
    <3>3. dst + v <= L + 1 /\ src + v <= L + 1 /\ (dst <= src \/ src + v <= dst)
      BY <2>2, <3>1
    <3> HIDE DEF w
    <3> QED BY <1>1, <1>3, <2>1, <3>2, <3>3, CopiedBeforeIs
  <2>4. mem = MovesUp(before, dst, src, w) /\ ret = IF e = k THEN NULL ELSE dst + e + 1
    <3>1. memccpy(before, dst, src, c, k) = IF e = k THEN [mem |-> MovesUp(before, dst, src, k), ret |-> NULL]
                                            ELSE [mem |-> MovesUp(before, dst, src, e + 1), ret |-> dst + e + 1]
      BY <2>3, Zenon DEF memccpy
    <3>2. mem = memccpy(before, dst, src, c, k).mem /\ ret = memccpy(before, dst, src, c, k).ret
      BY <1>1, <1>8, Zenon DEF MemoryResult
    <3>3. CASE e = k
      BY <1>1, <3>1, <3>2, <3>3
    <3>4. CASE e # k
      <4>1. w = e + 1
        BY <1>1, <3>4
      <4>2. memccpy(before, dst, src, c, k) = [mem |-> MovesUp(before, dst, src, e + 1), ret |-> dst + e + 1]
        BY <3>1, <3>4, Zenon
      <4>3. mem = MovesUp(before, dst, src, e + 1) /\ ret = dst + e + 1
        BY <3>2, <4>2
      <4> HIDE DEF w, S
      <4> QED BY <3>4, <4>1, <4>3
    <3> QED BY <3>3, <3>4
  <2> HIDE DEF w
  <2>5. mem = Copied(before, dst, src, w)
    BY <1>2, <1>3, <2>2, <2>4, MovesUpIs
  <2>6. Address = 0..L
    BY <1>2, <2>5 DEF Address, Copied
  <2>7. DOMAIN Bytes(src, w) = 1..w /\ \A i \in 1..w : Bytes(src, w)[i] = before[src + i - 1]
    BY <1>3, <2>2, BytesIs, SMTT(30)
  <2>8. mem = Stored(dst, Bytes(src, w))
    BY <1>3, <2>2, <2>5, <2>6, <2>7, CopiedIsStored
  <2>9. CopiesExact <=> IF Least(S) = NULL THEN ret = NULL /\ mem = Stored(dst, Bytes(src, k))
                        ELSE ret = dst + (Least(S) - src) + 1 /\ mem = Stored(dst, Bytes(src, Least(S) - src + 1))
    BY <1>8 DEF CopiesExact, dst, src, c, k, fn
  <2>10. S = {a \in 0..L : src <= a /\ a < src + k /\ before[a] = c}
    BY <2>6
  <2> HIDE DEF S
  <2>11. CASE e = k
    <3>1. S = {}
      <4> SUFFICES ASSUME NEW a \in S PROVE FALSE
        OBVIOUS
      <4>1. a - src \in 0..e-1 /\ src + (a - src) = a
        BY <1>1, <1>3, <2>10, <2>11
      <4> QED BY <2>1, <2>10, <4>1 DEF CopiesTo
    <3>2. Least(S) = NULL
      BY <3>1 DEF Least
    <3>3. w = k
      BY <2>11 DEF w
    <3> QED BY <2>4, <2>8, <2>9, <2>11, <3>2, <3>3
  <2>12. CASE e # k
    <3>1. src + e \in S /\ e \in 0..k-1
      BY <1>1, <1>3, <2>1, <2>10, <2>12 DEF CopiesTo
    <3>2. S \in SUBSET Int
      BY <2>10
    <3>3. ASSUME NEW a \in S PROVE src + e <= a
      <4> SUFFICES ASSUME ~(src + e <= a) PROVE FALSE
        OBVIOUS
      <4>1. a - src \in 0..e-1 /\ src + (a - src) = a
        BY <1>1, <1>3, <2>10, <3>1
      <4> QED BY <2>1, <2>10, <4>1 DEF CopiesTo
    <3>4. Least(S) = src + e
      BY <3>1, <3>2, <3>3, LeastIs
    <3>5. src + e # NULL /\ (src + e) - src = e /\ dst + e + 1 = dst + ((src + e) - src) + 1
      BY <1>3, <3>1 DEF NULL
    <3>6. w = e + 1
      BY <1>1, <3>1 DEF w
    <3> QED BY <2>4, <2>8, <2>9, <2>12, <3>4, <3>5, <3>6
  <2> QED BY <2>11, <2>12
<1> QED BY <1>5, <1>6, <1>7, <1>8 DEF fn, MemoryFns

(* A copy up to a NUL that is within reach, or of k bytes without one. *)
LEMMA CopiesAll ==
  ASSUME NEW L \in Nat, NEW m, Holds(m, L), NEW dst \in Nat, NEW src \in Nat, NEW k \in Nat,
         NEW e \in 0..k, CopiesTo(m, src, 0, k, e),
         NEW w \in Nat, w = IF e < k THEN e + 1 ELSE k,
         dst + w <= L + 1, src + w <= L + 1, dst <= src \/ src + w <= dst
  PROVE  CopiedBefore(m, dst, src, 0, k) = e /\ MovesUp(m, dst, src, w) = Copied(m, dst, src, w)
<1>1. CopiedBefore(m, dst, src, 0, k) = e
  BY CopiedBeforeIs
<1>2. m \in [0..L -> Byte]
  BY DEF Holds
<1> QED BY <1>1, <1>2, MovesUpIs

(* Where a string of e characters ends. *)
LEMMA StringCopies ==
  ASSUME NEW L \in Nat, NEW m, Holds(m, L), NEW src \in 0..L, NEW z, EndsAt(m, L, src, z), NEW k \in Nat
  PROVE  CopiesTo(m, src, 0, k, IF z - src < k THEN z - src ELSE k)
<1>1. z \in src..L /\ z - src \in Nat /\ src + (z - src) = z
  BY DEF EndsAt
<1>2. \A j \in 0..(z-src)-1 : src + j \in src..z-1
  BY <1>1
<1>3. \A j \in 0..(z-src)-1 : m[src + j] # 0
  BY <1>2 DEF EndsAt
<1>4. m[src + (z - src)] = 0
  BY <1>1 DEF EndsAt
<1>5. CASE z - src < k
  BY <1>1, <1>3, <1>4, <1>5 DEF CopiesTo
<1>6. CASE ~(z - src < k)
  <2>1. \A j \in 0..k-1 : j \in 0..(z-src)-1
    BY <1>1, <1>6
  <2> QED BY <1>3, <1>6, <2>1 DEF CopiesTo
<1> QED BY <1>5, <1>6

LEMMA StringBytes ==
  ASSUME NEW L \in Nat, Holds(before, L), Address = 0..L, NEW s \in 0..L, NEW z, EndsAt(before, L, s, z)
  PROVE  /\ String(s) \in Seq(Byte) /\ Len(String(s)) = z - s
         /\ \A i \in 1..z-s : String(s)[i] = before[s + i - 1]
<1>1. PICK d \in Nat : d = z - s
  BY DEF EndsAt
<1>2. s + d <= L + 1 /\ s \in Nat
  BY <1>1 DEF EndsAt
<1>3. String(s) = Bytes(s, d)
  BY <1>1, NulIs DEF String
<1>4. Bytes(s, d) \in Seq(Byte) /\ Len(Bytes(s, d)) = d /\ \A i \in 1..d : Bytes(s, d)[i] = before[s + i - 1]
  BY <1>2, BytesIs
<1> QED BY <1>1, <1>3, <1>4

LEMMA JoinedIs ==
  ASSUME NEW u \in Seq(Byte), NEW v \in Seq(Byte)
  PROVE  /\ u \o v \in Seq(Byte) /\ Len(u \o v) = Len(u) + Len(v)
         /\ \A i \in 1..Len(u)+Len(v) : (u \o v)[i] = IF i <= Len(u) THEN u[i] ELSE v[i - Len(u)]
OBVIOUS

(* A string cut to k bytes or filled with zeros up to there. *)
LEMMA PaddedText ==
  ASSUME NEW str \in Seq(Byte), NEW k \in Nat, NEW e \in Nat, e = IF Len(str) < k THEN Len(str) ELSE k
  PROVE  LET text == SubSeq(str \o [i \in 1..k |-> 0], 1, k) IN
         DOMAIN text = 1..k /\ \A i \in 1..k : text[i] = IF i <= e THEN str[i] ELSE 0
<1>1. PICK zeros : zeros = [i \in 1..k |-> 0]
  OBVIOUS
<1>2. zeros \in Seq(Byte) /\ Len(zeros) = k /\ \A i \in 1..k : zeros[i] = 0
  <2>1. zeros \in [1..k -> Byte]
    BY <1>1 DEF Byte
  <2> QED BY <1>1, <2>1
<1>3. PICK both : both = str \o zeros
  OBVIOUS
<1>4. /\ both \in Seq(Byte) /\ Len(both) = Len(str) + k
      /\ \A i \in 1..Len(str)+k : both[i] = IF i <= Len(str) THEN str[i] ELSE zeros[i - Len(str)]
  BY <1>2, <1>3, JoinedIs
<1>5. PICK text : text = SubSeq(both, 1, k)
  OBVIOUS
<1>6. DOMAIN text = 1..k /\ \A i \in 1..k : text[i] = both[i]
  BY <1>4, <1>5
<1>7. ASSUME NEW i \in 1..k PROVE text[i] = IF i <= e THEN str[i] ELSE 0
  <2>1. i \in 1..Len(str)+k /\ (i <= Len(str) <=> i <= e) /\ (~(i <= e) => i - Len(str) \in 1..k)
    OBVIOUS
  <2> QED BY <1>2, <1>4, <1>6, <2>1
<1> QED BY <1>1, <1>3, <1>5, <1>6, <1>7

(* strcpy and strcat write the whole string at dst or after dst's own.     *)
LEMMA WholeCopied ==
  ASSUME NEW L \in Nat, Holds(before, L), NEW at \in Nat, NEW src \in 0..L, NEW z, EndsAt(before, L, src, z),
         at + ((z - src) + 1) <= L + 1, at <= src \/ src + ((z - src) + 1) <= at,
         mem = strcpy(before, at, src)
  PROVE  Address = 0..L /\ mem = Stored(at, Append(String(src), 0))
<1>1. z \in src..L /\ src \in Nat /\ z - src \in Nat
  BY DEF EndsAt
<1> DEFINE e == z - src
           w == e + 1
           k == Left(before, src)
           text == Append(String(src), 0)
<1>2. k = (L + 1) - src /\ k \in Nat
  BY LeftIs
<1>3. e \in 0..k /\ e < k /\ e \in Nat /\ w \in Nat /\ at + w <= L + 1 /\ src + w <= L + 1 /\ w = e + 1
      /\ src + e = z /\ (at <= src \/ src + w <= at) /\ w = IF e < k THEN e + 1 ELSE k
  BY <1>1, <1>2
<1>4. CopiesTo(before, src, 0, k, e)
  BY <1>2, <1>3, StringCopies
<1>8. mem = MovesUp(before, at, src, CopiedBefore(before, at, src, 0, k) + 1)
  BY Zenon DEF strcpy
<1> HIDE DEF e, w, k
<1>6. mem = Copied(before, at, src, w)
  <2>2. at \in Nat /\ src \in Nat /\ k \in Nat /\ e \in 0..k /\ w \in Nat /\ Holds(before, L) /\ L \in Nat
    BY <1>1, <1>2, <1>3
  <2>3. at + w <= L + 1 /\ src + w <= L + 1 /\ (at <= src \/ src + w <= at) /\ w = IF e < k THEN e + 1 ELSE k
    BY <1>3
  <2>1. CopiedBefore(before, at, src, 0, k) = e /\ MovesUp(before, at, src, w) = Copied(before, at, src, w)
    BY ONLY <1>4, <2>2, <2>3, CopiesAll
  <2> QED BY <1>3, <1>8, <2>1
<1>10. Address = 0..L /\ Nul(src) = z
  <2>1. Address = 0..L
    BY <1>6 DEF Address, Copied, Holds
  <2> QED BY <2>1, NulIs
<1>5. String(src) \in Seq(Byte) /\ Len(String(src)) = e /\ \A i \in 1..e : String(src)[i] = before[src + i - 1]
  BY <1>10, StringBytes DEF e
<1>7. DOMAIN text = 1..w /\ \A i \in 1..w : text[i] = before[src + i - 1]
  <2>1. Len(text) = w /\ DOMAIN text = 1..w /\ text[w] = 0 /\ \A i \in 1..e : text[i] = String(src)[i]
    BY <1>3, <1>5
  <2>2. before[src + w - 1] = 0
    BY <1>1, <1>3 DEF EndsAt
  <2> HIDE DEF text
  <2>3. ASSUME NEW i \in 1..w PROVE text[i] = before[src + i - 1]
    <3>1. i = w \/ i \in 1..e
      BY <1>3
    <3> QED BY <3>1, <1>5, <2>1, <2>2
  <2> QED BY <2>1, <2>3
<1> HIDE DEF text
<1>9. at \in Nat /\ src \in Nat /\ w \in Nat /\ Holds(before, L) /\ Address = 0..L
  BY <1>1, <1>3, <1>10
<1>11. mem = Stored(at, text)
  BY ONLY <1>6, <1>7, <1>9, CopiedIsStored
<1> QED BY <1>10, <1>11 DEF text

(* strncpy: at most k bytes, and zeros up to there. *)
ZerosAfter(text, m, src, e, k) == \A i \in 1..k : text[i] = IF i <= e THEN m[src + i - 1] ELSE 0

LEMMA PaddedIs ==
  ASSUME NEW L \in Nat, NEW m, Holds(m, L), NEW dst \in Nat, NEW src \in Nat, NEW k \in Nat, NEW e \in Nat, e < k,
         dst + k <= L + 1, m[src + e] = 0,
         NEW text, ZerosAfter(text, m, src, e, k)
  PROVE  Laid(memset(Copied(m, dst, src, e + 1), dst + e + 1, 0, k - e - 1), m, dst, text, k)
<1>1. PICK x : x = Copied(m, dst, src, e + 1)
  OBVIOUS
<1>2. x = [a \in 0..L |-> IF dst <= a /\ a < dst + (e + 1) THEN m[a - dst + src] ELSE m[a]]
  BY <1>1 DEF Copied, Holds
<1>3. memset(x, dst + e + 1, 0, k - e - 1) =
        [a \in 0..L |-> IF dst + e + 1 <= a /\ a < (dst + e + 1) + (k - e - 1) THEN 0 ELSE x[a]]
  BY <1>2 DEF memset
<1>4. ASSUME NEW a \in 0..L
      PROVE  (IF dst + e + 1 <= a /\ a < (dst + e + 1) + (k - e - 1) THEN 0 ELSE x[a])
               = IF dst <= a /\ a < dst + k THEN text[a - dst + 1] ELSE m[a]
  <2>1. CASE dst <= a /\ a < dst + e
    <3>1. a - dst + 1 \in 1..k /\ a - dst + 1 <= e /\ src + (a - dst + 1) - 1 = a - dst + src
      BY <2>1
    <3>2. text[a - dst + 1] = m[a - dst + src]
      BY <3>1 DEF ZerosAfter
    <3>3. a < dst + (e + 1) /\ ~(dst + e + 1 <= a) /\ a < dst + k
      BY <2>1
    <3> QED BY <1>2, <2>1, <3>2, <3>3
  <2>2. CASE a = dst + e
    <3>1. a - dst + 1 \in 1..k /\ ~(a - dst + 1 <= e) /\ a - dst + src = src + e
      BY <2>2
    <3>2. text[a - dst + 1] = 0
      BY <3>1 DEF ZerosAfter
    <3>3. dst <= a /\ a < dst + (e + 1) /\ ~(dst + e + 1 <= a) /\ a < dst + k
      BY <2>2
    <3> QED BY <1>2, <3>1, <3>2, <3>3
  <2>3. CASE dst + e + 1 <= a /\ a < dst + k
    <3>1. a - dst + 1 \in 1..k /\ ~(a - dst + 1 <= e)
      BY <2>3
    <3>2. text[a - dst + 1] = 0
      BY <3>1 DEF ZerosAfter
    <3>3. dst <= a /\ a < (dst + e + 1) + (k - e - 1)
      BY <2>3
    <3> QED BY <2>3, <3>2, <3>3
  <2>4. CASE a < dst \/ dst + k <= a
    <3>1. /\ ~(dst <= a /\ a < dst + (e + 1))
          /\ ~(dst + e + 1 <= a /\ a < (dst + e + 1) + (k - e - 1))
          /\ ~(dst <= a /\ a < dst + k)
      BY <2>4
    <3> QED BY <1>2, <3>1
  <2> QED BY <2>1, <2>2, <2>3, <2>4
<1> QED BY <1>1, <1>3, <1>4 DEF Laid, Holds

LEMMA PaddedCopied ==
  ASSUME NEW L \in Nat, Holds(before, L), NEW dst \in Nat, NEW src \in 0..L, NEW z, EndsAt(before, L, src, z),
         NEW k \in Nat, dst + k <= L + 1, dst + k <= src \/ src + ((z - src) + 1) <= dst,
         mem = strncpy(before, dst, src, k)
  PROVE  Address = 0..L /\ mem = Stored(dst, SubSeq(String(src) \o [i \in 1..k |-> 0], 1, k))
<1>1. z \in src..L /\ src \in Nat /\ z - src \in Nat
  BY DEF EndsAt
<1> DEFINE e == IF z - src < k THEN z - src ELSE k
           w == IF e < k THEN e + 1 ELSE k
           text == SubSeq(String(src) \o [i \in 1..k |-> 0], 1, k)
<1>2. CopiesTo(before, src, 0, k, e)
  BY StringCopies
<1>3. /\ e \in 0..k /\ e \in Nat /\ w \in Nat /\ w <= k /\ dst + w <= L + 1 /\ src + w <= L + 1
      /\ dst <= src \/ src + w <= dst
      /\ e <= z - src
      /\ e = k \/ e = z - src
      /\ w = IF e < k THEN e + 1 ELSE k
  BY <1>1
<1> HIDE DEF e, w, text
<1>6. CopiedBefore(before, dst, src, 0, k) = e /\ MovesUp(before, dst, src, w) = Copied(before, dst, src, w)
  <2>2. dst \in Nat /\ src \in Nat /\ k \in Nat /\ e \in 0..k /\ w \in Nat /\ Holds(before, L) /\ L \in Nat
    BY <1>1, <1>3
  <2> QED BY ONLY <1>2, <1>3, <2>2, CopiesAll
<1>7. mem = IF e = k THEN MovesUp(before, dst, src, k)
            ELSE memset(MovesUp(before, dst, src, e + 1), dst + e + 1, 0, k - e - 1)
  BY <1>6, Zenon DEF strncpy
<1>8. Copied(before, dst, src, w) = [a \in 0..L |-> IF dst <= a /\ a < dst + w THEN before[a - dst + src] ELSE before[a]]
  BY DEF Copied, Holds
<1>10. Address = 0..L /\ Nul(src) = z
  <2>1. CASE e = k
    <3>1. w = k
      BY <1>3, <2>1
    <3>2. Address = 0..L
      BY <1>6, <1>7, <1>8, <2>1, <3>1 DEF Address
    <3> QED BY <3>2, NulIs
  <2>2. CASE e # k
    <3>1. w = e + 1
      BY <1>3, <2>2
    <3>2. mem = memset(Copied(before, dst, src, w), dst + e + 1, 0, k - e - 1)
      BY <1>6, <1>7, <2>2, <3>1, Zenon
    <3>3. Address = 0..L
      BY <1>8, <3>2 DEF Address, memset
    <3> QED BY <3>3, NulIs
  <2> QED BY <2>1, <2>2
<1>4. /\ String(src) \in Seq(Byte) /\ Len(String(src)) = z - src
      /\ \A i \in 1..z-src : String(src)[i] = before[src + i - 1]
  BY <1>10, StringBytes
<1>5. DOMAIN text = 1..k /\ ZerosAfter(text, before, src, e, k)
  <2>1. e = IF Len(String(src)) < k THEN Len(String(src)) ELSE k
    BY <1>4 DEF e
  <2>2. String(src) \in Seq(Byte) /\ k \in Nat /\ e \in Nat
    BY <1>3, <1>4
  <2>3. DOMAIN text = 1..k /\ \A i \in 1..k : text[i] = IF i <= e THEN String(src)[i] ELSE 0
    BY ONLY <2>1, <2>2, PaddedText DEF text
  <2>4. \A i \in 1..k : i <= e => i \in 1..z-src
    BY <1>1, <1>3
  <2> QED BY <1>4, <2>3, <2>4 DEF ZerosAfter
<1>9. Laid(mem, before, dst, text, k)
  <2>1. CASE e = k
    <3>1. w = k /\ mem = Copied(before, dst, src, k)
      BY <1>3, <1>6, <1>7, <2>1
    <3>2. ASSUME NEW a \in 0..L, dst <= a, a < dst + k PROVE text[a - dst + 1] = before[a - dst + src]
      <4>1. a - dst + 1 \in 1..k /\ a - dst + 1 <= e /\ src + (a - dst + 1) - 1 = a - dst + src
        BY <1>1, <2>1, <3>2
      <4> QED BY <1>5, <4>1 DEF ZerosAfter
    <3>3. DOMAIN before = 0..L
      BY DEF Holds
    <3>4. mem = [a \in 0..L |-> IF dst <= a /\ a < dst + k THEN before[a - dst + src] ELSE before[a]]
      BY <3>1, <3>3 DEF Copied
    <3> QED BY ONLY <3>2, <3>3, <3>4 DEF Laid
  <2>2. CASE e # k
    <3>1. e < k /\ e = z - src /\ src + e = z
      BY <1>1, <1>3, <2>2
    <3>2. w = e + 1
      BY <1>3, <3>1
    <3>3. mem = memset(Copied(before, dst, src, e + 1), dst + e + 1, 0, k - e - 1)
      BY <1>6, <1>7, <2>2, <3>2, Zenon
    <3>4. before[src + e] = 0 /\ Holds(before, L) /\ dst \in Nat /\ src \in Nat /\ k \in Nat /\ dst + k <= L + 1
      BY <1>1, <3>1 DEF EndsAt
    <3>5. L \in Nat /\ e \in Nat
      BY <1>3
    <3> QED BY ONLY <1>5, <3>1, <3>3, <3>4, <3>5, PaddedIs
  <2> QED BY <2>1, <2>2
<1>11. mem = Stored(dst, text)
  <2>1. DOMAIN text = 1..k /\ k \in Nat /\ dst \in Nat /\ Address = 0..L /\ DOMAIN before = 0..L
    BY <1>5, <1>10 DEF Holds
  <2> QED BY ONLY <1>9, <2>1, StoredIs
<1> QED BY <1>10, <1>11 DEF text

(* strncat: at most k bytes, and a NUL. *)
LEMMA TerminatedIs ==
  ASSUME NEW L \in Nat, NEW m, Holds(m, L), NEW dst \in Nat, NEW src \in Nat, NEW e \in Nat,
         dst + (e + 1) <= L + 1, NEW text, ZerosAfter(text, m, src, e, e + 1),
         NEW x, \/ x = [Copied(m, dst, src, e) EXCEPT ![dst + e] = 0]
                \/ x = Copied(m, dst, src, e + 1) /\ m[src + e] = 0
  PROVE  Laid(x, m, dst, text, e + 1)
<1>1. DOMAIN m = 0..L /\ dst + e \in 0..L
  BY DEF Holds
<1>2. ASSUME NEW a \in 0..L, dst <= a, a < dst + e
      PROVE  text[a - dst + 1] = m[a - dst + src]
  <2>1. a - dst + 1 \in 1..e+1 /\ a - dst + 1 <= e /\ src + (a - dst + 1) - 1 = a - dst + src
    BY <1>2
  <2> QED BY <2>1 DEF ZerosAfter
<1>3. text[e + 1] = 0 /\ (dst + e) - dst + 1 = e + 1 /\ (dst + e) - dst + src = src + e
  BY DEF ZerosAfter
<1>4. \A a \in 0..L : /\ dst <= a /\ a < dst + (e + 1) <=> (dst <= a /\ a < dst + e) \/ a = dst + e
                      /\ a = dst + e => dst <= a
  OBVIOUS
<1>5. CASE x = [Copied(m, dst, src, e) EXCEPT ![dst + e] = 0]
  <2>1. x = [a \in 0..L |-> IF a = dst + e THEN 0 ELSE IF dst <= a /\ a < dst + e THEN m[a - dst + src] ELSE m[a]]
    BY <1>1, <1>5 DEF Copied
  <2>2. ASSUME NEW a \in 0..L
        PROVE  (IF a = dst + e THEN 0 ELSE IF dst <= a /\ a < dst + e THEN m[a - dst + src] ELSE m[a])
                 = IF dst <= a /\ a < dst + (e + 1) THEN text[a - dst + 1] ELSE m[a]
    BY <1>2, <1>3, <1>4
  <2> QED BY <1>1, <2>1, <2>2 DEF Laid
<1>6. CASE x = Copied(m, dst, src, e + 1) /\ m[src + e] = 0
  <2>1. x = [a \in 0..L |-> IF dst <= a /\ a < dst + (e + 1) THEN m[a - dst + src] ELSE m[a]]
    BY <1>1, <1>6 DEF Copied
  <2>2. ASSUME NEW a \in 0..L, dst <= a /\ a < dst + (e + 1)
        PROVE  m[a - dst + src] = text[a - dst + 1]
    BY <1>2, <1>3, <1>4, <1>6, <2>2
  <2> QED BY <1>1, <2>1, <2>2 DEF Laid
<1> QED BY <1>5, <1>6

LEMMA TailCopied ==
  ASSUME NEW L \in Nat, Holds(before, L), NEW at \in Nat, NEW src \in 0..L, NEW z, EndsAt(before, L, src, z),
         NEW k \in Nat, NEW e, e = (IF z - src < k THEN z - src ELSE k),
         at + (e + 1) <= L + 1, at <= src \/ src + ((z - src) + 1) <= at,
         mem = CopiesUntilNul(before, at, src, k)
  PROVE  Address = 0..L /\ mem = Stored(at, Append(SubSeq(String(src), 1, Min({k, Nul(src) - src})), 0))
<1>1. z \in src..L /\ src \in Nat /\ z - src \in Nat /\ e \in Nat /\ e <= z - src /\ e \in 0..k
  BY DEF EndsAt
<1> DEFINE w == IF e < k THEN e + 1 ELSE k
           head == SubSeq(String(src), 1, e)
           text == Append(head, 0)
<1>2. CopiesTo(before, src, 0, k, e)
  BY StringCopies
<1>3. /\ w \in Nat /\ at + w <= L + 1 /\ src + w <= L + 1 /\ (at <= src \/ src + w <= at)
      /\ w = IF e < k THEN e + 1 ELSE k
  BY <1>1
<1> HIDE DEF w, text
<1>6. CopiedBefore(before, at, src, 0, k) = e /\ MovesUp(before, at, src, w) = Copied(before, at, src, w)
  <2>2. at \in Nat /\ src \in Nat /\ k \in Nat /\ e \in 0..k /\ Holds(before, L) /\ L \in Nat
    BY <1>1
  <2> QED BY ONLY <1>2, <1>3, <2>2, CopiesAll, SMTT(30)
<1>7. mem = IF e = k THEN [MovesUp(before, at, src, k) EXCEPT ![at + k] = 0] ELSE MovesUp(before, at, src, e + 1)
  BY <1>6, Zenon DEF CopiesUntilNul
<1>8. \/ mem = [Copied(before, at, src, e) EXCEPT ![at + e] = 0]
      \/ mem = Copied(before, at, src, e + 1) /\ before[src + e] = 0
  <2>1. CASE e = k
    <3>1. w = k
      BY <2>1, <1>1 DEF w
    <3> QED BY <1>6, <1>7, <2>1, <3>1
  <2>2. CASE e # k
    <3>1. w = e + 1 /\ src + e = z
      BY <2>2, <1>1 DEF w
    <3> QED BY <1>6, <1>7, <2>2, <3>1 DEF EndsAt
  <2> QED BY <2>1, <2>2
<1>13. Address = 0..L /\ Nul(src) = z
  <2>1. Address = 0..L
    BY <1>8 DEF Address, Copied, Holds
  <2> QED BY <2>1, NulIs
<1>4. /\ String(src) \in Seq(Byte) /\ Len(String(src)) = z - src
      /\ \A i \in 1..z-src : String(src)[i] = before[src + i - 1]
  BY <1>13, StringBytes
<1>5. DOMAIN text = 1..e+1 /\ ZerosAfter(text, before, src, e, e + 1)
  <2>1. head \in Seq(Byte) /\ Len(head) = e /\ \A i \in 1..e : head[i] = String(src)[i]
    BY <1>1, <1>4, SMTT(30)
  <2> HIDE DEF head
  <2>2. Len(text) = e + 1 /\ DOMAIN text = 1..e+1 /\ text[e + 1] = 0 /\ \A i \in 1..e : text[i] = head[i]
    BY <1>1, <2>1 DEF text
  <2>3. ASSUME NEW i \in 1..e+1 PROVE text[i] = IF i <= e THEN before[src + i - 1] ELSE 0
    <3>1. CASE i = e + 1
      BY <1>1, <2>2, <3>1
    <3>2. CASE i # e + 1
      <4>1. i \in 1..e /\ i \in 1..z-src /\ i <= e
        BY <1>1, <3>2
      <4> QED BY <1>4, <2>1, <2>2, <4>1
    <3> QED BY <3>1, <3>2
  <2> QED BY <2>2, <2>3 DEF ZerosAfter
<1>9. /\ L \in Nat /\ Holds(before, L) /\ at \in Nat /\ src \in Nat /\ e \in Nat /\ at + (e + 1) <= L + 1
      /\ e + 1 \in Nat /\ DOMAIN before = 0..L /\ Address = 0..L
  BY <1>1, <1>13 DEF Holds
<1>10. Laid(mem, before, at, text, e + 1)
  BY ONLY <1>5, <1>8, <1>9, TerminatedIs
<1>11. mem = Stored(at, text)
  BY ONLY <1>5, <1>9, <1>10, StoredIs
<1>12. Min({k, Nul(src) - src}) = e
  <2>1. Min({k, z - src}) = IF k <= z - src THEN k ELSE z - src
    BY <1>1, MinOf
  <2> QED BY <1>1, <1>13, <2>1
<1> QED BY <1>11, <1>12, <1>13 DEF text

(* strcpy, strcat, strncpy and strncat. *)
LEMMA CopiesOfStrings ==
  ASSUME CopyCalled, call.fn \in CopyFns
  PROVE  CopiesExact
<1> DEFINE dst == call.dst
           src == call.src
           k == call.k
           fn == call.fn
           at == CopyAt(before, fn, dst)
           written == CopyLength(before, fn, src, k)
<1>1. /\ IsMemory(before) /\ dst \in DOMAIN before /\ src \in DOMAIN before /\ k \in Nat
      /\ at + written <= Cardinality(DOMAIN before)
      /\ Apart(dst, at - dst + written, src, strlen(before, src) + 1)
      /\ mem = CopyResult(before, fn, at, dst, src, k)
  BY DEF CopyCalled
<1>2. PICK L \in Nat : /\ before \in [0..L -> Byte] /\ before[L] = 0 /\ DOMAIN before = 0..L
                       /\ Cardinality(DOMAIN before) = L + 1
  BY <1>1, MemoryIs
<1>3. Holds(before, L) /\ dst \in 0..L /\ src \in 0..L /\ dst \in Nat /\ src \in Nat /\ at + written <= L + 1
  BY <1>1, <1>2 DEF Holds
<1> HIDE DEF dst, src, k, fn, at, written
<1>4. PICK z \in src..L : EndsAt(before, L, src, z)
  BY <1>3, StringEnds
<1>5. PICK y \in dst..L : EndsAt(before, L, dst, y)
  BY <1>3, StringEnds
<1>6. strlen(before, src) = z - src /\ z - src \in Nat
  BY <1>3, <1>4, StrlenIs
<1>7. strchr(before, dst, 0) = y
  <2>1. LET r == strchr(before, dst, 0) IN
         \/ r = NULL /\ \A a \in dst..y : before[a] # 0
         \/ r \in dst..y /\ before[r] = 0 /\ \A a \in dst..r-1 : before[a] # 0
    BY <1>3, <1>5, StrchrIs
  <2> QED BY <1>3, <2>1, <1>5 DEF EndsAt
<1>8. at = (IF fn \in {"strcat", "strncat"} THEN y ELSE dst) /\ at \in Nat /\ dst <= at
  <2>1. at = (IF fn \in {"strcat", "strncat"} THEN y ELSE dst)
    BY <1>7, Zenon DEF at, CopyAt
  <2> QED BY <2>1, <1>3
<1>9. Address = 0..L => Nul(src) = z /\ Nul(dst) = y
  BY <1>3, <1>4, <1>5, NulIs
<1>10. written \in Nat => at + written <= src \/ src + ((z - src) + 1) <= at
  BY <1>1, <1>3, <1>6, <1>8 DEF Apart
<1>11. CASE fn \in {"strcpy", "strcat"}
  <2>1. written = (z - src) + 1 /\ written \in Nat
    BY <1>6, <1>11 DEF written, CopyLength
  <2>2. mem = strcpy(before, at, src)
    BY <1>1, <1>11, Zenon DEF CopyResult
  <2>3. at + ((z - src) + 1) <= L + 1 /\ (at <= src \/ src + ((z - src) + 1) <= at)
    BY <1>3, <1>8, <1>10, <2>1
  <2>4. Address = 0..L /\ mem = Stored(at, Append(String(src), 0))
    BY <1>3, <1>4, <1>8, <2>2, <2>3, WholeCopied
  <2>5. at = IF fn = "strcat" THEN Nul(dst) ELSE dst
    BY <1>8, <1>9, <1>11, <2>4
  <2> QED BY <1>11, <2>4, <2>5 DEF CopiesExact, dst, src, fn
<1>12. CASE fn = "strncpy"
  <2>1. written = k /\ written \in Nat /\ at = dst
    BY <1>1, <1>8, <1>12 DEF written, CopyLength
  <2>2. mem = strncpy(before, dst, src, k)
    BY <1>1, <1>12, Zenon DEF CopyResult
  <2>3. dst + k <= L + 1 /\ (dst + k <= src \/ src + ((z - src) + 1) <= dst) /\ k \in Nat
    BY <1>3, <1>10, <2>1
  <2>4. Address = 0..L /\ mem = Stored(dst, SubSeq(String(src) \o [i \in 1..k |-> 0], 1, k))
    BY <1>3, <1>4, <2>2, <2>3, PaddedCopied
  <2> QED BY <1>12, <2>4 DEF CopiesExact, dst, src, k, fn
<1>13. CASE fn = "strncat"
  <2>1. PICK e : e = IF z - src < k THEN z - src ELSE k
    OBVIOUS
  <2>2. written = e + 1 /\ written \in Nat /\ at = y /\ e \in Nat
    <3>1. strnlen(before, src, k) = e
      BY <1>1, <1>3, <1>4, <2>1, StrnlenIs
    <3>2. written = strnlen(before, src, k) + 1
      BY <1>13, Zenon DEF written, CopyLength
    <3> QED BY <1>1, <1>6, <1>8, <1>13, <2>1, <3>1, <3>2
  <2>3. mem = CopiesUntilNul(before, at, src, k)
    BY <1>1, <1>13, Zenon DEF CopyResult
  <2>4. at + (e + 1) <= L + 1 /\ (at <= src \/ src + ((z - src) + 1) <= at)
    BY <1>3, <1>8, <1>10, <2>2
  <2>5. Address = 0..L /\ mem = Stored(at, Append(SubSeq(String(src), 1, Min({k, Nul(src) - src})), 0))
    <3>1. L \in Nat /\ Holds(before, L) /\ at \in Nat /\ src \in 0..L /\ k \in Nat
      BY <1>1, <1>3, <1>8
    <3> QED BY ONLY <1>4, <2>1, <2>3, <2>4, <3>1, TailCopied
  <2>6. at = Nul(dst)
    BY <1>9, <2>2, <2>5
  <2> QED BY <1>13, <2>5, <2>6 DEF CopiesExact, dst, src, k, fn
<1> QED BY <1>11, <1>12, <1>13 DEF fn, CopyFns

(* Every copy writes exactly the bytes its description says, however the   *)
(* areas overlap where they may, and leaves every other byte alone, in     *)
(* every memory.                                                           *)
THEOREM CopiesAreExact == Spec => []CopiesExact
<1>1. CopyCalled => CopiesExact
  <2> SUFFICES ASSUME CopyCalled PROVE CopiesExact
    OBVIOUS
  <2>1. CASE call.fn \notin MemoryFns \cup CopyFns
    BY <2>1 DEF CopiesExact, MemoryFns, CopyFns
  <2> QED BY <2>1, CopiesInMemory, CopiesOfStrings
<1> QED BY <1>1, CopyCalledHolds, PTL

(***************************************************************************)
(* vsscanf.                                                                *)
(***************************************************************************)
IsText(s) == \E S : s \in Seq(S)

LEMMA SpanIs ==
  ASSUME NEW s, IsText(s), NEW i \in 0..Len(s), NEW max \in Int, NEW codes
  PROVE  LET k == Span(s, i, max, codes) IN
         k \in 0..(Len(s) - i) /\ (k > 0 => k <= max)
<1>1. Len(s) \in Nat
  BY DEF IsText
<1> DEFINE T == {k \in 0..(Len(s) - i) : k >= max \/ i + k = Len(s) \/ Code(CharAt(s, i + k)) \notin codes}
<1>2. Len(s) - i \in T /\ T \subseteq Nat
  BY <1>1
<1>3. PICK k \in T : \A l \in T : k <= l
  <2> HIDE DEF T
  <2> QED BY <1>2, LeastNatural
<1>4. ASSUME NEW j \in 0..k-1 PROVE j < max /\ Code(CharAt(s, i + j)) \in codes
  <2>1. j \in 0..(Len(s) - i) /\ j < k /\ j \notin T
    BY <1>1, <1>3
  <2> QED BY <1>1, <2>1
<1>5. \E l \in 0..(Len(s) - i) :
        /\ \A j \in 0..l-1 : j < max /\ Code(CharAt(s, i + j)) \in codes
        /\ l >= max \/ i + l = Len(s) \/ Code(CharAt(s, i + l)) \notin codes
  BY <1>3, <1>4
<1> DEFINE e == Span(s, i, max, codes)
<1>6. /\ e \in 0..(Len(s) - i)
      /\ \A j \in 0..e-1 : j < max /\ Code(CharAt(s, i + j)) \in codes
  BY <1>5 DEF Span
<1> HIDE DEF e, T
<1>7. e > 0 => e <= max
  <2> SUFFICES ASSUME e > 0 PROVE e <= max
    OBVIOUS
  <2>1. e - 1 \in 0..e-1
    BY <1>1, <1>6
  <2>2. e - 1 < max
    BY ONLY <1>6, <2>1
  <2>3. e \in Int
    BY <1>1, <1>6
  <2> QED BY <2>2, <2>3
<1> QED BY <1>6, <1>7 DEF e

LEMMA SkipspaceIs ==
  ASSUME NEW s, IsText(s), NEW i \in 0..Len(s)
  PROVE  skipspace(s, i) \in i..Len(s)
<1>1. Len(s) \in Nat
  BY DEF IsText
<1>2. Span(s, i, Len(s), Spaces) \in 0..(Len(s) - i)
  BY <1>1, SpanIs
<1> QED BY <1>1, <1>2 DEF skipspace

LEMMA BeforeNul ==
  ASSUME NEW s, IsText(s), NEW i \in 0..Len(s), CharAt(s, i) # "NUL"
  PROVE  i + 1 \in 0..Len(s)
<1>1. Len(s) \in Nat
  BY DEF IsText
<1>2. i < Len(s)
  BY Zenon DEF CharAt
<1> QED BY <1>1, <1>2

(* A number ends at the NUL, if not before it.                             *)
LEMMA NumberEnds ==
  ASSUME NEW s, IsText(s), NEW i \in 0..Len(s), NEW max \in Int, NEW base0
  PROVE  strntoumax(s, i, base0, max).end \in i..Len(s)
<1>1. Len(s) \in Nat
  BY DEF IsText
<1>2. PICK i1 : i1 = i + Span(s, i, max, Spaces)
  OBVIOUS
<1>3. i1 \in i..Len(s)
  <2>1. Span(s, i, max, Spaces) \in 0..(Len(s) - i)
    BY SpanIs
  <2> QED BY <1>1, <1>2, <2>1
<1>4. PICK has_sign : has_sign = (i1 - i < max /\ CharAt(s, i1) \in {"-", "+"})
  OBVIOUS
<1>5. PICK i2 : i2 = IF has_sign THEN i1 + 1 ELSE i1
  OBVIOUS
<1>6. i2 \in i..Len(s)
  <2>1. i1 \in 0..Len(s)
    BY <1>1, <1>3
  <2>2. CASE has_sign
    <3>1. CharAt(s, i1) # "NUL"
      BY <1>4, <2>2
    <3>2. i1 + 1 \in 0..Len(s)
      BY <2>1, <3>1, BeforeNul
    <3> QED BY <1>1, <1>3, <1>5, <2>2, <3>2
  <2> QED BY <1>3, <1>5, <2>2
<1>7. PICK left : left = max - (i2 - i)
  OBVIOUS
<1>8. PICK zero : zero = (left >= 1 /\ CharAt(s, i2) = "0")
  OBVIOUS
<1>9. PICK hex : hex = (left >= 2 /\ zero /\ CharAt(s, i2 + 1) \in {"x", "X"})
  OBVIOUS
<1>10. PICK base : base = IF base0 # 0 THEN base0 ELSE IF hex THEN 16 ELSE IF zero THEN 8 ELSE 10
  OBVIOUS
<1>11. PICK i3 : i3 = i2 + (IF hex /\ base = 16 THEN 2 ELSE IF zero /\ base0 = 0 THEN 1 ELSE 0)
  OBVIOUS
<1>12. i3 \in i..Len(s)
  <2>0. i2 \in 0..Len(s)
    BY <1>1, <1>6
  <2>1. zero => i2 + 1 \in 0..Len(s)
    <3> SUFFICES ASSUME zero PROVE i2 + 1 \in 0..Len(s)
      OBVIOUS
    <3>1. CharAt(s, i2) # "NUL"
      BY <1>8
    <3> QED BY <2>0, <3>1, BeforeNul
  <2>2. hex => (i2 + 1) + 1 \in 0..Len(s)
    <3> SUFFICES ASSUME hex PROVE (i2 + 1) + 1 \in 0..Len(s)
      OBVIOUS
    <3>1. zero /\ CharAt(s, i2 + 1) # "NUL"
      BY <1>9
    <3>2. i2 + 1 \in 0..Len(s)
      BY <2>1, <3>1
    <3> QED BY <3>1, <3>2, BeforeNul
  <2> QED BY <1>1, <1>6, <1>11, <2>1, <2>2
<1>13. PICK k : k = Span(s, i3, max - (i3 - i), {c \in Byte : IsDigitOf(c, base)})
  OBVIOUS
<1>14. k \in 0..(Len(s) - i3)
  <2>1. max - (i3 - i) \in Int /\ i3 \in 0..Len(s)
    BY <1>1, <1>12
  <2> QED BY <1>13, <2>1, SpanIs
<1>15. strntoumax(s, i, base0, max).end = i3 + k
  BY <1>2, <1>4, <1>5, <1>7, <1>8, <1>9, <1>10, <1>11, <1>13, ZenonT(30) DEF strntoumax
<1> QED BY <1>1, <1>12, <1>14, <1>15

LEMMA DigitValue ==
  ASSUME NEW c, IsDigit(c) PROVE DigitOf(c) \in Nat
<1>1. PICK i \in 1..10 : DigitChars[i] = c
  BY DEF IsDigit, Contains, DigitChars
<1>2. i - 1 \in 0..9 /\ DigitChars[(i - 1) + 1] = c
  BY <1>1
<1> HIDE DEF DigitChars
<1>3. DigitOf(c) \in 0..9
  BY <1>2 DEF DigitOf
<1> QED BY <1>3

(* The stored values that are whole, as ScanContract counts them.          *)
Whole(s) ==
  {i \in DOMAIN s : s[i].conv # "n" /\ ~(s[i].conv = "c" /\ Len(s[i].value) < s[i].limit)}
Fitting(s) == \A i \in DOMAIN s : s[i].conv \in {"c", "s"} => Len(s[i].value) <= s[i].limit

LEMMA AppendIs ==
  ASSUME NEW s, IsText(s), NEW e
  PROVE  /\ IsText(Append(s, e)) /\ DOMAIN s = 1..Len(s) /\ DOMAIN Append(s, e) = 1..Len(s)+1
         /\ Len(s) \in Nat /\ Append(s, e)[Len(s) + 1] = e
         /\ \A i \in 1..Len(s) : Append(s, e)[i] = s[i]
<1>1. PICK S : s \in Seq(S)
  BY DEF IsText
<1>2. s \in Seq(S \cup {e}) /\ e \in S \cup {e}
  BY <1>1
<1> DEFINE R == S \cup {e}
<1> HIDE DEF R
<1>3. s \in Seq(R) /\ e \in R
  BY <1>2 DEF R
<1> QED BY <1>3 DEF IsText

LEMMA WholeAfter ==
  ASSUME NEW s, IsText(s), NEW e, Cardinality(Whole(s)) \in Nat, Fitting(s)
  PROVE  LET whole == e.conv # "n" /\ ~(e.conv = "c" /\ Len(e.value) < e.limit) IN
         /\ whole => Cardinality(Whole(Append(s, e))) = Cardinality(Whole(s)) + 1
         /\ ~whole => Cardinality(Whole(Append(s, e))) = Cardinality(Whole(s))
         /\ (e.conv \in {"c", "s"} => Len(e.value) <= e.limit) => Fitting(Append(s, e))
<1> DEFINE t == Append(s, e)
           whole == e.conv # "n" /\ ~(e.conv = "c" /\ Len(e.value) < e.limit)
<1>1. /\ DOMAIN s = 1..Len(s) /\ DOMAIN t = 1..Len(s)+1 /\ Len(s) \in Nat /\ t[Len(s) + 1] = e
      /\ \A i \in 1..Len(s) : t[i] = s[i]
  BY AppendIs
<1> HIDE DEF t
<1>2. IsFiniteSet(Whole(s)) /\ Len(s) + 1 \notin Whole(s)
  <2>1. IsFiniteSet(1..Len(s))
    BY <1>1, FS_Interval
  <2>2. Whole(s) \subseteq 1..Len(s)
    BY <1>1 DEF Whole
  <2> QED BY <1>1, <2>1, <2>2, FS_Subset
<1>3. whole => Whole(t) = Whole(s) \cup {Len(s) + 1}
  <2> SUFFICES ASSUME whole, NEW i PROVE i \in Whole(t) <=> i \in Whole(s) \cup {Len(s) + 1}
    OBVIOUS
  <2>1. CASE i \in 1..Len(s)
    BY <1>1, <2>1 DEF Whole
  <2>2. CASE i = Len(s) + 1
    BY <1>1, <2>2 DEF Whole
  <2> QED BY <1>1, <2>1, <2>2 DEF Whole
<1>4. ~whole => Whole(t) = Whole(s)
  <2> SUFFICES ASSUME ~whole, NEW i PROVE i \in Whole(t) <=> i \in Whole(s)
    OBVIOUS
  <2>1. CASE i \in 1..Len(s)
    BY <1>1, <2>1 DEF Whole
  <2>2. CASE i = Len(s) + 1
    BY <1>1, <2>2 DEF Whole
  <2> QED BY <1>1, <2>1, <2>2 DEF Whole
<1>5. (e.conv \in {"c", "s"} => Len(e.value) <= e.limit) => Fitting(t)
  <2> SUFFICES ASSUME e.conv \in {"c", "s"} => Len(e.value) <= e.limit, NEW i \in DOMAIN t, t[i].conv \in {"c", "s"}
               PROVE  Len(t[i].value) <= t[i].limit
    BY DEF Fitting
  <2>1. CASE i \in 1..Len(s)
    BY <1>1, <2>1 DEF Fitting
  <2>2. CASE i = Len(s) + 1
    BY <1>1, <2>2
  <2> QED BY <1>1, <2>1, <2>2
<1>6. whole => Cardinality(Whole(t)) = Cardinality(Whole(s)) + 1
  BY <1>2, <1>3, FS_AddElement
<1> QED BY <1>4, <1>5, <1>6 DEF t

(* What a copied piece of the input is. *)
LEMMA PieceIs ==
  ASSUME NEW s, IsText(s), NEW i \in 0..Len(s), NEW k \in 0..(Len(s) - i)
  PROVE  Len(SubSeq(s, i + 1, i + k)) = k /\ i + k \in 0..Len(s)
<1>1. PICK S : s \in Seq(S)
  BY DEF IsText
<1>2. Len(s) \in Nat
  BY <1>1
<1> QED BY <1>1, <1>2

(* Nothing is read past the NUL, what is stored fits, the count is the     *)
(* number of whole values, and the end of the input is reported only there.*)
InputInv == IsText(input) /\ q \in 0..Len(input)
CountInv ==
  /\ Cardinality(Whole(stored)) \in Nat
  /\ running = "vsscanf" => converted = Cardinality(Whole(stored)) /\ (bail = "eof" => q = Len(input))
DirectiveInv == width \in Int /\ ("width" \in flags => width \in Nat)
FormatInv == IsString(format) /\ p \in Nat \ {0} /\ DirectiveInv
EndInv ==
  running = "none" /\ job.kind = "scan" =>
    \/ converted = Cardinality(Whole(stored))
    \/ converted = -1 /\ Whole(stored) = {} /\ q = Len(input)
ScanInv ==
  /\ InputInv /\ IsText(stored) /\ Fitting(stored) /\ CountInv /\ EndInv
  /\ running = "vsscanf" => FormatInv
  /\ job.kind = "scan" => running # "vsnprintf"
  /\ job.kind = "print" => IsString(job.back)

LEMMA WidestInt == UINT_MAX \in Int
<1>1. Bits[0] \in Nat
  BY BitsAssumption DEF Rank
<1> QED BY <1>1 DEF UINT_MAX

LEMMA NothingStored == IsText(<<>>) /\ Fitting(<<>>) /\ Whole(<<>>) = {} /\ Cardinality({}) = 0
BY FS_EmptySet DEF IsText, Fitting, Whole

(* The state in the loop of vsscanf, and what is left to show of a step.   *)
Scanning ==
  /\ InputInv /\ IsText(stored) /\ Fitting(stored)
  /\ converted \in Nat /\ converted = Cardinality(Whole(stored)) /\ bail = "none"
  /\ DirectiveInv /\ ch # "NUL"
InLoop ==
  /\ q \in 0..Len(input) /\ IsText(stored) /\ Fitting(stored)
  /\ converted = Cardinality(Whole(stored)) /\ (bail = "eof" => q = Len(input))

(* Storing a value and counting it if it is whole. *)
LEMMA StoresAndCounts ==
  ASSUME Scanning, NEW v, NEW w, Stores(v, w),
         ch \in {"c", "s"} => Len(v) <= w,
         ch # "n" /\ ~(ch = "c" /\ Len(v) < w) => Counts,
         ch = "n" \/ (ch = "c" /\ Len(v) < w) => UNCHANGED converted
  PROVE  IsText(stored') /\ Fitting(stored') /\ converted' = Cardinality(Whole(stored'))
<1>1. CASE Splat
  <2>1. stored' = stored /\ converted' = converted
    BY <1>1 DEF Stores, Counts
  <2> QED BY <2>1 DEF Scanning
<1>2. CASE ~Splat
  <2> DEFINE e == [conv |-> ch, value |-> v, limit |-> w]
  <2>1. stored' = Append(stored, e)
    BY <1>2, Zenon DEF Stores
  <2>2. e.conv = ch /\ e.value = v /\ e.limit = w
    OBVIOUS
  <2> HIDE DEF e
  <2>3. IsText(stored) /\ Fitting(stored) /\ Cardinality(Whole(stored)) \in Nat
    BY DEF Scanning
  <2>4. IsText(stored')
    BY <2>1, <2>3, AppendIs
  <2>5. Fitting(stored')
    BY <2>1, <2>2, <2>3, WholeAfter
  <2>6. CASE e.conv # "n" /\ ~(e.conv = "c" /\ Len(e.value) < e.limit)
    <3>1. Cardinality(Whole(stored')) = Cardinality(Whole(stored)) + 1
      BY <2>1, <2>3, <2>6, WholeAfter
    <3>2. converted' = converted + 1
      BY <1>2, <2>2, <2>6 DEF Counts
    <3> QED BY <2>4, <2>5, <3>1, <3>2 DEF Scanning
  <2>7. CASE ~(e.conv # "n" /\ ~(e.conv = "c" /\ Len(e.value) < e.limit))
    <3>1. Cardinality(Whole(stored')) = Cardinality(Whole(stored))
      BY <2>1, <2>3, <2>7, WholeAfter
    <3>2. converted' = converted
      BY <1>2, <2>2, <2>7
    <3> QED BY <2>4, <2>5, <3>1, <3>2 DEF Scanning
  <2> QED BY <2>6, <2>7
<1> QED BY <1>1, <1>2

LEMMA ConvertsInteger ==
  ASSUME Scanning, ScansInteger, input' = input PROVE InLoop'
<1> DEFINE base == CASE ch \in {"p", "P", "i"} -> 0 [] ch \in {"d", "u"} -> 10 [] ch = "o" -> 8 [] OTHER -> 16
           start == skipspace(input, q)
           number == strntoumax(input, start, base, width)
<1>1. IsText(input) /\ q \in 0..Len(input) /\ width \in Int /\ Len(input) \in Nat
  BY DEF Scanning, InputInv, DirectiveInv, IsText
<1>2. start \in q..Len(input)
  BY <1>1, SkipspaceIs
<1>3. ch \notin {"c", "s", "n"}
  BY DEF ScansInteger
<1> HIDE DEF start, base
<1>4. number.end \in start..Len(input)
  <2>1. start \in 0..Len(input)
    BY <1>1, <1>2
  <2> QED BY <1>1, <2>1, NumberEnds
<1> HIDE DEF number
<1>5. \/ start = Len(input) /\ q' = start /\ Bails("eof")
      \/ start < Len(input) /\ number.end = start /\ q' = start /\ Bails("err")
      \/ /\ start < Len(input) /\ number.end # start /\ q' = number.end
         /\ Counts /\ UNCHANGED bail
         /\ \E v : Stores(v, width)
  BY Zenon DEF ScansInteger, start, number, base
<1>6. CASE UNCHANGED <<converted, stored>> /\ q' = start /\ bail' \in {"eof", "err"} /\ (bail' = "eof" => q' = Len(input))
  BY <1>1, <1>2, <1>6 DEF Scanning, InLoop
<1>7. CASE q' = number.end /\ Counts /\ UNCHANGED bail /\ \E v : Stores(v, width)
  <2>1. PICK v : Stores(v, width)
    BY <1>7
  <2>2. IsText(stored') /\ Fitting(stored') /\ converted' = Cardinality(Whole(stored'))
    BY <1>3, <1>7, <2>1, StoresAndCounts
  <2> QED BY <1>1, <1>2, <1>4, <1>7, <2>2 DEF Scanning, InLoop
<1> QED BY <1>5, <1>6, <1>7 DEF Bails

LEMMA ConvertsCount ==
  ASSUME Scanning, ScansCount, input' = input PROVE InLoop'
<1>1. PICK v : Stores(v, width)
  BY DEF ScansCount
<1>2. ch = "n" /\ UNCHANGED <<q, converted, bail>>
  BY DEF ScansCount
<1>3. IsText(stored') /\ Fitting(stored') /\ converted' = Cardinality(Whole(stored'))
  BY <1>1, <1>2, StoresAndCounts
<1> QED BY <1>2, <1>3 DEF Scanning, InputInv, InLoop

LEMMA ConvertsChars ==
  ASSUME Scanning, ScansChars, input' = input PROVE InLoop'
<1> DEFINE w == IF "width" \in flags THEN width ELSE 1
           enough == q + w <= Len(input)
           taken == IF enough THEN w ELSE Len(input) - q
           piece == SubSeq(input, q + 1, q + taken)
<1>1. IsText(input) /\ q \in 0..Len(input) /\ Len(input) \in Nat
  BY DEF Scanning, InputInv, IsText
<1>2. w \in Nat
  BY DEF Scanning, DirectiveInv
<1> HIDE DEF w
<1>3. taken \in 0..(Len(input) - q) /\ (enough => taken = w) /\ (~enough => taken < w /\ q + taken = Len(input))
  BY <1>1, <1>2
<1>4. Len(piece) = taken /\ q + taken \in 0..Len(input)
  BY <1>1, <1>3, PieceIs
<1>5. ch = "c"
  BY DEF ScansChars
<1> HIDE DEF taken, piece
<1>6. CASE Splat
  <2>1. UNCHANGED <<q, converted, stored>> /\ bail' = IF w > 0 /\ q = Len(input) THEN "eof" ELSE bail
    BY <1>6, Zenon DEF ScansChars, Bails, w
  <2> QED BY <1>1, <2>1 DEF Scanning, InLoop
<1>7. CASE ~Splat
  <2>1. /\ q' = q + taken /\ Stores(piece, w)
        /\ IF enough THEN Counts /\ UNCHANGED bail ELSE bail' = "eof" /\ UNCHANGED converted
    BY <1>7, Zenon DEF ScansChars, w, enough, taken, piece
  <2>2. Len(piece) <= w /\ (Len(piece) < w <=> ~enough)
    BY <1>1, <1>2, <1>3, <1>4
  <2>3. IsText(stored') /\ Fitting(stored') /\ converted' = Cardinality(Whole(stored'))
    <3> HIDE DEF enough
    <3> QED BY <1>5, <2>1, <2>2, StoresAndCounts
  <2> QED BY <1>1, <1>3, <1>4, <2>1, <2>3 DEF Scanning, InLoop
<1> QED BY <1>6, <1>7

LEMMA ConvertsString ==
  ASSUME Scanning, ScansString, input' = input PROVE InLoop'
<1> DEFINE k == Span(input, q, StringLimit, Byte \ Spaces)
           piece == SubSeq(input, q + 1, q + k)
<1>1. IsText(input) /\ q \in 0..Len(input) /\ Len(input) \in Nat /\ width \in Int
  BY DEF Scanning, InputInv, DirectiveInv, IsText
<1>2. k \in 0..(Len(input) - q) /\ (k > 0 => k <= width)
  BY <1>1, SpanIs DEF StringLimit
<1> HIDE DEF k
<1>3. Len(piece) = k /\ q + k \in 0..Len(input)
  BY <1>1, <1>2, PieceIs
<1> HIDE DEF piece
<1>4. /\ ch = "s" /\ q' = q + k
      /\ IF k > 0 THEN Stores(piece, width) /\ Counts ELSE UNCHANGED <<stored, converted>>
      /\ bail' = IF k < StringLimit /\ q + k = Len(input) THEN "eof" ELSE bail
  BY Zenon DEF ScansString, k, piece
<1>5. IsText(stored') /\ Fitting(stored') /\ converted' = Cardinality(Whole(stored'))
  <2>1. CASE k > 0
    BY <1>2, <1>3, <1>4, <2>1, StoresAndCounts
  <2>2. CASE ~(k > 0)
    BY <1>4, <2>2 DEF Scanning
  <2> QED BY <2>1, <2>2
<1> QED BY <1>1, <1>3, <1>4, <1>5 DEF Scanning, InLoop

LEMMA ConvertsSet ==
  ASSUME Scanning, match_run, input' = input PROVE InLoop'
<1> DEFINE map == IF state = "match_range" THEN matchmap \cup {Code("-")} ELSE matchmap
           k == IF width = 0 THEN 0 ELSE Span(input, q, Len(input), IF matchinv THEN Byte \ map ELSE map)
           piece == SubSeq(input, q + 1, q + k)
           nul == width # 0 /\ q + k = Len(input)
<1>1. IsText(input) /\ q \in 0..Len(input) /\ Len(input) \in Nat
  BY DEF Scanning, InputInv, IsText
<1>2. k \in 0..(Len(input) - q)
  BY <1>1, SpanIs
<1> HIDE DEF k
<1>3. q + k \in 0..Len(input)
  BY <1>1, <1>2
<1>4. /\ ch = "]" /\ q' = q + k
      /\ IF k > 0 /\ ~Splat
         THEN /\ Stores(piece, width) /\ Counts
              /\ bail' = IF nul THEN "eof" ELSE bail
         ELSE Bails(IF nul THEN "eof" ELSE "err")
  BY Zenon DEF match_run, k, map, piece, nul
<1>5. IsText(stored') /\ Fitting(stored') /\ converted' = Cardinality(Whole(stored'))
  <2> HIDE DEF nul, piece
  <2>1. CASE k > 0 /\ ~Splat
    BY <1>4, <2>1, StoresAndCounts
  <2>2. CASE ~(k > 0 /\ ~Splat)
    BY <1>4, <2>2 DEF Scanning, Bails
  <2> QED BY <2>1, <2>2
<1>6. bail' = "eof" => q' = Len(input)
  BY <1>4 DEF Scanning, Bails
<1> QED BY <1>3, <1>4, <1>5, <1>6 DEF InLoop

(* Every action of the loop. *)
LEMMA LoopStep ==
  ASSUME Scanning, input' = input,
         \/ scan_percent \/ scan_space \/ scan_literal \/ scan_flags \/ scan_width
         \/ scan_length \/ scan_output \/ scan_bracket
         \/ match_init \/ match_set \/ match_run
  PROVE  InLoop' /\ DirectiveInv'
<1>1. IsText(input) /\ q \in 0..Len(input) /\ Len(input) \in Nat
  BY DEF Scanning, InputInv, IsText
<1>2. ASSUME UNCHANGED <<q, converted, bail, stored>> PROVE InLoop'
  BY <1>1, <1>2 DEF Scanning, InLoop
<1>3. ASSUME UNCHANGED directive PROVE DirectiveInv'
  BY <1>3 DEF Scanning, DirectiveInv, directive
<1>4. CASE scan_percent
  <2>1. flags' = {} /\ width' = UINT_MAX /\ UNCHANGED <<q, converted, bail, stored>>
    BY <1>4 DEF scan_percent
  <2> QED BY <1>2, <2>1, WidestInt DEF DirectiveInv
<1>5. CASE scan_space
  <2>1. q' = skipspace(input, q) /\ UNCHANGED <<directive, converted, bail, stored>>
    BY <1>5 DEF scan_space
  <2>2. q' \in 0..Len(input)
    BY <1>1, <2>1, SkipspaceIs
  <2> QED BY <1>1, <1>3, <2>1, <2>2 DEF Scanning, InLoop
<1>6. CASE scan_literal
  <2>1. /\ UNCHANGED <<directive, converted, stored>> /\ ch # "%"
        /\ IF CharAt(input, q) = ch THEN q' = q + 1 /\ UNCHANGED bail ELSE bail' = "err" /\ UNCHANGED q
    BY <1>6 DEF scan_literal
  <2> QED BY <1>1, <1>3, <2>1, BeforeNul DEF Scanning, InLoop
<1>7. CASE scan_flags
  <2>1. UNCHANGED <<q, converted, bail, stored>>
    BY <1>7 DEF scan_flags
  <2>2. \/ flags' = flags \cup {"*"} /\ UNCHANGED width
        \/ IsDigit(ch) /\ width' = DigitOf(ch)
        \/ UNCHANGED <<flags, width>>
    BY <1>7 DEF scan_flags
  <2> QED BY <1>2, <2>1, <2>2, DigitValue DEF Scanning, DirectiveInv
<1>8. CASE scan_width
  <2>1. UNCHANGED <<flags, q, converted, bail, stored>>
    BY <1>8 DEF scan_width
  <2>2. state = "width" /\ (width' = width \/ (IsDigit(ch) /\ width' = width * 10 + DigitOf(ch)))
    BY <1>8 DEF scan_width
  <2> QED BY <1>2, <2>1, <2>2, DigitValue DEF Scanning, DirectiveInv
<1>9. CASE scan_length
  BY <1>2, <1>9 DEF scan_length, Scanning, DirectiveInv
<1>10. CASE scan_output
  <2>1. UNCHANGED directive
    BY <1>10 DEF scan_output
  <2>2. CASE ScansPercent
    <3>1. IF CharAt(input, q) = "%" THEN q' = q + 1 /\ UNCHANGED <<converted, bail, stored>>
                               ELSE Bails("err") /\ UNCHANGED q
      BY <2>2 DEF ScansPercent
    <3> QED BY <1>1, <1>3, <2>1, <3>1, BeforeNul DEF Scanning, InLoop, Bails
  <2>3. CASE ScansUnknown
    BY <1>1, <1>3, <2>1, <2>3 DEF ScansUnknown, Bails, Scanning, InLoop
  <2>4. ScansInteger \/ ScansCount \/ ScansChars \/ ScansString \/ ScansPercent \/ ScansUnknown
    BY <1>10 DEF scan_output
  <2> QED BY <1>3, <2>1, <2>2, <2>3, <2>4, ConvertsInteger, ConvertsCount, ConvertsChars, ConvertsString
<1>11. CASE scan_bracket
  BY <1>2, <1>11 DEF scan_bracket, Scanning, DirectiveInv
<1>12. CASE match_init
  BY <1>2, <1>3, <1>12 DEF match_init
<1>13. CASE match_set
  BY <1>2, <1>3, <1>13 DEF match_set
<1>14. CASE match_run
  <2>1. UNCHANGED directive
    BY <1>14 DEF match_run
  <2> QED BY <1>3, <1>14, <2>1, ConvertsSet
<1> QED BY <1>4, <1>5, <1>6, <1>7, <1>8, <1>9, <1>10, <1>11, <1>12, <1>13, <1>14

LEMMA NextCharacter ==
  ASSUME \/ scan_percent \/ scan_space \/ scan_literal \/ scan_flags \/ scan_width
         \/ scan_length \/ scan_output \/ scan_bracket
         \/ match_init \/ match_set \/ match_run
  PROVE  p' = p + 1 \/ p' = p
<1> USE DEF Goes, Again
<1>1. scan_percent \/ scan_space \/ scan_literal => p' = p + 1
  BY DEF scan_percent, scan_space, scan_literal
<1>2. scan_flags \/ scan_width => p' = p + 1 \/ p' = p
  BY DEF scan_flags, scan_width
<1>3. scan_length \/ scan_output \/ scan_bracket => p' = p + 1
  BY DEF scan_length, scan_output, scan_bracket
<1>4. match_init \/ match_set => p' = p + 1
  BY DEF match_init, match_set
<1>5. match_run => p' = p + 1
  BY Zenon DEF match_run
<1> QED BY <1>1, <1>2, <1>3, <1>4, <1>5

LEMMA ScanStep ==
  ASSUME ScanInv, scan_step, job' = job PROVE ScanInv'
<1>1. running = "vsscanf"
  BY DEF scan_step
<1>2. job.kind = "print" => IsString(job.back)
  BY DEF ScanInv
<1>3. CASE scan_end
  <2>1. /\ running' = "none" /\ UNCHANGED <<input, q, stored>>
        /\ converted' = IF bail = "eof" /\ converted = 0 THEN -1 ELSE converted
    BY <1>3 DEF scan_end
  <2>2. converted = Cardinality(Whole(stored)) /\ (bail = "eof" => q = Len(input))
    BY <1>1 DEF ScanInv, CountInv
  <2>3. Cardinality(Whole(stored)) = 0 => Whole(stored) = {}
    <3>1. IsText(stored)
      BY DEF ScanInv
    <3>2. DOMAIN stored = 1..Len(stored) /\ Len(stored) \in Nat
      BY <3>1, AppendIs
    <3>3. IsFiniteSet(1..Len(stored)) /\ Whole(stored) \subseteq 1..Len(stored)
      BY <3>2, FS_Interval DEF Whole
    <3> QED BY <3>3, FS_Subset, FS_EmptySet
  <2>4. EndInv'
    <3>1. \/ converted' = Cardinality(Whole(stored))
          \/ converted' = -1 /\ Whole(stored) = {} /\ q = Len(input)
      BY <2>1, <2>2, <2>3
    <3> QED BY <2>1, <3>1 DEF EndInv
  <2>5. InputInv' /\ IsText(stored') /\ Fitting(stored') /\ CountInv'
    BY <2>1 DEF ScanInv, InputInv, CountInv
  <2> QED BY <1>2, <2>1, <2>4, <2>5 DEF ScanInv
<1>4. CASE /\ More /\ bail = "none" /\ UNCHANGED <<loop, input>>
           /\ \/ scan_percent \/ scan_space \/ scan_literal \/ scan_flags \/ scan_width
              \/ scan_length \/ scan_output \/ scan_bracket
              \/ match_init \/ match_set \/ match_run
  <2>1. running' = running /\ format' = format /\ input' = input
    BY <1>4 DEF loop
  <2>2. IsString(format) /\ p \in Nat \ {0} /\ p <= Len(format)
    BY <1>1, <1>4 DEF ScanInv, FormatInv, More
  <2>3. ch # "NUL"
    BY <2>2 DEF IsString, ch
  <2>4. Scanning
    BY <1>1, <1>4, <2>3 DEF ScanInv, CountInv, FormatInv, Scanning
  <2>5. InLoop' /\ DirectiveInv'
    BY <1>4, <2>1, <2>4, LoopStep
  <2>6. p' \in Nat \ {0}
    BY <1>4, <2>2, NextCharacter
  <2>7. Cardinality(Whole(stored'))  \in Nat
    <3>1. IsText(stored')
      BY <2>5 DEF InLoop
    <3>2. DOMAIN stored' = 1..Len(stored') /\ Len(stored') \in Nat
      BY <3>1, AppendIs
    <3>3. IsFiniteSet(1..Len(stored')) /\ Whole(stored') \subseteq 1..Len(stored')
      BY <3>2, FS_Interval DEF Whole
    <3> QED BY <3>3, FS_Subset, FS_CardinalityType
  <2>8. InputInv' /\ IsText(stored') /\ Fitting(stored') /\ CountInv'
    <3>1. InputInv'
      BY <2>1, <2>4, <2>5 DEF InputInv, InLoop, Scanning
    <3>2. CountInv'
      BY <2>5, <2>7 DEF CountInv, InLoop
    <3> QED BY <2>5, <3>1, <3>2 DEF InLoop
  <2>9. FormatInv' /\ EndInv'
    BY <1>1, <2>1, <2>2, <2>5, <2>6 DEF FormatInv, EndInv
  <2> QED BY <1>1, <1>2, <2>1, <2>8, <2>9 DEF ScanInv
<1> QED BY <1>3, <1>4 DEF scan_step

LEMMA ScanBegins ==
  ASSUME NEW buffer, IsText(buffer), NEW fmt, IsString(fmt), vsscanf(buffer, fmt), job'.kind # "print"
  PROVE  ScanInv'
<1>1. /\ running' = "vsscanf" /\ format' = fmt /\ p' = 1 /\ flags' = {} /\ width' = UINT_MAX
      /\ input' = buffer /\ q' = 0 /\ converted' = 0 /\ bail' = "none" /\ stored' = <<>>
  BY DEF vsscanf
<1>2. IsText(stored') /\ Fitting(stored') /\ CountInv'
  <2>1. IsText(stored') /\ Fitting(stored') /\ Whole(stored') = {}
    BY <1>1, NothingStored, Zenon
  <2>2. Cardinality(Whole(stored')) = 0
    BY <2>1, NothingStored
  <2> QED BY <1>1, <2>1, <2>2 DEF CountInv
<1>3. InputInv'
  <2>1. IsText(input')
    BY <1>1, Zenon
  <2>2. Len(buffer) \in Nat
    BY DEF IsText
  <2> QED BY <1>1, <2>1, <2>2 DEF InputInv
<1>4. FormatInv'
  <2>1. IsString(format')
    BY <1>1, Zenon
  <2> QED BY <1>1, <2>1, WidestInt DEF FormatInv, DirectiveInv
<1>5. EndInv'
  BY <1>1 DEF EndInv
<1> QED BY <1>1, <1>2, <1>3, <1>4, <1>5 DEF ScanInv

(* The text that is read again ends where the first NUL is. *)
LEMMA WrittenIs ==
  ASSUME \E i \in 0..Room-1 : out.buffer[i] = "NUL" PROVE IsText(Written)
<1> DEFINE S == {i \in 0..Room-1 : out.buffer[i] = "NUL"}
<1>1. S # {} /\ S \subseteq Nat
  BY RoomAssumption
<1>2. PICK i \in S : \A j \in S : i <= j
  <2> HIDE DEF S
  <2> QED BY <1>1, LeastNatural
<1>3. \E l \in 0..Room-1 : out.buffer[l] = "NUL" /\ \A j \in 0..l-1 : out.buffer[j] # "NUL"
  BY <1>2, RoomAssumption
<1>4. PICK end : end = CHOOSE l \in 0..Room-1 : out.buffer[l] = "NUL" /\ \A j \in 0..l-1 : out.buffer[j] # "NUL"
  OBVIOUS
<1>5. end \in 0..Room-1
  BY <1>3, <1>4
<1>6. Written = [l \in 1..end |-> out.buffer[l - 1]]
  BY <1>4, Zenon DEF Written
<1> DEFINE R == {out.buffer[l - 1] : l \in 1..end}
<1>8. end \in Nat /\ \A l \in 1..end : out.buffer[l - 1] \in R
  BY <1>5, RoomAssumption
<1> HIDE DEF R
<1>7. Written \in Seq(R)
  BY <1>6, <1>8
<1> QED BY <1>7 DEF IsText

LEMMA PrintStep ==
  ASSUME print_step PROVE running = "vsnprintf" /\ running' \in {"vsnprintf", "none"}
<1>1. running = "vsnprintf" /\ (UNCHANGED loop \/ print_end)
  BY DEF print_step
<1> QED BY <1>1 DEF loop, print_end

LEMMA ScanInvHolds == Spec => []ScanInv
<1>1. Init => ScanInv
  <2> SUFFICES ASSUME Init PROVE ScanInv
    OBVIOUS
  <2>1. running = "none" /\ input = <<>> /\ q = 0 /\ stored = <<>> /\ job = NoJob
    BY DEF Init
  <2>2. IsText(stored) /\ Fitting(stored) /\ Whole(stored) = {} /\ IsText(input)
    BY <2>1, NothingStored, Zenon
  <2>3. Cardinality(Whole(stored)) = 0 /\ job.kind = "none" /\ Len(input) = 0
    BY <2>1, <2>2, NothingStored DEF NoJob
  <2> QED BY <2>1, <2>2, <2>3 DEF ScanInv, InputInv, CountInv, EndInv
<1>2. ScanInv /\ [Next]_vars => ScanInv'
  <2> SUFFICES ASSUME ScanInv, [Next]_vars PROVE ScanInv'
    OBVIOUS
  <2>1. ASSUME UNCHANGED <<format_vars, scan_only>>,
               job' = job \/ job'.kind \in {"memory", "ctype", "strtok"}
        PROVE  ScanInv'
    BY <2>1 DEF format_vars, scan_only, loop, directive, ScanInv, InputInv, CountInv, FormatInv, DirectiveInv, EndInv
  <2>2. ASSUME NEW j \in PrintJobs, CallsPrintf(j) PROVE ScanInv'
    <3>1. running' = "vsnprintf" /\ job'.kind = "print" /\ job'.back = j.back /\ UNCHANGED scan_only
      BY <2>2 DEF CallsPrintf, vsnprintf
    <3>2. IsString(j.back)
      BY LibraryAssumption
    <3> QED BY <3>1, <3>2 DEF ScanInv, scan_only, InputInv, CountInv, EndInv
  <2>3. ASSUME NEW j \in ScanJobs, CallsScanf(j) PROVE ScanInv'
    <3>1. vsscanf(j.input, j.format) /\ job'.kind = "scan"
      BY <2>3 DEF CallsScanf
    <3>2. IsText(j.input) /\ IsString(j.format)
      BY LibraryAssumption DEF IsString, IsText
    <3> QED BY <3>1, <3>2, ScanBegins
  <2>4. CASE ReadsAgain
    <3>1. vsscanf(Written, job.back) /\ job'.kind # "print" /\ job.kind = "print"
      BY <2>4, Zenon DEF ReadsAgain
    <3>2. IsText(Written)
      BY <2>4, WrittenIs DEF ReadsAgain
    <3>3. IsString(job.back)
      BY <3>1 DEF ScanInv
    <3> QED BY <3>1, <3>2, <3>3, ScanBegins
  <2>5. CASE Fills \/ CallsString \/ CallsStringToNul \/ CallsCtype \/ CallsStrtok
    <3>1. UNCHANGED <<format_vars, scan_only>>
      BY <2>5 DEF Fills, CallsString, CallsStringToNul, CallsCtype, CallsStrtok
    <3>2. job' = job \/ job'.kind \in {"memory", "ctype", "strtok"}
      BY <2>5 DEF Fills, CallsString, CallsStringToNul, CallsCtype, CallsStrtok
    <3> QED BY <2>1, <3>1, <3>2
  <2>6. CASE print_step /\ UNCHANGED <<scan_only, string_vars, job>>
    BY <2>6, PrintStep DEF ScanInv, scan_only, InputInv, CountInv, EndInv
  <2>7. CASE scan_step /\ UNCHANGED <<print_only, string_vars, job>>
    BY <2>7, ScanStep
  <2>8. CASE UNCHANGED vars
    BY <2>1, <2>8 DEF vars, format_vars
  <2> QED BY <2>2, <2>3, <2>4, <2>5, <2>6, <2>7, <2>8 DEF Next
<1> QED BY <1>1, <1>2, PTL DEF Spec

(* For every text and every format, vsscanf reads nothing past the NUL,    *)
(* stores no more than a width allows and returns the number of values     *)
(* that it has stored whole, or EOF.                                       *)
THEOREM ScansAreCounted == Spec => []ScanContract
<1>1. ScanInv => ScanContract
  <2> SUFFICES ASSUME ScanInv PROVE ScanContract
    OBVIOUS
  <2>1. q <= Len(input)
    BY DEF ScanInv, InputInv, IsText
  <2>2. Fitting(stored) /\ EndInv
    BY DEF ScanInv
  <2>3. \A i \in DOMAIN stored : stored[i].conv \in {"c", "s"} => Len(stored[i].value) <= stored[i].limit
    BY <2>2 DEF Fitting
  <2>4. running = "none" /\ job.kind = "scan" =>
          \/ converted = Cardinality(Whole(stored))
          \/ converted = -1 /\ Whole(stored) = {} /\ q = Len(input)
    BY <2>2 DEF EndInv
  <2> QED BY <2>1, <2>3, <2>4, Zenon DEF ScanContract, Whole
<1> QED BY <1>1, ScanInvHolds, PTL

(***************************************************************************)
(* strtok.                                                                 *)
(***************************************************************************)
(* The string b, whose NUL is at z, when strtok has passed the bytes below *)
(* e: each delimiter among them is a NUL.                                  *)
Parted(b, D, z, e) == [a \in DOMAIN b |-> IF a < e /\ a < z /\ b[a] \in D THEN 0 ELSE b[a]]
Delimited(b, L, z, D) == Holds(b, L) /\ EndsAt(b, L, 0, z) /\ 0 \notin D

LEMMA PartedIs ==
  ASSUME NEW L \in Nat, NEW b, NEW z, NEW D, Delimited(b, L, z, D), NEW e \in 0..z
  PROVE  LET m == Parted(b, D, z, e) IN
         /\ z \in 0..L /\ Holds(m, L) /\ EndsAt(m, L, e, z) /\ DOMAIN m = 0..L
         /\ \A a \in e..L : m[a] = b[a]
         /\ \A a \in 0..e-1 : m[a] = IF b[a] \in D THEN 0 ELSE b[a]
<1> DEFINE m == Parted(b, D, z, e)
<1>1. z \in 0..L /\ b \in [0..L -> Byte] /\ b[L] = 0 /\ b[z] = 0 /\ \A a \in 0..z-1 : b[a] # 0
  BY DEF Delimited, Holds, EndsAt
<1>2. m = [a \in 0..L |-> IF a < e /\ a < z /\ b[a] \in D THEN 0 ELSE b[a]]
  BY <1>1 DEF Parted
<1> HIDE DEF m
<1>3. m \in [0..L -> Byte]
  BY <1>1, <1>2 DEF Byte
<1>4. \A a \in e..L : m[a] = b[a]
  BY <1>1, <1>2
<1>5. \A a \in 0..e-1 : m[a] = IF b[a] \in D THEN 0 ELSE b[a]
  BY <1>1, <1>2
<1>6. Holds(m, L)
  BY <1>1, <1>3, <1>4 DEF Holds
<1>7. EndsAt(m, L, e, z)
  BY <1>1, <1>4 DEF EndsAt
<1> QED BY <1>1, <1>3, <1>4, <1>5, <1>6, <1>7 DEF m

(* strsep of what is left, from h on. *)
LEMMA StrsepIs ==
  ASSUME NEW L \in Nat, NEW b, NEW z, NEW D, Delimited(b, L, z, D), NEW h \in 0..z
  PROVE  LET x == strsep(Parted(b, D, z, h), h, D) IN
         \/ \E e \in h..z-1 : /\ b[e] \in D /\ \A a \in h..e-1 : b[a] \notin D
                              /\ x = [ret |-> h, mem |-> Parted(b, D, z, e + 1), rest |-> e + 1]
         \/ /\ \A a \in h..z-1 : b[a] \notin D
            /\ x = [ret |-> h, mem |-> Parted(b, D, z, z), rest |-> NULL]
<1> DEFINE m == Parted(b, D, z, h)
           r == strpbrk(m, h, D)
<1>1. /\ z \in 0..L /\ Holds(m, L) /\ EndsAt(m, L, h, z) /\ DOMAIN m = 0..L
      /\ \A a \in h..L : m[a] = b[a]
      /\ \A a \in 0..h-1 : m[a] = IF b[a] \in D THEN 0 ELSE b[a]
  BY PartedIs
<1>2. DOMAIN b = 0..L /\ 0 \notin D
  BY DEF Delimited, Holds
<1> HIDE DEF m
<1>3. h \in 0..L /\ h # NULL
  BY <1>1 DEF NULL
<1>4. \/ r = NULL /\ \A a \in h..z-1 : m[a] \notin D
      \/ r \in h..z-1 /\ m[r] \in D /\ \A a \in h..r-1 : m[a] \notin D
  BY <1>1, <1>2, <1>3, StrpbrkIs
<1>5. strsep(m, h, D) = IF r = NULL THEN [ret |-> h, mem |-> m, rest |-> NULL]
                        ELSE [ret |-> h, mem |-> [m EXCEPT ![r] = 0], rest |-> r + 1]
  BY <1>3 DEF strsep
<1> HIDE DEF r
<1>6. CASE r = NULL
  <2>1. \A a \in h..z-1 : m[a] \notin D
    BY <1>3, <1>4, <1>6 DEF NULL
  <2>2. \A a \in h..z-1 : b[a] \notin D
    BY <1>1, <2>1
  <2>3. m = Parted(b, D, z, z)
    <3>1. \A a \in 0..L : (a < h /\ a < z /\ b[a] \in D) <=> (a < z /\ a < z /\ b[a] \in D)
      BY <1>1, <2>2
    <3> QED BY <1>2, <3>1 DEF m, Parted
  <2> QED BY <1>5, <1>6, <2>2, <2>3 DEF m
<1>7. CASE r # NULL
  <2>1. r \in h..z-1 /\ m[r] \in D /\ \A a \in h..r-1 : m[a] \notin D
    BY <1>4, <1>7
  <2>2. b[r] \in D /\ \A a \in h..r-1 : b[a] \notin D
    BY <1>1, <2>1
  <2>3. [m EXCEPT ![r] = 0] = Parted(b, D, z, r + 1)
    <3>1. DOMAIN Parted(b, D, z, r + 1) = 0..L /\ DOMAIN m = 0..L
      BY <1>1, <1>2 DEF Parted
    <3>2. ASSUME NEW a \in 0..L PROVE [m EXCEPT ![r] = 0][a] = Parted(b, D, z, r + 1)[a]
      <4>1. m[a] = IF a < h /\ a < z /\ b[a] \in D THEN 0 ELSE b[a]
        BY <1>2 DEF m, Parted
      <4>2. Parted(b, D, z, r + 1)[a] = IF a < r + 1 /\ a < z /\ b[a] \in D THEN 0 ELSE b[a]
        BY <1>2 DEF Parted
      <4>3. CASE a = r
        BY <1>1, <2>1, <2>2, <4>2, <4>3
      <4>4. CASE a # r
        <5>1. (a < r + 1 /\ a < z /\ b[a] \in D) <=> (a < h /\ a < z /\ b[a] \in D)
          BY <1>1, <2>1, <2>2, <4>4
        <5> QED BY <1>1, <4>1, <4>2, <4>4, <5>1
      <4> QED BY <4>3, <4>4
    <3>3. Parted(b, D, z, r + 1) = [a \in 0..L |-> Parted(b, D, z, r + 1)[a]]
      BY <1>2 DEF Parted
    <3>4. [m EXCEPT ![r] = 0] = [a \in 0..L |-> [m EXCEPT ![r] = 0][a]]
      BY <3>1
    <3> QED BY <3>2, <3>3, <3>4
  <2> QED BY <1>5, <1>7, <2>1, <2>2, <2>3 DEF m
<1> QED BY <1>6, <1>7

SepStep(x, D) == IF x.ret # NULL /\ x.mem[x.ret] = 0 THEN strsep(x.mem, x.rest, D) ELSE x
SepFrom(f, m, s, D, k) == f = [i \in 0..k |-> IF i = 0 THEN strsep(m, s, D) ELSE SepStep(f[i - 1], D)]

(* The loop is what any function with the same recursion is. *)
LEMMA StrtokLoop ==
  ASSUME NEW L \in Nat, NEW m, DOMAIN m = 0..L, NEW s, NEW D,
         NEW g, SepFrom(g, m, s, D, L + 1)
  PROVE  strtokFrom(m, s, D) = g[L + 1]
<1> DEFINE k == L + 1
           h == CHOOSE f : SepFrom(f, m, s, D, k)
<1>1. Cardinality(DOMAIN m) = k
  BY FS_Interval
<1>2. SepFrom(h, m, s, D, k)
  OBVIOUS
<1>3. strtokFrom(m, s, D) = h[k]
  BY <1>1 DEF strtokFrom, SepFrom, SepStep
<1> HIDE DEF h, k
<1>4. k \in Nat /\ SepFrom(g, m, s, D, k)
  BY DEF k
<1> DEFINE T == {i \in 0..k : h[i] = g[i]}
<1>5. 0 \in T
  BY <1>2, <1>4 DEF SepFrom
<1>6. ASSUME NEW i \in 1..k, i - 1 \in T PROVE i \in T
  BY <1>6, <1>2, <1>4 DEF SepFrom
<1>7. k \in T
  <2> HIDE DEF T
  <2>1. 0..k \subseteq T
    BY <1>4, <1>5, <1>6, Upwards
  <2> QED BY <1>4, <2>1
<1> QED BY <1>3, <1>7 DEF k

LEMMA StrtokNothing ==
  ASSUME NEW L \in Nat, NEW m, DOMAIN m = 0..L, NEW D
  PROVE  strtokFrom(m, NULL, D) = [ret |-> NULL, mem |-> m, rest |-> NULL]
<1> DEFINE x == [ret |-> NULL, mem |-> m, rest |-> NULL]
           g == [i \in 0..L+1 |-> x]
<1>1. strsep(m, NULL, D) = x
  BY DEF strsep
<1>2. SepStep(x, D) = x
  BY DEF SepStep
<1> HIDE DEF x
<1>3. SepFrom(g, m, NULL, D, L + 1)
  BY <1>1, <1>2 DEF SepFrom
<1>4. strtokFrom(m, NULL, D) = g[L + 1]
  <2> HIDE DEF g
  <2> QED BY <1>3, StrtokLoop
<1> QED BY <1>4 DEF x

(* From h on the next token starts at w, where the delimiters end.         *)
LEMMA StrtokIs ==
  ASSUME NEW L \in Nat, NEW b, NEW z, NEW D, Delimited(b, L, z, D), NEW h \in 0..z,
         NEW w \in h..z, \A a \in h..w-1 : b[a] \in D, w = z \/ b[w] \notin D
  PROVE  strtokFrom(Parted(b, D, z, h), h, D) =
           IF w < z THEN strsep(Parted(b, D, z, w), w, D)
           ELSE [ret |-> NULL, mem |-> Parted(b, D, z, z), rest |-> NULL]
<1> DEFINE Sep(a) == strsep(Parted(b, D, z, a), a, D)
           done == [ret |-> NULL, mem |-> Parted(b, D, z, z), rest |-> NULL]
           g == [i \in 0..L+1 |-> IF i <= w - h THEN Sep(h + i) ELSE IF w < z THEN Sep(w) ELSE done]
<1>1. z \in 0..L /\ b[z] = 0 /\ \A a \in 0..z-1 : b[a] # 0
  BY DEF Delimited, EndsAt
<1>2. ASSUME NEW a \in h..w-1 PROVE SepStep(Sep(a), D) = Sep(a + 1)
  <2>1. a \in 0..z /\ a \in a..z-1 /\ b[a] \in D /\ a + 1 \in 0..z
    BY <1>1
  <2>2. Sep(a) = [ret |-> a, mem |-> Parted(b, D, z, a + 1), rest |-> a + 1]
    <3>1. \/ \E e \in a..z-1 : /\ b[e] \in D /\ \A j \in a..e-1 : b[j] \notin D
                              /\ Sep(a) = [ret |-> a, mem |-> Parted(b, D, z, e + 1), rest |-> e + 1]
          \/ /\ \A j \in a..z-1 : b[j] \notin D
             /\ Sep(a) = [ret |-> a, mem |-> Parted(b, D, z, z), rest |-> NULL]
      BY <2>1, StrsepIs
    <3> HIDE DEF Sep
    <3>2. PICK e \in a..z-1 : /\ b[e] \in D /\ \A j \in a..e-1 : b[j] \notin D
                              /\ Sep(a) = [ret |-> a, mem |-> Parted(b, D, z, e + 1), rest |-> e + 1]
      BY <2>1, <3>1
    <3>3. e = a
      BY <2>1, <3>2
    <3> QED BY <3>2, <3>3
  <2>3. Parted(b, D, z, a + 1)[a] = 0
    BY <2>1, PartedIs
  <2>4. a # NULL
    BY DEF NULL
  <2> HIDE DEF Sep
  <2>5. SepStep(Sep(a), D) = strsep(Parted(b, D, z, a + 1), a + 1, D)
    BY <2>2, <2>3, <2>4 DEF SepStep
  <2> QED BY <2>5 DEF Sep
<1>3. w < z => SepStep(Sep(w), D) = Sep(w)
  <2> SUFFICES ASSUME w < z PROVE SepStep(Sep(w), D) = Sep(w)
    OBVIOUS
  <2>1. w \in 0..z /\ b[w] \notin D /\ b[w] # 0 /\ w \in 0..L
    BY <1>1
  <2>2. \/ \E e \in w..z-1 : /\ b[e] \in D /\ \A j \in w..e-1 : b[j] \notin D
                             /\ Sep(w) = [ret |-> w, mem |-> Parted(b, D, z, e + 1), rest |-> e + 1]
        \/ /\ \A j \in w..z-1 : b[j] \notin D
           /\ Sep(w) = [ret |-> w, mem |-> Parted(b, D, z, z), rest |-> NULL]
    BY <2>1, StrsepIs
  <2> HIDE DEF Sep
  <2>3. PICK e \in w+1..z : Sep(w).ret = w /\ Sep(w).mem = Parted(b, D, z, e)
    <3>1. CASE \A j \in w..z-1 : b[j] \notin D
      <4>1. Sep(w) = [ret |-> w, mem |-> Parted(b, D, z, z), rest |-> NULL]
        BY <2>2, <3>1
      <4>2. z \in w+1..z
        BY <1>1
      <4> QED BY <4>1, <4>2
    <3>2. CASE \E j \in w..z-1 : b[j] \in D
      <4>1. PICK e \in w..z-1 : Sep(w) = [ret |-> w, mem |-> Parted(b, D, z, e + 1), rest |-> e + 1]
        BY <2>2, <3>2
      <4>2. e + 1 \in w+1..z
        BY <1>1
      <4> QED BY <4>1, <4>2
    <3> QED BY <3>1, <3>2
  <2>4. Parted(b, D, z, e)[w] = b[w]
    BY <2>1, <2>3, PartedIs
  <2> QED BY <2>1, <2>3, <2>4 DEF SepStep
<1>4. w = z => SepStep(Sep(z), D) = done
  <2>1. z \in 0..z
    BY <1>1
  <2>2. Sep(z) = [ret |-> z, mem |-> Parted(b, D, z, z), rest |-> NULL]
    BY <1>1, <2>1, StrsepIs
  <2>3. Parted(b, D, z, z)[z] = 0 /\ z # NULL
    BY <1>1, <2>1, PartedIs DEF NULL
  <2>4. strsep(Parted(b, D, z, z), NULL, D) = done
    BY DEF strsep
  <2> HIDE DEF Sep, done
  <2> QED BY <2>2, <2>3, <2>4 DEF SepStep
<1>5. SepStep(done, D) = done
  BY DEF SepStep
<1> HIDE DEF Sep, done
<1>6. g[0] = Sep(h)
  BY <1>1
<1>7. ASSUME NEW i \in 1..L+1 PROVE g[i] = SepStep(g[i - 1], D)
  <2>1. i \in 0..L+1 /\ i - 1 \in 0..L+1
    BY <1>1
  <2>2. CASE i <= w - h
    <3>1. g[i] = Sep(h + i) /\ g[i - 1] = Sep(h + (i - 1))
      BY <1>1, <2>1, <2>2
    <3>2. h + (i - 1) \in h..w-1 /\ (h + (i - 1)) + 1 = h + i
      BY <1>1, <2>2
    <3> QED BY <1>2, <3>1, <3>2
  <2>3. CASE i > w - h /\ w < z
    <3>1. g[i] = Sep(w) /\ g[i - 1] = Sep(w)
      <4>1. i - 1 <= w - h => h + (i - 1) = w
        BY <1>1, <2>3
      <4> QED BY <1>1, <2>1, <2>3, <4>1
    <3> QED BY <1>3, <2>3, <3>1
  <2>4. CASE i > w - h /\ ~(w < z)
    <3>1. w = z /\ g[i] = done
      BY <1>1, <2>1, <2>4
    <3>2. g[i - 1] \in {Sep(z), done}
      <4>1. i - 1 <= w - h => h + (i - 1) = z
        BY <1>1, <2>4
      <4> QED BY <1>1, <2>1, <2>4, <4>1
    <3> QED BY <1>4, <1>5, <3>1, <3>2
  <2> QED BY <1>1, <2>2, <2>3, <2>4
<1>8. g[L + 1] = IF w < z THEN Sep(w) ELSE done
  BY <1>1
<1>9. g = [i \in 0..L+1 |-> g[i]]
  OBVIOUS
<1> HIDE DEF g
<1>10. SepFrom(g, Parted(b, D, z, h), h, D, L + 1)
  <2>1. \A i \in 0..L+1 : g[i] = IF i = 0 THEN Sep(h) ELSE SepStep(g[i - 1], D)
    BY <1>6, <1>7
  <2> QED BY <1>9, <2>1 DEF SepFrom, Sep
<1>11. DOMAIN Parted(b, D, z, h) = 0..L
  BY PartedIs
<1>12. strtokFrom(Parted(b, D, z, h), h, D) = g[L + 1]
  BY <1>10, <1>11, StrtokLoop
<1> QED BY <1>8, <1>12 DEF Sep, done

(* Where the tokens of the string start. *)
Starts(b, D, z) == {a \in 0..z-1 : b[a] \notin D /\ (a = 0 \/ b[a - 1] \in D)}
StartsBelow(b, D, z, e) == {a \in Starts(b, D, z) : a < e}
(* A position at which the next token can start. *)
AfterDelimiter(b, D, e) == e = 0 \/ b[e - 1] \in D

(* One call takes the next token and nothing else, or there is none.       *)
LEMMA TokenTaken ==
  ASSUME NEW L \in Nat, NEW b, NEW z, NEW D, Delimited(b, L, z, D), NEW h \in 0..z, AfterDelimiter(b, D, h)
  PROVE  LET x == strtokFrom(Parted(b, D, z, h), h, D) IN
         \/ /\ x = [ret |-> NULL, mem |-> Parted(b, D, z, z), rest |-> NULL]
            /\ StartsBelow(b, D, z, z) = StartsBelow(b, D, z, h)
         \/ \E f \in 0..z :
              /\ x.ret \in h..z-1 /\ x.mem = Parted(b, D, z, f)
              /\ StartsBelow(b, D, z, f) = StartsBelow(b, D, z, h) \cup {x.ret}
              /\ (x.rest = NULL /\ f = z) \/ (x.rest = f /\ AfterDelimiter(b, D, f))
<1> DEFINE x == strtokFrom(Parted(b, D, z, h), h, D)
           S == {a \in h..z : a = z \/ b[a] \notin D}
<1>1. z \in Nat /\ z \in S /\ S \subseteq Nat
  BY DEF Delimited, EndsAt
<1>2. PICK w \in S : \A a \in S : w <= a
  <2> HIDE DEF S
  <2> QED BY <1>1, LeastNatural
<1>3. w \in h..z /\ (w = z \/ b[w] \notin D)
  OBVIOUS
<1>4. \A a \in h..w-1 : b[a] \in D
  BY <1>1, <1>2
<1>5. x = IF w < z THEN strsep(Parted(b, D, z, w), w, D)
          ELSE [ret |-> NULL, mem |-> Parted(b, D, z, z), rest |-> NULL]
  BY <1>3, <1>4, StrtokIs
<1> HIDE DEF x, S
<1>6. ASSUME NEW a \in Starts(b, D, z), a >= h, a < w PROVE FALSE
  BY <1>1, <1>3, <1>4, <1>6 DEF Starts
<1>7. CASE w = z
  <2>1. StartsBelow(b, D, z, z) = StartsBelow(b, D, z, h)
    BY <1>1, <1>6, <1>7 DEF StartsBelow, Starts
  <2> QED BY <1>1, <1>5, <1>7, <2>1 DEF x
<1>8. CASE w < z
  <2>1. w \in 0..z /\ w \in Starts(b, D, z)
    <3>1. w = 0 \/ b[w - 1] \in D
      <4>1. CASE w = h
        BY <4>1 DEF AfterDelimiter
      <4>2. CASE w # h
        <5>1. w - 1 \in h..w-1
          BY <1>1, <1>3, <4>2
        <5> QED BY <1>4, <5>1
      <4> QED BY <4>1, <4>2
    <3> QED BY <1>1, <1>3, <1>8, <3>1 DEF Starts
  <2>2. \/ \E e \in w..z-1 : /\ b[e] \in D /\ \A a \in w..e-1 : b[a] \notin D
                             /\ x = [ret |-> w, mem |-> Parted(b, D, z, e + 1), rest |-> e + 1]
        \/ /\ \A a \in w..z-1 : b[a] \notin D
           /\ x = [ret |-> w, mem |-> Parted(b, D, z, z), rest |-> NULL]
    BY <1>5, <1>8, <2>1, StrsepIs
  <2>3. ASSUME NEW e \in w+1..z, \A a \in w..e-2 : b[a] \notin D
        PROVE  StartsBelow(b, D, z, e) = StartsBelow(b, D, z, h) \cup {w}
    <3>1. ASSUME NEW a \in Starts(b, D, z), a < e PROVE a < h \/ a = w
      <4> SUFFICES ASSUME a > w PROVE FALSE
        BY <1>1, <1>6, <3>1 DEF Starts
      <4>1. a - 1 \in w..e-2 /\ a # 0
        BY <1>1, <1>3, <3>1 DEF Starts
      <4> QED BY <2>3, <3>1, <4>1 DEF Starts
    <3>2. \A a \in Starts(b, D, z) : a < h => a < e
      BY <1>1, <1>3 DEF Starts
    <3>3. w < e
      BY <1>1, <1>3
    <3> QED BY <2>1, <3>1, <3>2, <3>3 DEF StartsBelow
  <2>4. CASE \A a \in w..z-1 : b[a] \notin D
    <3>1. x = [ret |-> w, mem |-> Parted(b, D, z, z), rest |-> NULL]
      BY <2>2, <2>4
    <3>2. StartsBelow(b, D, z, z) = StartsBelow(b, D, z, h) \cup {w}
      <4>1. z \in w+1..z /\ \A a \in w..z-2 : a \in w..z-1
        BY <1>1, <1>3, <1>8
      <4> QED BY <2>3, <2>4, <4>1
    <3>3. x.ret = w /\ x.mem = Parted(b, D, z, z) /\ x.rest = NULL /\ w \in h..z-1 /\ z \in 0..z
      BY <1>1, <1>3, <1>8, <3>1
    <3> QED BY <3>2, <3>3 DEF x
  <2>5. CASE \E a \in w..z-1 : b[a] \in D
    <3>1. PICK e \in w..z-1 : /\ b[e] \in D /\ \A a \in w..e-1 : b[a] \notin D
                              /\ x = [ret |-> w, mem |-> Parted(b, D, z, e + 1), rest |-> e + 1]
      BY <2>2, <2>5
    <3>2. e + 1 \in w+1..z /\ (e + 1) - 2 = e - 1 /\ e + 1 \in 0..z /\ (e + 1) - 1 = e
      BY <1>1, <1>3
    <3>3. StartsBelow(b, D, z, e + 1) = StartsBelow(b, D, z, h) \cup {w}
      BY <2>3, <3>1, <3>2
    <3>4. AfterDelimiter(b, D, e + 1)
      BY <3>1, <3>2 DEF AfterDelimiter
    <3>5. x.ret = w /\ x.mem = Parted(b, D, z, e + 1) /\ x.rest = e + 1 /\ w \in h..z-1
      BY <1>1, <1>3, <1>8, <3>1
    <3> QED BY <3>2, <3>3, <3>4, <3>5 DEF x
  <2> QED BY <2>4, <2>5
<1> QED BY <1>1, <1>3, <1>7, <1>8

(* A list of the members of S in their order. *)
Lists(t, S) == t \in Seq(Int) /\ {t[i] : i \in 1..Len(t)} = S /\ \A i, j \in 1..Len(t) : i < j => t[i] < t[j]

LEMMA ListsOneMore ==
  ASSUME NEW t, NEW S, Lists(t, S), NEW r \in Int, \A a \in S : a < r
  PROVE  Lists(Append(t, r), S \cup {r})
<1> DEFINE u == Append(t, r)
<1>1. /\ u \in Seq(Int) /\ Len(u) = Len(t) + 1 /\ Len(t) \in Nat /\ u[Len(t) + 1] = r
      /\ \A i \in 1..Len(t) : u[i] = t[i]
  BY DEF Lists
<1> HIDE DEF u
<1>2. {u[i] : i \in 1..Len(u)} = S \cup {r}
  <2>1. \A i \in 1..Len(u) : i \in 1..Len(t) \/ i = Len(t) + 1
    BY <1>1
  <2>2. \A i \in 1..Len(t) : i \in 1..Len(u)
    BY <1>1
  <2>3. Len(t) + 1 \in 1..Len(u)
    BY <1>1
  <2>4. {t[i] : i \in 1..Len(t)} = S
    BY DEF Lists
  <2> QED BY <1>1, <2>1, <2>2, <2>3, <2>4
<1>3. ASSUME NEW i \in 1..Len(u), NEW j \in 1..Len(u), i < j PROVE u[i] < u[j]
  <2>1. i \in 1..Len(t) /\ u[i] = t[i] /\ t[i] \in S
    BY <1>1, <1>3 DEF Lists
  <2>2. CASE j \in 1..Len(t)
    BY <1>1, <1>3, <2>1, <2>2 DEF Lists
  <2>3. CASE j = Len(t) + 1
    BY <1>1, <2>1, <2>3
  <2> QED BY <1>1, <2>2, <2>3
<1> QED BY <1>1, <1>2, <1>3 DEF Lists, u

(* What has been done up to the byte e: its tokens are listed in t.        *)
Progress(b, m, rest, z, D, t, e) ==
  /\ e \in 0..z /\ m = Parted(b, D, z, e) /\ Lists(t, StartsBelow(b, D, z, e))
  /\ (rest = NULL /\ e = z) \/ (rest = e /\ AfterDelimiter(b, D, e))
Tokens(b, m, rest, r, D, tokens) ==
  \E L \in Nat : \E z \in 0..L, t \in Seq(Int) :
    /\ Delimited(b, L, z, D)
    /\ \E e \in 0..z : Progress(b, m, rest, z, D, t, e)
    /\ IF r = NULL THEN rest = NULL /\ tokens = Append(t, NULL) ELSE tokens = t
TokenInv == job.kind = "strtok" => Tokens(before, mem, holder, ret, call.delim, job.tokens)

LEMMA TokensAre ==
  ASSUME NEW L \in Nat, NEW z \in 0..L, NEW t \in Seq(Int), NEW b, NEW D, Delimited(b, L, z, D),
         NEW m, NEW rest, NEW e \in 0..z, Progress(b, m, rest, z, D, t, e),
         NEW r, NEW tokens, IF r = NULL THEN rest = NULL /\ tokens = Append(t, NULL) ELSE tokens = t
  PROVE  Tokens(b, m, rest, r, D, tokens)
BY DEF Tokens

(* The next call, from what h has been done. *)
LEMMA NextToken ==
  ASSUME NEW L \in Nat, NEW z \in 0..L, NEW D, NEW t \in Seq(Int), Delimited(before, L, z, D),
         NEW h \in 0..z, AfterDelimiter(before, D, h), mem = Parted(before, D, z, h),
         Lists(t, StartsBelow(before, D, z, h)),
         NEW s, (IF s # NULL THEN s ELSE holder) = h, strtok(s, D),
         job'.kind = "strtok", job'.tokens = Append(t, ret')
  PROVE  TokenInv'
<1> DEFINE x == strtokFrom(Parted(before, D, z, h), h, D)
<1>0. L \in Nat /\ h \in 0..z /\ Delimited(before, L, z, D) /\ AfterDelimiter(before, D, h)
  OBVIOUS
<1>1. /\ before' = before /\ mem' = x.mem /\ ret' = x.ret /\ holder' = x.rest /\ call'.delim = D
  BY DEF strtok
<1>2. \/ /\ x = [ret |-> NULL, mem |-> Parted(before, D, z, z), rest |-> NULL]
         /\ StartsBelow(before, D, z, z) = StartsBelow(before, D, z, h)
      \/ \E f \in 0..z :
           /\ x.ret \in h..z-1 /\ x.mem = Parted(before, D, z, f)
           /\ StartsBelow(before, D, z, f) = StartsBelow(before, D, z, h) \cup {x.ret}
           /\ (x.rest = NULL /\ f = z) \/ (x.rest = f /\ AfterDelimiter(before, D, f))
  BY ONLY <1>0, TokenTaken
<1> HIDE DEF x
<1>3. CASE /\ x = [ret |-> NULL, mem |-> Parted(before, D, z, z), rest |-> NULL]
           /\ StartsBelow(before, D, z, z) = StartsBelow(before, D, z, h)
  <2>1. ret' = NULL /\ holder' = NULL /\ mem' = Parted(before, D, z, z) /\ z \in 0..z
    BY <1>1, <1>3
  <2>2. Lists(t, StartsBelow(before, D, z, z))
    BY <1>3
  <2>3. Progress(before, mem', holder', z, D, t, z)
    BY <2>1, <2>2 DEF Progress
  <2>4. Tokens(before, mem', holder', ret', D, job'.tokens)
    BY <2>1, <2>3, TokensAre
  <2> QED BY <1>1, <2>4, Zenon DEF TokenInv
<1>4. CASE \E f \in 0..z :
           /\ x.ret \in h..z-1 /\ x.mem = Parted(before, D, z, f)
           /\ StartsBelow(before, D, z, f) = StartsBelow(before, D, z, h) \cup {x.ret}
           /\ (x.rest = NULL /\ f = z) \/ (x.rest = f /\ AfterDelimiter(before, D, f))
  <2>1. PICK f \in 0..z :
           /\ x.ret \in h..z-1 /\ x.mem = Parted(before, D, z, f)
           /\ StartsBelow(before, D, z, f) = StartsBelow(before, D, z, h) \cup {x.ret}
           /\ (x.rest = NULL /\ f = z) \/ (x.rest = f /\ AfterDelimiter(before, D, f))
    BY <1>4
  <2>2. ret' \in Int /\ ret' # NULL /\ \A a \in StartsBelow(before, D, z, h) : a < ret'
    BY <1>1, <2>1 DEF NULL, StartsBelow, Starts
  <2>3. Lists(Append(t, ret'), StartsBelow(before, D, z, f))
    BY <1>1, <2>1, <2>2, ListsOneMore, SMTT(30)
  <2>4. Progress(before, mem', holder', z, D, Append(t, ret'), f)
    BY <1>1, <2>1, <2>3 DEF Progress
  <2>5. Append(t, ret') \in Seq(Int)
    BY <2>2
  <2>6. Tokens(before, mem', holder', ret', D, job'.tokens)
    BY <2>2, <2>4, <2>5, TokensAre
  <2> QED BY <1>1, <2>6, Zenon DEF TokenInv
<1> QED BY <1>2, <1>3, <1>4

LEMMA FirstToken ==
  ASSUME mem = before, IsMemory(mem), NEW delim \in SUBSET (Chars \ {0}), strtok(0, delim),
         job' = [kind |-> "strtok", tokens |-> <<ret'>>]
  PROVE  TokenInv'
<1>1. PICK L \in Nat : Holds(before, L)
  BY MemoryIs DEF Holds
<1>2. 0 \in 0..L
  OBVIOUS
<1>3. PICK z \in 0..L : EndsAt(before, L, 0, z)
  BY <1>1, <1>2, StringEnds
<1>4. Delimited(before, L, z, delim)
  BY <1>1, <1>3 DEF Delimited
<1>5. mem = Parted(before, delim, z, 0)
  <2>1. DOMAIN before = 0..L /\ before = [a \in 0..L |-> before[a]]
    BY <1>1 DEF Holds
  <2>2. \A a \in 0..L : ~(a < 0)
    OBVIOUS
  <2> QED BY <2>1, <2>2 DEF Parted
<1>6. Lists(<<>>, StartsBelow(before, delim, z, 0))
  <2>1. StartsBelow(before, delim, z, 0) = {}
    BY DEF StartsBelow, Starts
  <2> QED BY <2>1 DEF Lists
<1>7. 0 \in 0..z /\ AfterDelimiter(before, delim, 0) /\ 0 # NULL /\ <<>> \in Seq(Int)
  BY DEF AfterDelimiter, NULL
<1>8. job'.kind = "strtok" /\ job'.tokens = Append(<<>>, ret')
  OBVIOUS
<1> QED BY <1>4, <1>5, <1>6, <1>7, <1>8, NextToken

LEMMA LaterToken ==
  ASSUME TokenInv, job.kind = "strtok", ret # NULL, strtok(NULL, call.delim),
         job' = [kind |-> "strtok", tokens |-> Append(job.tokens, ret')]
  PROVE  TokenInv'
<1> DEFINE D == call.delim
<1>1. PICK L \in Nat : \E z \in 0..L, t \in Seq(Int) :
        /\ Delimited(before, L, z, D)
        /\ \E e \in 0..z : Progress(before, mem, holder, z, D, t, e)
        /\ job.tokens = t
  BY DEF TokenInv, Tokens
<1>2. PICK z \in 0..L, t \in Seq(Int) :
        /\ Delimited(before, L, z, D)
        /\ \E e \in 0..z : Progress(before, mem, holder, z, D, t, e)
        /\ job.tokens = t
  BY <1>1
<1>3. PICK e \in 0..z : Progress(before, mem, holder, z, D, t, e)
  BY <1>2
<1>4. job'.kind = "strtok" /\ job'.tokens = Append(t, ret')
  BY <1>2
<1> HIDE DEF D
<1>5. CASE holder = e /\ AfterDelimiter(before, D, e)
  <2>1. (IF NULL # NULL THEN NULL ELSE holder) = e
    BY <1>5
  <2>2. strtok(NULL, D)
    BY DEF D
  <2> QED BY <1>2, <1>3, <1>4, <1>5, <2>1, <2>2, NextToken DEF Progress
<1>6. CASE holder = NULL /\ e = z
  <2>1. mem = Parted(before, D, z, z) /\ z \in 0..z
    BY <1>3, <1>6 DEF Progress
  <2>2. DOMAIN mem = 0..L
    BY <1>2, <2>1, PartedIs
  <2>3. strtokFrom(mem, NULL, D) = [ret |-> NULL, mem |-> mem, rest |-> NULL]
    BY <2>2, StrtokNothing
  <2>4. /\ before' = before /\ mem' = mem /\ ret' = NULL /\ holder' = NULL /\ call'.delim = D
    <3>1. strtok(NULL, D)
      BY DEF D
    <3> QED BY <1>6, <2>3, <3>1 DEF strtok
  <2>5. Progress(before, mem, NULL, z, D, t, z)
    BY <1>3, <1>6 DEF Progress
  <2>6. Tokens(before, mem, NULL, NULL, D, Append(t, NULL))
    BY <1>2, <2>1, <2>5, TokensAre
  <2> QED BY <1>4, <2>4, <2>6, Zenon DEF TokenInv
<1> QED BY <1>3, <1>5, <1>6 DEF Progress

LEMMA TokenInvHolds == Spec => []TokenInv
<1>1. Init => TokenInv
  BY DEF Init, TokenInv, NoJob
<1>2. TokenInv /\ CallInv /\ [Next]_vars => TokenInv'
  <2> SUFFICES ASSUME TokenInv, CallInv, [Next]_vars PROVE TokenInv'
    OBVIOUS
  <2>1. CASE Formatting
    <3>1. /\ before' = before /\ mem' = mem /\ holder' = holder /\ ret' = ret /\ call' = call
          /\ (job' = job \/ job'.kind # "strtok")
      <4>1. before' = before /\ mem' = mem /\ holder' = holder /\ ret' = ret /\ call' = call
        BY <2>1, Zenon DEF Formatting, string_vars
      <4>2. job' = job \/ job'.kind # "strtok"
        BY <2>1, Zenon DEF Formatting
      <4> QED BY <4>1, <4>2
    <3> QED BY <3>1 DEF TokenInv
  <2>2. CASE Fills \/ CallsCtype
    <3>1. job'.kind # "strtok"
      BY <2>2 DEF Fills, CallsCtype
    <3> QED BY <3>1 DEF TokenInv
  <2>3. CASE CallsString \/ CallsStringToNul
    <3>1. job' = job /\ job.kind = "memory"
      BY <2>3 DEF CallsString, CallsStringToNul
    <3> QED BY <3>1 DEF TokenInv
  <2>4. CASE CallsStrtok
    <3>1. CASE /\ job.kind = "memory" /\ call.fn = "none"
               /\ \E delim \in SUBSET (Chars \ {0}) : strtok(0, delim)
               /\ job' = [kind |-> "strtok", tokens |-> <<ret'>>]
      <4>1. mem = before /\ IsMemory(mem)
        BY <3>1 DEF CallInv
      <4> QED BY <3>1, <4>1, FirstToken
    <3>2. CASE /\ job.kind = "strtok" /\ ret # NULL
               /\ strtok(NULL, call.delim)
               /\ job' = [kind |-> "strtok", tokens |-> Append(job.tokens, ret')]
      BY <3>2, LaterToken
    <3> QED BY <2>4, <3>1, <3>2 DEF CallsStrtok
  <2> QED BY <2>1, <2>2, <2>3, <2>4, StepOfProgram
<1> QED BY <1>1, <1>2, CallInvHolds, PTL DEF Spec

(* A token ends at the first delimiter, or at the NUL of the whole string, *)
(* and is a string of its own.                                             *)
LEMMA TokenEnds ==
  ASSUME NEW L \in Nat, NEW z, NEW D, Delimited(before, L, z, D), mem = Parted(before, D, z, z),
         NEW s \in Starts(before, D, z), NEW S,
         \A b : b \in S <=> b \in 0..L /\ b > s /\ ~(b < z /\ before[b] \notin D)
  PROVE  strlen(mem, s) = Min(S) - s
<1> DEFINE T == {b \in s..z : b = z \/ before[b] \in D}
<1>1. z \in 0..L /\ s \in 0..z-1 /\ before[s] \notin D
  BY DEF Delimited, EndsAt, Starts
<1>2. /\ Holds(mem, L) /\ Holds(before, L) /\ before[z] = 0 /\ mem[z] = 0
      /\ \A a \in 0..z-1 : before[a] # 0 /\ mem[a] = IF before[a] \in D THEN 0 ELSE before[a]
  <2>1. z \in 0..z
    BY <1>1
  <2>2. Holds(mem, L) /\ \A a \in 0..z-1 : mem[a] = IF before[a] \in D THEN 0 ELSE before[a]
    BY <2>1, PartedIs
  <2>3. mem[z] = before[z]
    BY <1>1, <2>1, PartedIs
  <2> QED BY <2>2, <2>3 DEF Delimited, EndsAt
<1>3. z \in T /\ T \subseteq Nat
  BY <1>1
<1>4. PICK e \in T : \A b \in T : e <= b
  <2> HIDE DEF T
  <2> QED BY <1>3, LeastNatural
<1>5. e \in s+1..z /\ (e = z \/ before[e] \in D) /\ \A a \in s..e-1 : before[a] \notin D
  <2>1. e \in s..z /\ (e = z \/ before[e] \in D)
    BY <1>4
  <2>2. e # s
    BY <1>1, <2>1
  <2>3. ASSUME NEW a \in s..e-1, before[a] \in D PROVE FALSE
    BY <1>1, <1>4, <2>1, <2>3
  <2> QED BY <1>1, <2>1, <2>2, <2>3
<1> HIDE DEF T
<1>6. EndsAt(mem, L, s, e)
  BY <1>1, <1>2, <1>5 DEF EndsAt
<1>7. strlen(mem, s) = e - s
  <2>1. s \in 0..L
    BY <1>1
  <2> QED BY <1>2, <1>6, <2>1, StrlenIs
<1>8. Min(S) = e
  <2>1. e \in S
    BY <1>1, <1>5
  <2>2. \A b \in S : e <= b
    <3> SUFFICES ASSUME NEW b \in S, b < e PROVE FALSE
      BY <1>1, <1>5
    <3>1. b \in s..e-1 /\ b < z
      BY <1>1, <1>5
    <3> QED BY <1>5, <3>1
  <2>3. S \in SUBSET Int
    OBVIOUS
  <2> QED BY <2>1, <2>2, <2>3, MinIs
<1> QED BY <1>7, <1>8

(* For every string and every set of delimiters, strtok has returned each  *)
(* token once and in order when it returns NULL, and has overwritten       *)
(* nothing but delimiters.                                                 *)
THEOREM TokensAreTaken == Spec => []TokensComplete
<1>1. TokenInv => TokensComplete
  <2> SUFFICES ASSUME TokenInv, job.kind = "strtok", ret = NULL PROVE TokensComplete
    BY DEF TokensComplete
  <2> DEFINE D == call.delim
             count == Len(job.tokens) - 1
  <2>1. Tokens(before, mem, holder, NULL, D, job.tokens)
    BY DEF TokenInv
  <2>2. PICK L \in Nat : \E z \in 0..L, t \in Seq(Int) :
          /\ Delimited(before, L, z, D)
          /\ \E e \in 0..z : Progress(before, mem, holder, z, D, t, e)
          /\ holder = NULL /\ job.tokens = Append(t, NULL)
    BY <2>1 DEF Tokens
  <2>3. PICK z \in 0..L, t \in Seq(Int) :
          /\ Delimited(before, L, z, D)
          /\ \E e \in 0..z : Progress(before, mem, holder, z, D, t, e)
          /\ holder = NULL /\ job.tokens = Append(t, NULL)
    BY <2>2
  <2>4. mem = Parted(before, D, z, z) /\ Lists(t, StartsBelow(before, D, z, z))
    BY <2>3 DEF Progress, NULL
  <2>5. /\ Holds(before, L) /\ EndsAt(before, L, 0, z) /\ DOMAIN before = 0..L /\ DOMAIN mem = 0..L
        /\ \A a \in z..L : mem[a] = before[a]
        /\ \A a \in 0..z-1 : mem[a] = IF before[a] \in D THEN 0 ELSE before[a]
    <3>1. z \in 0..z
      OBVIOUS
    <3>2. /\ DOMAIN mem = 0..L
          /\ \A a \in z..L : mem[a] = before[a]
          /\ \A a \in 0..z-1 : mem[a] = IF before[a] \in D THEN 0 ELSE before[a]
      BY <2>3, <2>4, <3>1, PartedIs
    <3> QED BY <2>3, <3>2 DEF Delimited, Holds
  <2>6. Address = 0..L /\ Nul(0) = z
    <3>1. Address = 0..L /\ 0 \in 0..L
      BY <2>5 DEF Address
    <3> QED BY <2>5, <3>1, NulIs
  <2> DEFINE inside(a) == a \in Address /\ a < Nul(0) /\ before[a] \notin D
             starts == {a \in Address : inside(a) /\ ~inside(a - 1)}
             end(a) == Min({b \in Address : b > a /\ ~inside(b)})
  <2>7. starts = Starts(before, D, z) /\ starts = StartsBelow(before, D, z, z)
    <3>1. ASSUME NEW a \in 0..L
          PROVE  inside(a) /\ ~inside(a - 1) <=> a < z /\ before[a] \notin D /\ (a = 0 \/ before[a - 1] \in D)
      BY <2>6
    <3>2. starts = Starts(before, D, z)
      BY <2>6, <3>1 DEF Starts
    <3>3. Starts(before, D, z) = StartsBelow(before, D, z, z)
      BY DEF StartsBelow, Starts
    <3> QED BY <3>2, <3>3
  <2>8. /\ count = Len(t) /\ count \in Nat /\ job.tokens[count + 1] = NULL
        /\ \A i \in 1..count : job.tokens[i] = t[i]
    <3>1. NULL \in Int
      BY DEF NULL
    <3> QED BY <2>3, <3>1
  <2> HIDE DEF D
  <2>9. ASSUME NEW a \in starts PROVE strlen(mem, a) = end(a) - a
    <3> DEFINE S == {b \in Address : b > a /\ ~inside(b)}
    <3>1. \A b : b \in S <=> b \in 0..L /\ b > a /\ ~(b < z /\ before[b] \notin D)
      BY <2>6
    <3>2. a \in Starts(before, D, z)
      BY <2>7
    <3> HIDE DEF S, starts
    <3>3. strlen(mem, a) = Min(S) - a
      BY <2>3, <2>4, <3>1, <3>2, TokenEnds
    <3> QED BY <3>3 DEF S
  <2>10. \A a \in Address : mem[a] # before[a] => before[a] \in D
    BY <2>5, <2>6
  <2>11. /\ {job.tokens[i] : i \in 1..count} = starts
         /\ \A i, j \in 1..count : i < j => job.tokens[i] < job.tokens[j]
    <3> HIDE DEF starts, count
    <3>1. {job.tokens[i] : i \in 1..count} = {t[i] : i \in 1..Len(t)}
      BY <2>8
    <3>2. {t[i] : i \in 1..Len(t)} = starts /\ \A i, j \in 1..Len(t) : i < j => t[i] < t[j]
      BY <2>4, <2>7 DEF Lists
    <3> QED BY <2>8, <3>1, <3>2
  <2> HIDE DEF count, starts, inside, end
  <2>12. /\ job.tokens[count + 1] = NULL
         /\ {job.tokens[i] : i \in 1..count} = starts
         /\ \A i, j \in 1..count : i < j => job.tokens[i] < job.tokens[j]
         /\ \A a \in starts : strlen(mem, a) = end(a) - a
         /\ \A a \in Address : mem[a] # before[a] => before[a] \in D
    BY <2>8, <2>9, <2>10, <2>11
  <2> QED BY <2>12, Zenon DEF TokensComplete, count, starts, inside, end, D
<1> QED BY <1>1, TokenInvHolds, PTL
=============================================================================
