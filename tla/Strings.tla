------------------------------ MODULE Strings -------------------------------
(***************************************************************************)
(* The functions of the user library on memory and strings, as they run on *)
(* a small memory of bytes: each function as a whole, its loops as         *)
(* recursive functions, on addresses of that memory.  strtok is called     *)
(* again and again, as programs do, and keeps its place between the calls. *)
(***************************************************************************)
EXTENDS Integers, Sequences, FiniteSets, CTypes

VARIABLES
  mem,     \* the memory, a function from addresses to bytes
  before,  \* history: the memory when the call was made
  call,    \* history: the call made, with its arguments
  ret,     \* what it returned
  holder   \* static in strtok

string_vars == <<mem, before, call, ret, holder>>

NULL == -1
Left(m, s) == Cardinality(DOMAIN m) - s
Offsets(m, s, k) == {j \in 0..k-1 : s + j \in DOMAIN m}

(* How many places a loop moves on: it stops at a place of `stop', or      *)
(* after k of them.                                                        *)
Steps(stop, k) ==
  LET steps[i \in 0..k] == IF i = k \/ i \in stop THEN i ELSE steps[i + 1] IN steps[0]

----------------------------------------------------------------------------
(* Copies.  Each gives the new memory.                                     *)

(* rep movsb of k bytes, from the first address up or from the last down.  *)
MovesUp(m, dst, src, k) ==
  LET after[i \in 0..k] ==
        IF i = 0 THEN m ELSE LET x == after[i - 1] IN [x EXCEPT ![dst + i - 1] = x[src + i - 1]]
  IN after[k]
MovesDown(m, dst, src, k) ==
  LET after[i \in 0..k] ==
        IF i = 0 THEN m ELSE LET x == after[i - 1] IN [x EXCEPT ![dst + k - i] = x[src + k - i]]
  IN after[k]

(* Wrong: always copies from the first byte up. *)
memmoveUp(m, dst, src, k) == MovesUp(m, dst, src, k)
memmove(m, dst, src, k) ==
  IF dst < src THEN MovesUp(m, dst, src, k) ELSE MovesDown(m, dst, src, k)

memcpy(m, dst, src, k) == MovesUp(m, dst, src, k)
memset(m, dst, c, k) == [a \in DOMAIN m |-> IF dst <= a /\ a < dst + k THEN c ELSE m[a]]
memswap(m, a, b, k) ==
  LET after[i \in 0..k] ==
        IF i = 0 THEN m
        ELSE LET x == after[i - 1] IN [x EXCEPT ![a + i - 1] = x[b + i - 1], ![b + i - 1] = x[a + i - 1]]
  IN after[k]

(* How many bytes a loop that copies k of them one by one has copied when  *)
(* the next is c.                                                          *)
CopiedBefore(m, dst, src, c, k) ==
  Steps({j \in Offsets(m, dst, k) \cap Offsets(m, src, k) : MovesUp(m, dst, src, j + 1)[dst + j] = c}, k)
memccpy(m, dst, src, c, k) ==
  LET i == CopiedBefore(m, dst, src, c, k) IN
  IF i = k THEN [mem |-> MovesUp(m, dst, src, k), ret |-> NULL]
  ELSE [mem |-> MovesUp(m, dst, src, i + 1), ret |-> dst + i + 1]
strcpy(m, dst, src) == MovesUp(m, dst, src, CopiedBefore(m, dst, src, 0, Left(m, src)) + 1)

(* Zeros once the NUL of the source is copied. *)
strncpy(m, dst, src, len) ==
  LET i == CopiedBefore(m, dst, src, 0, len) IN
  IF i = len THEN MovesUp(m, dst, src, len)
  ELSE memset(MovesUp(m, dst, src, i + 1), dst + i + 1, 0, len - i - 1)

(* Wrong: no NUL after the last of k characters. *)
CopiesUnterminated(m, dst, src, k) ==
  LET i == CopiedBefore(m, dst, src, 0, k) IN MovesUp(m, dst, src, IF i = k THEN k ELSE i + 1)
CopiesUntilNul(m, dst, src, k) ==
  LET i == CopiedBefore(m, dst, src, 0, k) IN
  IF i = k THEN [MovesUp(m, dst, src, k) EXCEPT ![dst + k] = 0] ELSE MovesUp(m, dst, src, i + 1)

----------------------------------------------------------------------------
(* Searches.  Each gives an address, or NULL, or a number.                 *)
memchr(m, s, c, k) ==
  LET i == Steps({j \in 0..k-1 : m[s + j] = c}, k) IN IF i = k THEN NULL ELSE s + i
memrchr(m, s, c, k) ==
  LET i == Steps({j \in 0..k-1 : m[s + k - 1 - j] = c}, k) IN IF i = k THEN NULL ELSE s + k - 1 - i

NulAt(m, s, k) == {j \in Offsets(m, s, k) : m[s + j] = 0}
Differ(m, a, b, k) == {j \in Offsets(m, a, k) \cap Offsets(m, b, k) : m[a + j] # m[b + j]}
Difference(m, a, b, k, stop) ==
  LET i == Steps(stop, k) IN IF i = k THEN 0 ELSE m[a + i] - m[b + i]
memcmp(m, a, b, k) == Difference(m, a, b, k, Differ(m, a, b, k))
strncmp(m, a, b, k) == Difference(m, a, b, k, Differ(m, a, b, k) \cup NulAt(m, a, k))
strcmp(m, a, b) == strncmp(m, a, b, Left(m, a))

strlen(m, s) == Steps(NulAt(m, s, Left(m, s)), Left(m, s))
strnlen(m, s, max) == Steps(NulAt(m, s, max), max)
strchr(m, s, c) ==
  LET here == {j \in Offsets(m, s, Left(m, s)) : m[s + j] = c}
      i == Steps(here \cup NulAt(m, s, Left(m, s)), Left(m, s)) IN
  IF i \in here THEN s + i ELSE NULL

(* matchmap[0] = parity, so that the NUL ends the span in both uses. *)
__strxspn(m, s, map, parity) ==
  LET bit(c) == IF c = 0 THEN parity ELSE IF c \in map THEN 1 ELSE 0 IN
  Steps({j \in Offsets(m, s, Left(m, s)) : bit(m[s + j]) = parity}, Left(m, s))
strpbrk(m, s, accept) ==
  LET ss == s + __strxspn(m, s, accept, 1) IN IF m[ss] # 0 THEN ss ELSE NULL

(* How far the "Not So Naive" search moves on: k after a second character  *)
(* that differs, l after one that agrees.                                  *)
(* Wrong: l and k exchanged.                                               *)
SkipSwapped(m, x, agrees) == IF (m[x] = m[x + 1]) # agrees THEN 1 ELSE 2
Skip(m, x, agrees) == IF (m[x] = m[x + 1]) = agrees THEN 1 ELSE 2

memmemFrom(m, y, n, x, k) ==
  LET from[j \in 0..n] ==
        IF j > n - k THEN NULL
        ELSE IF m[x + 1] # m[y + j + 1] THEN from[j + Skip(m, x, FALSE)]
        ELSE IF memcmp(m, x + 2, y + j + 2, k - 2) = 0 /\ m[x] = m[y + j] THEN y + j
        ELSE from[j + Skip(m, x, TRUE)]
  IN from[0]

(* The needle is the k bytes at x, the haystack the n bytes at y. *)
memmem(m, y, n, x, k) ==
  IF k > n \/ k = 0 \/ n = 0 THEN NULL
  ELSE IF k = 1 THEN memchr(m, y, m[x], n)
  ELSE memmemFrom(m, y, n, x, k)

----------------------------------------------------------------------------
(* strsep of the string that starts at s: the token's start, the memory    *)
(* with the delimiter overwritten, and where the rest starts.              *)
strsep(m, s, delim) ==
  LET e == strpbrk(m, s, delim) IN
  IF s = NULL THEN [ret |-> NULL, mem |-> m, rest |-> s]
  ELSE IF e = NULL THEN [ret |-> s, mem |-> m, rest |-> NULL]
  ELSE [ret |-> s, mem |-> [m EXCEPT ![e] = 0], rest |-> e + 1]

(* Wrong: an empty token is returned. *)
strtokEmpty(m, s, delim) == strsep(m, s, delim)
(* Every empty token takes a byte, so there are less than the memory has.  *)
strtokFrom(m, s, delim) ==
  LET all == Cardinality(DOMAIN m)
      after[i \in 0..all] ==
        IF i = 0 THEN strsep(m, s, delim)
        ELSE LET x == after[i - 1] IN
             IF x.ret # NULL /\ x.mem[x.ret] = 0 THEN strsep(x.mem, x.rest, delim) ELSE x
  IN after[all]

----------------------------------------------------------------------------
(* The calls.  Callers see to it that the bytes lie in the memory, and,    *)
(* where the function says so, that the two areas do not overlap.          *)
Fits(a, k) == a + k <= Cardinality(DOMAIN mem)
Apart(a, j, b, k) == a + j <= b \/ b + k <= a
Called(c, m, r) == call' = c /\ before' = mem /\ mem' = m /\ ret' = r /\ UNCHANGED holder

call_memory(fn, dst, src, c, k) ==
  /\ Fits(dst, k) /\ Fits(src, k)
  /\ fn \notin {"memmove", "memset"} => Apart(dst, k, src, k)
  /\ LET ccpy == memccpy(mem, dst, src, c, k) IN
     Called([fn |-> fn, dst |-> dst, src |-> src, c |-> c, k |-> k],
            CASE fn = "memmove" -> memmove(mem, dst, src, k)
              [] fn = "memcpy"  -> memcpy(mem, dst, src, k)
              [] fn = "memswap" -> memswap(mem, dst, src, k)
              [] fn = "memset"  -> memset(mem, dst, c, k)
              [] fn = "memccpy" -> ccpy.mem,
            IF fn = "memccpy" THEN ccpy.ret ELSE IF fn = "memswap" THEN NULL ELSE dst)

call_string_copy(fn, dst, src, k) ==
  LET at == IF fn \in {"strcat", "strncat"} THEN strchr(mem, dst, 0) ELSE dst
      length == strlen(mem, src) + 1
      written == CASE fn = "strncpy" -> k [] fn = "strncat" -> strnlen(mem, src, k) + 1
                   [] OTHER -> length IN
  /\ Fits(at, written) /\ Apart(dst, at - dst + written, src, length)
  /\ Called([fn |-> fn, dst |-> dst, src |-> src, k |-> k],
            CASE fn \in {"strcpy", "strcat"} -> strcpy(mem, at, src)
              [] fn = "strncpy" -> strncpy(mem, dst, src, k)
              [] fn = "strncat" -> CopiesUntilNul(mem, at, src, k),
            dst)

call_search(fn, s, t, c, k) ==
  /\ fn \in {"memchr", "memrchr", "memcmp", "memmem"} => Fits(s, k)
  /\ fn = "memcmp" => Fits(t, k)
  /\ fn = "memmem" => Fits(t, c)
  /\ Called([fn |-> fn, s |-> s, t |-> t, c |-> c, k |-> k], mem,
            CASE fn = "memchr"  -> memchr(mem, s, c, k)
              [] fn = "memrchr" -> memrchr(mem, s, c, k)
              [] fn = "memcmp"  -> memcmp(mem, s, t, k)
              [] fn = "memmem"  -> memmem(mem, s, k, t, c)
              [] fn = "strchr"  -> strchr(mem, s, c)
              [] fn = "strlen"  -> strlen(mem, s)
              [] fn = "strnlen" -> strnlen(mem, s, k)
              [] fn = "strcmp"  -> strcmp(mem, s, t)
              [] fn = "strncmp" -> strncmp(mem, s, t, k)
              [] fn = "strpbrk" -> strpbrk(mem, s, {c, k} \ {0}))

call_ctype(c) ==
  Called([fn |-> "ctype", c |-> c], mem, [lower |-> tolower(c), upper |-> toupper(c)])

(* strtok(s, delim), with NULL for s in all calls but the first. *)
strtok(s, delim) ==
  LET x == strtokFrom(mem, IF s # NULL THEN s ELSE holder, delim) IN
  /\ call' = [fn |-> "strtok", delim |-> delim] /\ UNCHANGED before
  /\ mem' = x.mem /\ ret' = x.ret /\ holder' = x.rest
=============================================================================
