------------------------------ MODULE Library -------------------------------
(***************************************************************************)
(* The character and string library as a program uses it: vsnprintf into a *)
(* buffer of any size, vsscanf of a text or of what vsnprintf has written, *)
(* a call of a string or memory function, or strtok over a whole string.   *)
(* Below, what each is to give, defined without the code's loops.          *)
(***************************************************************************)
EXTENDS Printf, Scanf, Strings

CONSTANTS
  PrintJobs,  \* directives to print, the buffer's size, the format to read it back or <<>>
  ScanJobs,   \* texts and formats
  Memories,   \* contents of the memory, with a NUL at their end
  Chars       \* bytes to search and to set

(* What a program may pass: a string is a sequence of characters before a  *)
(* NUL, and a memory some bytes of which the last is a NUL, so that every  *)
(* string ends in it.                                                      *)
Character == DOMAIN CodeOf \cup {"\t", "\n", "\f", "\r"}
IsString(s) == s \in Seq(Character \ {"NUL"})
IsMemory(m) ==
  LET last == Cardinality(DOMAIN m) - 1 IN last \in Nat /\ m \in [0..last -> Byte] /\ m[last] = 0
ASSUME LibraryAssumption ==
  /\ \A j \in PrintJobs : IsString(j.back)
  /\ \A j \in ScanJobs : IsString(j.input) /\ IsString(j.format)
  /\ \A m \in Memories : IsMemory(m)
  /\ Chars \subseteq Byte

VARIABLE job  \* history: what the program is doing

vars == <<loop, p, state, directive, print_only, scan_only, string_vars, job>>
format_vars == <<loop, p, state, directive>>

NoJob == [kind |-> "none"]
Address == DOMAIN mem
Length == 0..Cardinality(Address)

(* A directive of a format and the arguments it takes; `star' passes the   *)
(* width and precision as arguments.                                       *)
Decimal(k) == IF k < 10 THEN <<DigitChars[k + 1]>> ELSE <<DigitChars[(k \div 10) + 1], DigitChars[(k % 10) + 1]>>
DirectiveText(d) ==
  IF d.conv = "text" THEN d.arg
  ELSE <<"%">> \o d.flags
       \o (IF d.width = -1 THEN <<>> ELSE IF d.star THEN <<"*">> ELSE Decimal(d.width))
       \o (IF d.prec = -1 THEN <<>> ELSE <<".">> \o IF d.star THEN <<"*">> ELSE Decimal(d.prec))
       \o d.length \o <<d.conv>>
DirectiveArgs(d) ==
  IF d.conv = "text" THEN <<>>
  ELSE (IF d.star /\ d.width # -1 THEN <<d.width>> ELSE <<>>)
       \o (IF d.star /\ d.prec # -1 THEN <<d.prec>> ELSE <<>>)
       \o (IF d.conv = "%" THEN <<>> ELSE <<d.arg>>)
FormatOf(ds) == FlattenSeq([i \in DOMAIN ds |-> DirectiveText(ds[i])])
ArgsOf(ds)   == FlattenSeq([i \in DOMAIN ds |-> DirectiveArgs(ds[i])])
----------------------------------------------------------------------------
Init ==
  /\ running = "none" /\ format = <<>> /\ p = 1 /\ state = "normal"
  /\ flags = {} /\ width = 0 /\ rank = 0
  /\ ap = <<>> /\ n = 0 /\ prec = -1 /\ counted = <<>>
  /\ out = [q |-> 0, o |-> 0, buffer |-> EmptyBuffer]
  /\ input = <<>> /\ q = 0 /\ converted = 0 /\ bail = "none" /\ stored = <<>>
  /\ matchmap = {} /\ matchinv = FALSE /\ range_start = 0
  /\ mem \in {[a \in DOMAIN m |-> 0] : m \in Memories} /\ before = mem
  /\ call = [fn |-> "none"] /\ ret = NULL /\ holder = NULL
  /\ job = NoJob

CallsPrintf(j) ==
  /\ vsnprintf(j.size, FormatOf(j.directives), ArgsOf(j.directives))
  /\ job' = [kind |-> "print", directives |-> j.directives, back |-> j.back]
  /\ UNCHANGED <<scan_only, string_vars>>

CallsScanf(j) ==
  /\ vsscanf(j.input, j.format)
  /\ job' = [kind |-> "scan"]
  /\ UNCHANGED <<print_only, string_vars>>

(* The text in the buffer, up to its NUL. *)
Written ==
  LET end == CHOOSE i \in 0..Room-1 : out.buffer[i] = "NUL" /\ \A j \in 0..i-1 : out.buffer[j] # "NUL" IN
  [i \in 1..end |-> out.buffer[i - 1]]

ReadsAgain ==
  /\ job.kind = "print" /\ job.back # <<>> /\ running = "none"
  /\ \E i \in 0..Room-1 : out.buffer[i] = "NUL"
  /\ vsscanf(Written, job.back)
  /\ job' = [kind |-> "read back", directives |-> job.directives]
  /\ UNCHANGED <<print_only, string_vars>>

Fills ==
  /\ job = NoJob /\ mem' \in Memories /\ before' = mem'
  /\ job' = [kind |-> "memory"]
  /\ UNCHANGED <<format_vars, print_only, scan_only, call, ret, holder>>

(* One call; an argument that a function does not have is 0. *)
CallsString ==
  /\ job.kind = "memory" /\ call.fn = "none"
  /\ \E a \in Address, k \in Length :
       \/ \E c \in Chars : \/ call_memory("memset", a, 0, c, k)
                           \/ \E fn \in {"memchr", "memrchr"} : call_search(fn, a, 0, c, k)
       \/ call_search("strnlen", a, 0, 0, k)
       \/ \E b \in Address :
            \/ \E fn \in {"memmove", "memcpy", "memswap"} : call_memory(fn, a, b, 0, k)
            \/ \E c \in Chars : call_memory("memccpy", a, b, c, k)
            \/ \E fn \in {"strncpy", "strncat"} : call_string_copy(fn, a, b, k)
            \/ \E fn \in {"memcmp", "strncmp"} : call_search(fn, a, b, 0, k)
            \/ \E l \in Length : call_search("memmem", a, b, l, k)
  /\ UNCHANGED <<format_vars, print_only, scan_only, job>>

CallsStringToNul ==
  /\ job.kind = "memory" /\ call.fn = "none"
  /\ \E a \in Address :
       \/ call_search("strlen", a, 0, 0, 0)
       \/ \E c \in Chars : \/ call_search("strchr", a, 0, c, 0)
                           \/ \E d \in Chars : call_search("strpbrk", a, 0, c, d)
       \/ \E b \in Address : \/ \E fn \in {"strcpy", "strcat"} : call_string_copy(fn, a, b, 0)
                             \/ call_search("strcmp", a, b, 0, 0)
  /\ UNCHANGED <<format_vars, print_only, scan_only, job>>

CallsCtype ==
  /\ job = NoJob /\ \E c \in Byte : call_ctype(c)
  /\ job' = [kind |-> "ctype"]
  /\ UNCHANGED <<format_vars, print_only, scan_only>>

(* strtok of the string at 0, until it returns NULL. *)
CallsStrtok ==
  /\ \/ /\ job.kind = "memory" /\ call.fn = "none"
        /\ \E delim \in SUBSET (Chars \ {0}) : strtok(0, delim)
        /\ job' = [kind |-> "strtok", tokens |-> <<ret'>>]
     \/ /\ job.kind = "strtok" /\ ret # NULL
        /\ strtok(NULL, call.delim)
        /\ job' = [kind |-> "strtok", tokens |-> Append(job.tokens, ret')]
  /\ UNCHANGED <<format_vars, print_only, scan_only>>

Next ==
  \/ /\ job = NoJob
     /\ \/ \E j \in PrintJobs : CallsPrintf(j)
        \/ \E j \in ScanJobs : CallsScanf(j)
  \/ ReadsAgain \/ Fills \/ CallsString \/ CallsStringToNul \/ CallsCtype \/ CallsStrtok
  \/ print_step /\ UNCHANGED <<scan_only, string_vars, job>>
  \/ scan_step /\ UNCHANGED <<print_only, string_vars, job>>

Spec == Init /\ [][Next]_vars
----------------------------------------------------------------------------
(* What vsnprintf is to write.  Where this library differs from the C      *)
(* standard the reference follows the library: 0 pads in spite of a        *)
(* precision, + and space also mark unsigned numbers, a zero is written    *)
(* with at least one digit and with its 0x, and the ticks are underscores. *)
Abs(i) == IF i < 0 THEN -i ELSE i
Has(d, flag) == Contains(d.flags, flag) \/ (flag = "-" /\ d.width < -1)
RankOf(d) ==
  IF d.conv \in {"p", "P"} THEN 1
  ELSE CASE d.length = <<"h", "h">> -> -2 [] d.length = <<"h">> -> -1 [] d.length = <<>> -> 0
         [] d.length \in {<<"l">>, <<"z">>, <<"t">>} -> 1 [] OTHER -> 2
ValueOf(d) == IF d.conv \in {"d", "i"} THEN Signed(d.arg, RankOf(d)) ELSE Unsigned(d.arg, RankOf(d))
BaseOf(d)  == CASE d.conv \in {"d", "i", "u"} -> 10 [] d.conv = "o" -> 8 [] OTHER -> 16

Numeral(v, base, len, upper) ==
  [i \in 1..len |-> Digits(base, upper)[((v \div base^(len - i)) % base) + 1]]
Grouped(digits, skip) ==
  FlattenSeq([i \in DOMAIN digits |->
    IF i > 1 /\ (Len(digits) - i + 1) % skip = 0 THEN <<"_", digits[i]>> ELSE <<digits[i]>>])
Field(d, prefix, body) ==
  LET pad == (IF d.width = -1 THEN 0 ELSE Abs(d.width)) - Len(prefix \o body) IN
  IF Has(d, "-") THEN prefix \o body \o Times(pad, " ")
  ELSE IF Has(d, "0") THEN prefix \o Times(pad, "0") \o body ELSE Times(pad, " ") \o prefix \o body

RenderedNumber(d) ==
  LET v == ValueOf(d)
      pointer == d.conv \in {"p", "P"}
      base == BaseOf(d)
      upper == d.conv \in {"X", "P"}
      least == CHOOSE k \in 1..Bits[2] : Abs(v) < base^k /\ (k = 1 \/ Abs(v) >= base^(k - 1))
      len == Max({least, IF pointer THEN (Bits[1] + 3) \div 4 ELSE d.prec}
                 \cup (IF Has(d, "#") /\ base = 8 /\ v # 0 THEN {least + 1} ELSE {}))
      digits == Numeral(Abs(v), base, len, upper)
      sign == IF v < 0 THEN <<"-">> ELSE IF Has(d, "+") THEN <<"+">> ELSE IF Has(d, " ") THEN <<" ">> ELSE <<>>
      mark == IF base = 16 /\ (Has(d, "#") \/ pointer) THEN <<"0", IF upper THEN "X" ELSE "x">> ELSE <<>> IN
  Field(d, sign \o mark, IF Has(d, "'") THEN Grouped(digits, IF base = 16 THEN 4 ELSE 3) ELSE digits)

RenderedString(d) ==
  LET text == CASE d.conv = "c" -> <<d.arg>> [] d.arg = <<"NULL">> -> <<"(", "n", "u", "l", "l", ")">>
                [] OTHER -> d.arg IN
  Field(d, <<>>, IF d.prec \in 0..Len(text) THEN SubSeq(text, 1, d.prec) ELSE text)

Rendered(d) ==
  CASE d.conv = "text" -> d.arg [] d.conv = "n" -> <<>> [] d.conv \in {"c", "s"} -> RenderedString(d)
    [] d.conv \in {"d", "i", "o", "u", "x", "X", "p", "P"} -> RenderedNumber(d) [] OTHER -> <<d.conv>>
TextOf(ds) == FlattenSeq([i \in DOMAIN ds |-> Rendered(ds[i])])

(* vsnprintf writes the text that its directives stand for, cut to one     *)
(* character less than the buffer's size, then a NUL and no byte outside   *)
(* the buffer; it returns the length of the whole text whatever the size   *)
(* of the buffer, and %n counts the whole text that goes before it.  What  *)
(* one directive sets (flags, width, precision, length) ends with it.      *)
PrintedIsRendered ==
  job.kind = "print" /\ running = "none" =>
    LET ds == job.directives
        text == TextOf(ds)
        last == Min({n - 1, Len(text)})
        counts == SelectSeq([i \in DOMAIN ds |-> [d |-> ds[i], before |-> SubSeq(ds, 1, i - 1)]],
                            LAMBDA x : x.d.conv = "n") IN
    /\ out.o = Len(text)
    /\ \A i \in 0..Room-1 :
         out.buffer[i] = IF i < last THEN text[i + 1] ELSE IF i = last THEN "NUL" ELSE Untouched
    /\ counted = [i \in DOMAIN counts |->
                    Signed(Len(TextOf(counts[i].before)), RankOf(counts[i].d))]

(* What sprintf has written, sscanf reads back: every number and string    *)
(* comes out as it went in, in the width of its type, and is counted.      *)
ReadsBack ==
  job.kind = "read back" /\ running = "none" =>
    LET values == SelectSeq(job.directives, LAMBDA d : d.conv \notin {"text", "%"}) IN
    /\ converted = Len(values)
    /\ [i \in DOMAIN stored |-> stored[i].value] =
       [i \in DOMAIN values |-> IF values[i].conv \in {"c", "s"} THEN RenderedString([values[i] EXCEPT !.width = 0])
                                ELSE Unsigned(values[i].arg, RankOf(values[i]))]

(* sscanf never reads past the NUL of its input and never stores more      *)
(* characters than the width of a %s or %c allows.  What it returns is the *)
(* number of its arguments that hold a whole value (%n is not counted), or *)
(* EOF only if the input ended before any of them had one.                 *)
ScanContract ==
  /\ q <= Len(input)
  /\ \A i \in DOMAIN stored : stored[i].conv \in {"c", "s"} => Len(stored[i].value) <= stored[i].limit
  /\ running = "none" /\ job.kind = "scan" =>
       LET whole == {i \in DOMAIN stored :
                       /\ stored[i].conv # "n"
                       /\ ~(stored[i].conv = "c" /\ Len(stored[i].value) < stored[i].limit)} IN
       \/ converted = Cardinality(whole)
       \/ converted = -1 /\ whole = {} /\ q = Len(input)
----------------------------------------------------------------------------
(* What the string functions are to do, in terms of the memory before the  *)
(* call.                                                                   *)
Least(S) == IF S = {} THEN NULL ELSE Min(S)
Nul(s) == Min({a \in Address : a >= s /\ before[a] = 0})
Bytes(s, k) == [i \in 1..k |-> before[s + i - 1]]
Stored(dst, text) ==
  [a \in Address |-> IF a - dst + 1 \in DOMAIN text THEN text[a - dst + 1] ELSE before[a]]
String(s) == Bytes(s, Nul(s) - s)

(* memmove copies the bytes the source had before the call, however the    *)
(* areas overlap; the other copies write exactly the bytes their           *)
(* description says, with the NUL where the C standard wants one, and      *)
(* leave every other byte alone.                                           *)
CopiesExact ==
  LET x == call
      first(k) == Least({a \in Address : x.src <= a /\ a < x.src + k /\ before[a] = x.c})
      zeros == [i \in 1..x.k |-> 0] IN
  CASE x.fn \in {"memmove", "memcpy"} -> mem = Stored(x.dst, Bytes(x.src, x.k))
    [] x.fn = "memswap" ->
         mem = [a \in Address |-> IF a \in x.dst..x.dst+x.k-1 THEN before[a - x.dst + x.src]
                                   ELSE IF a \in x.src..x.src+x.k-1 THEN before[a - x.src + x.dst] ELSE before[a]]
    [] x.fn = "memset" -> mem = Stored(x.dst, [i \in 1..x.k |-> x.c])
    [] x.fn = "memccpy" ->
         IF first(x.k) = NULL THEN ret = NULL /\ mem = Stored(x.dst, Bytes(x.src, x.k))
         ELSE ret = x.dst + (first(x.k) - x.src) + 1 /\ mem = Stored(x.dst, Bytes(x.src, first(x.k) - x.src + 1))
    [] x.fn = "strcpy" -> mem = Stored(x.dst, Append(String(x.src), 0))
    [] x.fn = "strcat" -> mem = Stored(Nul(x.dst), Append(String(x.src), 0))
    [] x.fn = "strncpy" -> mem = Stored(x.dst, SubSeq(String(x.src) \o zeros, 1, x.k))
    [] x.fn = "strncat" ->
         mem = Stored(Nul(x.dst), Append(SubSeq(String(x.src), 1, Min({x.k, Nul(x.src) - x.src})), 0))
    [] OTHER -> TRUE

Sign(i) == IF i < 0 THEN -1 ELSE IF i > 0 THEN 1 ELSE 0
(* The order of two equally long runs of bytes: by the first that differ.  *)
Order(s, t) ==
  LET differ == {i \in DOMAIN s : s[i] # t[i]} IN
  IF differ = {} THEN 0 ELSE Sign(s[Min(differ)] - t[Min(differ)])

(* A search returns the first place (memrchr: the last) where what it      *)
(* looks for is, and NULL only if it is nowhere; memmem looks at every     *)
(* place although its loop skips some.  Comparisons give the order of the  *)
(* first bytes that differ, and stop at a NUL or at the length given.      *)
SearchesFind ==
  LET x == call
      within == {a \in Address : x.s <= a /\ a < x.s + x.k}
      whole(s) == Append(String(s), 0)
      short == Min({Len(whole(x.s)), Len(whole(x.t))}) IN
  CASE x.fn = "memchr"  -> ret = Least({a \in within : before[a] = x.c})
    [] x.fn = "memrchr" ->
         LET places == {a \in within : before[a] = x.c} IN ret = IF places = {} THEN NULL ELSE Max(places)
    [] x.fn = "memmem" ->
         ret = IF x.c = 0 \/ x.k = 0 THEN NULL
               ELSE Least({a \in within : a + x.c <= x.s + x.k /\ Bytes(a, x.c) = Bytes(x.t, x.c)})
    [] x.fn = "memcmp"  -> Sign(ret) = Order(Bytes(x.s, x.k), Bytes(x.t, x.k))
    [] x.fn = "strchr"  -> ret = Least({a \in Address : x.s <= a /\ a <= Nul(x.s) /\ before[a] = x.c})
    [] x.fn = "strlen"  -> ret = Nul(x.s) - x.s
    [] x.fn = "strnlen" -> ret = Min({x.k, Nul(x.s) - x.s})
    [] x.fn = "strcmp"  -> Sign(ret) = Order(Bytes(x.s, short), Bytes(x.t, short))
    [] x.fn = "strncmp" ->
         LET m == Min({short, x.k}) IN Sign(ret) = Order(Bytes(x.s, m), Bytes(x.t, m))
    [] x.fn = "strpbrk" ->
         ret = Least({a \in Address : x.s <= a /\ a < Nul(x.s) /\ before[a] \in {x.c, x.k} \ {0}})
    [] OTHER -> TRUE

(* strtok, called until it returns NULL, has returned the longest runs     *)
(* without a delimiter, each once, in their order and none of them empty;  *)
(* each is a string of its own by then, and no byte but a delimiter has    *)
(* been overwritten.                                                       *)
TokensComplete ==
  job.kind = "strtok" /\ ret = NULL =>
    LET inside(a) == a \in Address /\ a < Nul(0) /\ before[a] \notin call.delim
        starts == {a \in Address : inside(a) /\ ~inside(a - 1)}
        end(a) == Min({b \in Address : b > a /\ ~inside(b)})
        count == Len(job.tokens) - 1 IN
    /\ job.tokens[count + 1] = NULL
    /\ {job.tokens[i] : i \in 1..count} = starts
    /\ \A i, j \in 1..count : i < j => job.tokens[i] < job.tokens[j]
    /\ \A a \in starts : strlen(mem, a) = end(a) - a
    /\ \A a \in Address : mem[a] # before[a] => before[a] \in call.delim

(* The table and ctype.h agree on what each class is, for every character  *)
(* of ISO 8859-1: control characters do not print, graphic ones are the    *)
(* printing ones that are no spaces, hexadecimal digits are those that     *)
(* strntoumax gives a value below 16, and a letter is another's upper case *)
(* exactly if that one is its lower case (the sharp s and the y with       *)
(* diaeresis have none).                                                   *)
ClassesAgree ==
  call.fn = "ctype" =>
    LET c == call.c IN
    /\ iscntrl(c) # isprint(c)
    /\ isgraph(c) <=> isprint(c) /\ ~isspace(c)
    /\ isgraph(c) <=> ispunct(c) # isalnum(c)
    /\ isalnum(c) <=> isalpha(c) # isdigit(c)
    /\ isdigit(c) <=> "digit" \in __ctypes(c)
    /\ isblank(c) => isspace(c)
    /\ isascii(c) /\ isprint(c) => (isxdigit(c) <=> digitval(c) \in 0..15)
    /\ c \notin {223, 255} => (isupper(c) => tolower(ret.lower) = ret.lower /\ toupper(ret.lower) = c)
    /\ c \notin {223, 255} => (islower(c) => isupper(ret.upper) /\ tolower(ret.upper) = c)
=============================================================================
