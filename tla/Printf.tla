------------------------------- MODULE Printf -------------------------------
(***************************************************************************)
(* vsnprintf of the user library, from which sprintf, vsprintf and         *)
(* TtyPrintf are built: one action per state of its loop.  The buffer is   *)
(* shown with Room bytes of which the caller has given the first n, so     *)
(* that a byte written beyond them would be seen.                          *)
(***************************************************************************)
EXTENDS FormatString

CONSTANT Room
ASSUME RoomAssumption == Room \in Nat

VARIABLES
  ap,      \* the arguments not yet taken
  n,       \* the size of the buffer, or more than Room
  prec,
  out,     \* q, o and the buffer
  counted  \* what %n has stored

print_only == <<ap, n, prec, out, counted>>

Untouched == "untouched"
EmptyBuffer == [i \in 0..Room-1 |-> Untouched]

(* The call; sprintf and vsprintf pass ~0 as the size. *)
vsnprintf(size, fmt, va) ==
  /\ running' = "vsnprintf" /\ format' = fmt /\ p' = 1 /\ state' = "normal"
  /\ flags' = {} /\ width' = 0 /\ rank' = 0 /\ prec' = -1
  /\ ap' = va /\ n' = size /\ counted' = <<>>
  /\ out' = [q |-> 0, o |-> 0, buffer |-> EmptyBuffer]

(* EMIT of each character of a text: those for which there is no room are  *)
(* only counted.                                                           *)
EMIT(x, m, text) ==
  LET k == IF x.o >= m THEN 0 ELSE Min({m - x.o, Len(text)}) IN
  [q |-> x.q + k, o |-> x.o + Len(text),
   buffer |-> [j \in DOMAIN x.buffer |->
     IF x.q <= j /\ j < x.q + k THEN text[j - x.q + 1] ELSE x.buffer[j]]]

Times(k, c) == IF k > 0 THEN [i \in 1..k |-> c] ELSE <<>>

Digits(base, upper) ==
  DigitChars \o (IF upper THEN <<"A", "B", "C", "D", "E", "F">> ELSE <<"a", "b", "c", "d", "e", "f">>)

(* How many digits a value has in a base; none for zero. *)
Count(val, base) == CHOOSE k \in 0..Bits[2] : val < base^k /\ (k = 0 \/ val >= base^(k - 1))

Ticks(ndigits, skip) == (ndigits - 1) \div skip

Writable(oo, m) == oo < m

(* format_int; the value is unsigned, in the width of uintmax_t.  The      *)
(* number is written from right to left, a tick after every tickskip       *)
(* digits.                                                                 *)
format_int(x0, m, unsigned, fl, base, w, pr) ==
  LET minus == "signed" \in fl /\ Signed(unsigned, 2) < 0
      val == IF minus THEN Unsigned(-unsigned, 2) ELSE unsigned
      k == Count(val, base)
      prec8 == IF "#" \in fl /\ base = 8 /\ pr < k + 1 THEN k + 1 ELSE pr
      nd == IF k < prec8 THEN prec8 ELSE IF val = 0 THEN 1 ELSE k
      skip == IF "'" \notin fl THEN nd ELSE IF base = 16 THEN 4 ELSE 3
      ndigits == nd + Ticks(nd, skip)
      sign == IF minus THEN <<"-">> ELSE IF "+" \in fl THEN <<"+">>
              ELSE IF " " \in fl THEN <<" ">> ELSE <<>>
      hex == IF "#" \in fl /\ base = 16
             THEN <<"0", IF "upper" \in fl THEN "X" ELSE "x">> ELSE <<>>
      nchars == ndigits + Len(sign) + Len(hex)
      spaces == IF fl \cap {"-", "0"} = {} THEN Times(w - nchars, " ") ELSE <<>>
      zeros == IF fl \cap {"-", "0"} = {"0"} /\ w > ndigits THEN Times(w - nchars, "0") ELSE <<>>
      x == EMIT(x0, m, spaces \o sign \o hex \o zeros)
      FromRight(i) ==
        IF (i + 1) % (skip + 1) = 0 THEN "_"
        ELSE Digits(base, "upper" \in fl)[1 + ((val \div base^(i - (i \div (skip + 1)))) % base)]
      number == [j \in DOMAIN x.buffer |->
        IF x.q <= j /\ j < x.q + ndigits /\ Writable(x.o + (j - x.q), m)
        THEN FromRight(x.q + ndigits - 1 - j) ELSE x.buffer[j]] IN
  EMIT([q |-> x.q + ndigits, o |-> x.o + ndigits, buffer |-> number], m,
          IF "-" \in fl THEN Times(w - nchars, " ") ELSE <<>>)
----------------------------------------------------------------------------
Emits(text) == out' = EMIT(out, n, text)

print_normal ==
  /\ state = "normal" /\ ch # "%"
  /\ Goes("normal") /\ Emits(<<ch>>)
  /\ UNCHANGED <<directive, prec, ap, counted>>

(* Wrong: a directive keeps the width of the one before. *)
print_percentKeeps ==
  /\ state = "normal" /\ ch = "%"
  /\ Goes("flags") /\ flags' = {} /\ rank' = 0 /\ prec' = -1
  /\ UNCHANGED <<width, out, ap, counted>>
print_percent ==
  /\ state = "normal" /\ ch = "%"
  /\ Goes("flags") /\ flags' = {} /\ rank' = 0 /\ width' = 0 /\ prec' = -1
  /\ UNCHANGED <<out, ap, counted>>

print_flags ==
  /\ state = "flags"
  /\ IF ch \in {"-", "+", "'", " ", "#", "0"}
     THEN Goes("flags") /\ flags' = flags \cup {ch}
     ELSE Again("width") /\ UNCHANGED flags
  /\ UNCHANGED <<width, rank, prec, out, ap, counted>>

print_width ==
  /\ state = "width"
  /\ \/ /\ IsDigit(ch)
        /\ Goes("width") /\ width' = width * 10 + DigitOf(ch) /\ UNCHANGED <<flags, prec, ap>>
     \/ /\ ch = "*" /\ Goes("width") /\ ap' = Tail(ap) /\ UNCHANGED prec
        /\ IF Head(ap) < 0 THEN width' = -Head(ap) /\ flags' = flags \cup {"-"}
                           ELSE width' = Head(ap) /\ UNCHANGED flags
     \/ ch = "." /\ Goes("prec") /\ prec' = 0 /\ UNCHANGED <<flags, width, ap>>
     \/ /\ ~IsDigit(ch) /\ ch \notin {"*", "."}
        /\ Again("modifiers") /\ UNCHANGED <<flags, width, prec, ap>>
  /\ UNCHANGED <<rank, out, counted>>

print_prec ==
  /\ state = "prec"
  /\ \/ IsDigit(ch) /\ Goes("prec") /\ prec' = prec * 10 + DigitOf(ch) /\ UNCHANGED ap
     \/ /\ ch = "*" /\ Goes("prec") /\ ap' = Tail(ap)
        /\ prec' = IF Head(ap) < 0 THEN -1 ELSE Head(ap)
     \/ ~IsDigit(ch) /\ ch # "*" /\ Again("modifiers") /\ UNCHANGED <<prec, ap>>
  /\ UNCHANGED <<directive, out, counted>>

LengthChars == {"h", "l", "j", "z", "t", "L", "q"}
print_length ==
  /\ state = "modifiers" /\ ch \in LengthChars
  /\ Goes("modifiers") /\ rank' = IF ch \in {"L", "q"} THEN rank + 2 ELSE Shift(rank)
  /\ UNCHANGED <<flags, width, prec, out, ap, counted>>

(* Outputs a number: the argument is taken in the width of its rank, then  *)
(* widened to uintmax_t, with its sign for %d and %i.  A pointer has the   *)
(* width of a long and is written in hexadecimal with all its digits.      *)
PrintsInteger ==
  LET pointer == ch \in {"p", "P"}
      r == IF pointer THEN 1 ELSE Canonical(rank)
      fl == flags \cup (IF ch \in {"d", "i"} THEN {"signed"} ELSE {})
                  \cup (IF ch \in {"X", "P"} THEN {"upper"} ELSE {})
                  \cup (IF pointer THEN {"#"} ELSE {})
      val == IF "signed" \in fl THEN Unsigned(Signed(Head(ap), r), 2) ELSE Unsigned(Head(ap), r)
      base == CASE ch \in {"d", "i", "u"} -> 10 [] ch = "o" -> 8 [] OTHER -> 16
      digits == IF pointer THEN (Bits[1] + 3) \div 4 ELSE prec
      local == format_int([out EXCEPT !.o = 0], IF out.o < n THEN n - out.o ELSE 0,
                          val, fl, base, width, digits) IN
  /\ ch \in {"d", "i", "o", "u", "x", "X", "p", "P"}
  /\ out' = [q |-> out.q + local.o, o |-> out.o + local.o, buffer |-> local.buffer]
  /\ ap' = Tail(ap) /\ UNCHANGED counted

Cut(text) == IF prec # -1 /\ Len(text) > prec THEN SubSeq(text, 1, prec) ELSE text

PrintsString ==
  LET sarg == CASE ch = "c" -> <<Head(ap)>>
                [] Head(ap) = <<"NULL">> -> <<"(", "n", "u", "l", "l", ")">>
                [] OTHER -> Head(ap)
      text == Cut(sarg)
      pad == width - Len(text) IN
  /\ ch \in {"c", "s"}
  /\ Emits(IF "-" \in flags THEN text \o Times(pad, " ")
           ELSE Times(pad, IF "0" \in flags THEN "0" ELSE " ") \o text)
  /\ ap' = Tail(ap) /\ UNCHANGED counted

PrintsCount ==
  /\ ch = "n"
  /\ counted' = Append(counted, Signed(out.o, Canonical(rank)))
  /\ ap' = Tail(ap) /\ UNCHANGED out

(* "Anything else, including %" *)
PrintsItself ==
  /\ ch \notin {"d", "i", "o", "u", "x", "X", "p", "P", "c", "s", "n"}
  /\ Emits(<<ch>>) /\ UNCHANGED <<ap, counted>>

(* Flags, width, precision and rank are also changed on the way; nothing   *)
(* reads them before the next % sets them again.                           *)
print_output ==
  /\ state = "modifiers" /\ ch \notin LengthChars
  /\ Goes("normal")
  /\ PrintsInteger \/ PrintsString \/ PrintsCount \/ PrintsItself
  /\ UNCHANGED <<directive, prec>>

(* Wrong: a string that fills the buffer is not terminated. *)
TerminatedIfRoom(x) == IF x.o < n THEN [x.buffer EXCEPT ![x.q] = "NUL"] ELSE x.buffer
(* The end of the format: a NUL after the text or in the last byte. *)
Terminated(x) ==
  IF x.o < n THEN [x.buffer EXCEPT ![x.q] = "NUL"]
  ELSE IF n > 0 THEN [x.buffer EXCEPT ![n - 1] = "NUL"] ELSE x.buffer

print_end ==
  /\ ~More /\ running' = "none"
  /\ out' = [out EXCEPT !.buffer = Terminated(out)]
  /\ UNCHANGED <<format, p, state, directive, prec, ap, n, counted>>

print_step ==
  /\ running = "vsnprintf"
  /\ \/ /\ More /\ UNCHANGED <<loop, n>>
        /\ \/ print_normal \/ print_percent \/ print_flags \/ print_width
           \/ print_prec \/ print_length \/ print_output
     \/ print_end
=============================================================================
