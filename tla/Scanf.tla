------------------------------- MODULE Scanf --------------------------------
(***************************************************************************)
(* vsscanf of the user library, from which sscanf is built, and strntoumax *)
(* which reads its numbers: one action per state of the loop.              *)
(***************************************************************************)
EXTENDS FormatString

VARIABLES
  input,      \* buffer, without its NUL
  q,          \* how many of its characters are consumed
  converted, bail,
  stored,     \* what went through the pointer arguments, and by which conversion
  matchmap, matchinv, range_start

match == <<matchmap, matchinv, range_start>>
scan_only == <<input, q, converted, bail, stored, match>>

UINT_MAX == 2^Bits[0] - 1

vsscanf(buffer, fmt) ==
  /\ running' = "vsscanf" /\ format' = fmt /\ p' = 1 /\ state' = "normal"
  /\ flags' = {} /\ width' = UINT_MAX /\ rank' = 0
  /\ input' = buffer /\ q' = 0 /\ converted' = 0 /\ bail' = "none" /\ stored' = <<>>
  /\ matchmap' = {} /\ matchinv' = FALSE /\ range_start' = 0

(* The character at offset i of a string. *)
CharAt(s, i) == IF i < Len(s) THEN s[i + 1] ELSE "NUL"
IsSpace(c) == c # "NUL" /\ isspace(Code(c))

(* How many characters from offset i on are in a set of codes, at most max. *)
Span(s, i, max, codes) ==
  CHOOSE k \in 0..(Len(s) - i) :
    /\ \A j \in 0..k-1 : j < max /\ Code(CharAt(s, i + j)) \in codes
    /\ k >= max \/ i + k = Len(s) \/ Code(CharAt(s, i + k)) \notin codes

Spaces == {c \in Byte : isspace(c)}
skipspace(s, i) == i + Span(s, i, Len(s), Spaces)

(* The value of a digit, given its code. *)
digitval(c) ==
  CASE c \in 48..57  -> c - 48
    [] c \in 65..90  -> c - 55
    [] c \in 97..122 -> c - 87
    [] OTHER -> -1

(* Wrong: takes digits of any base. *)
IsDigitAnyBase(c, base) == digitval(c) >= 0
IsDigitOf(c, base) == 0 <= digitval(c) /\ digitval(c) < base

(* strntoumax(s + i, &end, base0, max): the value and the end. *)
strntoumax(s, i, base0, max) ==
  LET i1 == i + Span(s, i, max, Spaces)
      has_sign == i1 - i < max /\ CharAt(s, i1) \in {"-", "+"}
      i2 == IF has_sign THEN i1 + 1 ELSE i1
      left == max - (i2 - i)
      zero == left >= 1 /\ CharAt(s, i2) = "0"
      hex  == left >= 2 /\ zero /\ CharAt(s, i2 + 1) \in {"x", "X"}
      base == IF base0 # 0 THEN base0 ELSE IF hex THEN 16 ELSE IF zero THEN 8 ELSE 10
      i3 == i2 + (IF hex /\ base = 16 THEN 2 ELSE IF zero /\ base0 = 0 THEN 1 ELSE 0)
      k  == Span(s, i3, max - (i3 - i), {c \in Byte : IsDigitOf(c, base)})
      v  == FoldLeft(LAMBDA acc, c : Unsigned(acc * base + digitval(Code(c)), 2), 0, SubSeq(s, i3 + 1, i3 + k)) IN
  [value |-> IF has_sign /\ CharAt(s, i1) = "-" THEN Unsigned(-v, 2) ELSE v, end |-> i3 + k]
----------------------------------------------------------------------------
Splat == "*" \in flags
Stores(value, limit) ==
  stored' = IF Splat THEN stored ELSE Append(stored, [conv |-> ch, value |-> value, limit |-> limit])
Counts == converted' = IF Splat THEN converted ELSE converted + 1
Bails(how) == bail' = how /\ UNCHANGED <<converted, stored>>

scan_percent ==
  /\ state = "normal" /\ ch = "%"
  /\ Goes("flags") /\ flags' = {} /\ rank' = 0 /\ width' = UINT_MAX
  /\ UNCHANGED <<q, converted, bail, stored, match>>

scan_space ==
  /\ state = "normal" /\ ch # "%" /\ IsSpace(ch)
  /\ Goes("normal") /\ q' = skipspace(input, q)
  /\ UNCHANGED <<directive, converted, bail, stored, match>>

scan_literal ==
  /\ state = "normal" /\ ch # "%" /\ ~IsSpace(ch)
  /\ Goes("normal")
  /\ IF CharAt(input, q) = ch THEN q' = q + 1 /\ UNCHANGED bail
                              ELSE bail' = "err" /\ UNCHANGED q
  /\ UNCHANGED <<directive, converted, stored, match>>

scan_flags ==
  /\ state = "flags"
  /\ \/ ch = "*" /\ Goes("flags") /\ flags' = flags \cup {"*"} /\ UNCHANGED width
     \/ IsDigit(ch) /\ Goes("width") /\ flags' = flags \cup {"width"} /\ width' = DigitOf(ch)
     \/ ch # "*" /\ ~IsDigit(ch) /\ Again("modifiers") /\ UNCHANGED <<flags, width>>
  /\ UNCHANGED <<rank, q, converted, bail, stored, match>>

scan_width ==
  /\ state = "width"
  /\ IF IsDigit(ch) THEN Goes("width") /\ width' = width * 10 + DigitOf(ch)
                    ELSE Again("modifiers") /\ UNCHANGED width
  /\ UNCHANGED <<flags, rank, q, converted, bail, stored, match>>

LengthModifiers == {"h", "l", "j", "z", "t", "L", "q"}
scan_length ==
  /\ state = "modifiers" /\ ch \in LengthModifiers
  /\ Goes("modifiers") /\ rank' = IF ch \in {"L", "q"} THEN 2 ELSE Shift(rank)
  /\ UNCHANGED <<flags, width, q, converted, bail, stored, match>>

(* Stores in the width of the rank; a pointer has the width of a long. *)
ScansInteger ==
  LET base == CASE ch \in {"p", "P", "i"} -> 0 [] ch \in {"d", "u"} -> 10
                [] ch = "o" -> 8 [] OTHER -> 16
      start == skipspace(input, q)
      number == strntoumax(input, start, base, width) IN
  /\ ch \in {"p", "P", "i", "d", "o", "u", "x", "X"}
  /\ \/ start = Len(input) /\ q' = start /\ Bails("eof")
     \/ start < Len(input) /\ number.end = start /\ q' = start /\ Bails("err")
     \/ /\ start < Len(input) /\ number.end # start /\ q' = number.end
        /\ Counts /\ UNCHANGED bail
        /\ Stores(Unsigned(number.value, IF ch \in {"p", "P"} THEN 1 ELSE Canonical(rank)), width)

ScansCount ==
  ch = "n" /\ Stores(Unsigned(q, Canonical(rank)), width) /\ UNCHANGED <<q, converted, bail>>

(* %c.  With * it consumes nothing. *)
ScansChars ==
  LET w == IF "width" \in flags THEN width ELSE 1
      enough == q + w <= Len(input)
      taken == IF enough THEN w ELSE Len(input) - q IN
  /\ ch = "c"
  /\ IF Splat
     THEN Bails(IF w > 0 /\ q = Len(input) THEN "eof" ELSE bail) /\ UNCHANGED q
     ELSE /\ q' = q + taken /\ Stores(SubSeq(input, q + 1, q + taken), w)
          /\ IF enough THEN Counts /\ UNCHANGED bail ELSE bail' = "eof" /\ UNCHANGED converted

(* Wrong: the width does not limit a string. *)
StringLimitNone == Len(input) + 1
StringLimit == width

(* %s.  It does not skip white space first. *)
ScansString ==
  LET k == Span(input, q, StringLimit, Byte \ Spaces) IN
  /\ ch = "s"
  /\ q' = q + k
  /\ IF k > 0 THEN Stores(SubSeq(input, q + 1, q + k), width) /\ Counts ELSE UNCHANGED <<stored, converted>>
  /\ bail' = IF k < StringLimit /\ q + k = Len(input) THEN "eof" ELSE bail

ScansPercent ==
  /\ ch = "%"
  /\ IF CharAt(input, q) = "%" THEN q' = q + 1 /\ UNCHANGED <<converted, bail, stored>>
                               ELSE Bails("err") /\ UNCHANGED q

ScansUnknown ==
  /\ ch \notin {"p", "P", "i", "d", "o", "u", "x", "X", "n", "c", "s", "[", "%"}
  /\ Bails("err") /\ UNCHANGED q

(* Width and rank, changed on the way, are set again by the next %. *)
scan_output ==
  /\ state = "modifiers" /\ ch \notin LengthModifiers \cup {"["}
  /\ Goes("normal")
  /\ ScansInteger \/ ScansCount \/ ScansChars \/ ScansString \/ ScansPercent \/ ScansUnknown
  /\ UNCHANGED <<directive, match>>

scan_bracket ==
  /\ state = "modifiers" /\ ch = "["
  /\ Goes("match_init") /\ rank' = Canonical(rank)
  /\ matchmap' = {} /\ matchinv' = FALSE
  /\ UNCHANGED <<flags, width, q, converted, bail, stored, range_start>>

match_init ==
  /\ state = "match_init"
  /\ IF ch = "^" THEN Goes("match_init") /\ matchinv' = TRUE /\ UNCHANGED matchmap
     ELSE Goes("match") /\ matchmap' = {Code(ch)} /\ UNCHANGED matchinv
  /\ UNCHANGED <<directive, q, converted, bail, stored, range_start>>

(* Between - and its end, range_start is the code of the - itself. *)
match_set ==
  /\ ch # "]"
  /\ \/ /\ state = "match" /\ ch = "-"
        /\ Goes("match_range") /\ range_start' = Code("-") /\ UNCHANGED matchmap
     \/ /\ state = "match" /\ ch # "-"
        /\ Goes("match") /\ matchmap' = matchmap \cup {Code(ch)} /\ UNCHANGED range_start
     \/ /\ state = "match_range"
        /\ Goes("match") /\ matchmap' = matchmap \cup (range_start..Code(ch)-1)
        /\ UNCHANGED range_start
  /\ UNCHANGED <<directive, matchinv, q, converted, bail, stored>>

(* The end of the set: takes what matches, whatever the width if it is not *)
(* zero, and stays in the state it is in.                                  *)
match_run ==
  LET map == IF state = "match_range" THEN matchmap \cup {Code("-")} ELSE matchmap
      k == IF width = 0 THEN 0
           ELSE Span(input, q, Len(input), IF matchinv THEN Byte \ map ELSE map)
      nul == width # 0 /\ q + k = Len(input) IN
  /\ state \in {"match", "match_range"} /\ ch = "]"
  /\ Goes(state) /\ matchmap' = map /\ q' = q + k
  /\ IF k > 0 /\ ~Splat
     THEN /\ Stores(SubSeq(input, q + 1, q + k), width) /\ Counts
          /\ bail' = IF nul THEN "eof" ELSE bail
     ELSE Bails(IF nul THEN "eof" ELSE "err")
  /\ UNCHANGED <<directive, matchinv, range_start>>

(* "Return EOF (-1)" *)
scan_end ==
  /\ ~More \/ bail # "none"
  /\ running' = "none"
  /\ converted' = IF bail = "eof" /\ converted = 0 THEN -1 ELSE converted
  /\ UNCHANGED <<format, p, state, directive, input, q, bail, stored, match>>

scan_step ==
  /\ running = "vsscanf"
  /\ \/ /\ More /\ bail = "none" /\ UNCHANGED <<loop, input>>
        /\ \/ scan_percent \/ scan_space \/ scan_literal \/ scan_flags \/ scan_width
           \/ scan_length \/ scan_output \/ scan_bracket
           \/ match_init \/ match_set \/ match_run
     \/ scan_end
=============================================================================
