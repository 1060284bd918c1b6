---------------------------- MODULE FormatString ----------------------------
(***************************************************************************)
(* What vsnprintf and vsscanf have in common: a loop that takes one        *)
(* character of the format at a time and switches on its state.  The local *)
(* variables that both functions have are declared here.                   *)
(***************************************************************************)
EXTENDS Integers, Sequences, SequencesExt, CTypes

CONSTANT Bits  \* the width in bits of the integers of each rank

Rank == -2..2  \* rank_char, rank_short, rank_int, rank_long, rank_longlong

ASSUME BitsAssumption ==
  /\ Bits \in [Rank -> Nat \ {0}]
  /\ \A r \in Rank : r < 2 => Bits[r] <= Bits[r + 1]

VARIABLES
  running,  \* the function whose loop runs, or "none"
  format, p, state,
  flags, width, rank

loop      == <<running, format>>
directive == <<flags, width, rank>>

More == p <= Len(format)
ch == format[p]

Goes(s)  == p' = p + 1 /\ state' = s
Again(s) == p' = p /\ state' = s  \* "Process this character again"

DigitChars == <<"0", "1", "2", "3", "4", "5", "6", "7", "8", "9">>
IsDigit(c) == Contains(DigitChars, c)
DigitOf(c) == CHOOSE v \in 0..9 : DigitChars[v + 1] = c

Shift(r) == CASE ch = "h" -> r - 1 [] ch = "l" -> r + 1
              [] ch = "j" -> 2 [] ch \in {"z", "t"} -> 1

(* "Canonicalize rank" *)
Canonical(r) == IF r < -2 THEN -2 ELSE IF r > 2 THEN 2 ELSE r

(* A value in the width of rank r: as an unsigned number, and as a signed. *)
Unsigned(v, r) == v % 2^Bits[r]
Signed(v, r) ==
  LET u == Unsigned(v, r) IN IF u >= 2^(Bits[r] - 1) THEN u - 2^Bits[r] ELSE u
=============================================================================
