------------------------------ MODULE MCLibrary ------------------------------
EXTENDS Library

(* Narrow integers, with the order of the real widths. *)
MCBits == [r \in Rank |-> CASE r = -2 -> 4 [] r = -1 -> 6 [] r \in {0, 1} -> 8 [] r = 2 -> 10]

Directive(conv, fl, w, pr, star, length, arg) ==
  [conv |-> conv, flags |-> fl, width |-> w, prec |-> pr, star |-> star, length |-> length, arg |-> arg]
Plain(conv, arg) == Directive(conv, <<>>, -1, -1, FALSE, <<>>, arg)
Text(t) == Plain("text", t)
Prints(ds, size) == [directives |-> ds, size |-> size, back |-> <<>>]

LengthOf == [r \in Rank |-> CASE r = -2 -> {<<"h", "h">>} [] r = -1 -> {<<"h">>} [] r = 0 -> {<<>>}
                           [] r = 1 -> {<<"l">>, <<"z">>, <<"t">>} [] r = 2 -> {<<"l", "l">>, <<"j">>, <<"q">>}]
Extremes(r) == {-2^(Bits[r] - 1), -1, 0, 2^(Bits[r] - 1) - 1}

Numbers ==
  {Directive(c, f, w, k, FALSE, <<>>, a) :
     c \in {"d", "u", "o", "x", "X", "p"},
     f \in {<<>>, <<"-">>, <<"0">>, <<"+">>, <<" ">>, <<"#">>, <<"'">>, <<"#", "0">>, <<"'", "0">>, <<"-", "0">>},
     w \in {-1, 4, 9}, k \in {-1, 0, 5}, a \in {0, 7, -128}}
WidthsOfTypes ==
  UNION {{Directive(c, <<>>, -1, -1, FALSE, l, a) : c \in {"i", "u", "x"}, l \in LengthOf[r], a \in Extremes(r)} : r \in Rank}
Starred == {Directive(c, <<>>, w, k, TRUE, <<>>, 5) : c \in {"d", "x"}, w \in {-6, 6}, k \in {-2, -1, 3}}
Strs ==
  {Directive("s", f, w, k, FALSE, <<>>, a) :
     f \in {<<>>, <<"-">>, <<"0">>}, w \in {-1, 2, 5}, k \in {-1, 0, 2},
     a \in {<<>>, <<"a", "b">>, <<"a", "b", "c">>, <<"NULL">>}}
  \cup {Directive("c", f, w, -1, FALSE, <<>>, "z") : f \in {<<>>, <<"-">>}, w \in {-1, 3}}

(* %s and %c skip no white space, so what they read begins at once. *)
Readable == {d \in Strs : (d.conv = "s" => d.arg # <<>>) /\ d.prec # 0 /\ (d.flags = <<"-">> \/ d.width = -1)}

Pairs ==
  {<<Directive(c, f, w, 2, FALSE, l, 3), m, Plain(d, 6), Text(<<"!">>)>> :
     c \in {"d", "X"}, f \in {<<"-">>, <<"0", "#">>, <<"+">>}, w \in {-1, 4}, l \in {<<>>, <<"h", "h">>},
     m \in {Text(<<" ">>), Plain("%", 0), Plain("n", 0)}, d \in {"d", "u", "o"}}

Seconds == {Plain("d", -3), Plain("x", 27), Directive("d", <<>>, -1, -1, FALSE, <<"h">>, -2), Plain("c", "y")}
ReadBack(d, separator, e) ==
  [directives |-> <<d, Text(<<separator>>), e>>, size |-> 100,
   back |-> <<"%">> \o d.length \o <<d.conv, separator, "%">> \o e.length \o <<e.conv>>]

MCPrintJobs ==
  {Prints(<<d>>, size) : d \in Numbers, size \in {0, 1, 3, 100}}
  \cup {Prints(<<d, Text(<<";">>)>>, 100) : d \in WidthsOfTypes}
  \cup {Prints(<<d>>, size) : d \in Starred \cup Strs, size \in {0, 1, 4, 100}}
  \cup {Prints(ds, size) : ds \in Pairs, size \in {0, 4, 100}}
  \cup {ReadBack(d, " ", e) :
          d \in WidthsOfTypes \cup Readable \cup {x \in Numbers : x.conv # "p" /\ ~Has(x, "'")}, e \in Seconds}
  \cup {ReadBack(d, "h", e) : d \in WidthsOfTypes, e \in Seconds}

Texts ==
  UNION {[1..k -> {"1", "a", " ", "-", ","}] : k \in 0..4}
  \cup {<<"0", "x", "1", "f">>, <<"0", "1", "7">>, <<"%", "5">>, <<"9", "9", "9", "9", "9">>, <<"+", "8">>}
Formats ==
  {<<"%", "d">>, <<"%", "2", "d">>, <<"%", "1", "1", "d">>, <<"%", "*", "d", "%", "i">>, <<"%", "d", ",", "%", "d">>,
   <<"%", "3", "s">>, <<"%", "s">>, <<"%", "0", "s">>, <<"%", "*", "s", " ", "%", "c">>, <<"%", "2", "c">>,
   <<"%", "*", "c", "%", "c">>, <<"%", "h", "h", "d", "%", "n">>, <<"%", "%", "%", "i">>, <<"%", "x", "%", "y">>,
   <<"a", "%", "j", "u">>, <<"%", "p">>, <<"%", "[", "1", "a", "]">>, <<"%", "[", "^", ",", "]">>,
   <<"%", "2", "[", "1", "-", "a", "]">>, <<"%", "*", "[", "a", "-", "]">>, <<"%", "0", "[", "a", "]">>}
MCScanJobs == {[input |-> t, format |-> f] : t \in Texts, f \in Formats}

(* Strings of two letters with a NUL at the end and at most one before it, *)
(* and one memory with a byte of its own at every address.                 *)
MCMemories ==
  {[a \in 0..5 |-> IF a = 5 \/ a = z THEN 0 ELSE m[a]] : m \in [0..4 -> {1, 2}], z \in 0..5}
  \cup {[a \in 0..5 |-> (a + 1) % 6]}
=============================================================================
