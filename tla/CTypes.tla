------------------------------- MODULE CTypes -------------------------------
(***************************************************************************)
(* The character classes of the user library: the table __ctypes, for ISO  *)
(* 8859-1, and the functions of ctype.h that read it.                      *)
(***************************************************************************)
EXTENDS Integers, Sequences, SequencesExt

EOF == -1
Byte == 0..255

(* A character of a text is written as a string of length one; its code is *)
(* its place in ASCII.  (TLA+ has no name for the other control codes.)    *)
Printable == <<" ", "!", "\"", "#", "$", "%", "&", "'", "(", ")", "*", "+", ",", "-", ".", "/",
  "0", "1", "2", "3", "4", "5", "6", "7", "8", "9", ":", ";", "<", "=", ">", "?", "@",
  "A", "B", "C", "D", "E", "F", "G", "H", "I", "J", "K", "L", "M", "N", "O", "P", "Q", "R", "S",
  "T", "U", "V", "W", "X", "Y", "Z", "[", "\\", "]", "^", "_", "backquote",
  "a", "b", "c", "d", "e", "f", "g", "h", "i", "j", "k", "l", "m", "n", "o", "p", "q", "r", "s",
  "t", "u", "v", "w", "x", "y", "z", "{", "|", "}", "~">>
CodeOf == [c \in ToSet(Printable) |-> CHOOSE i \in 32..126 : Printable[i - 31] = c]
Code(c) ==
  CASE c = "\t" -> 9 [] c = "\n" -> 10 [] c = "\f" -> 12 [] c = "\r" -> 13 [] OTHER -> CodeOf[c]

----------------------------------------------------------------------------
(* Wrong: the letters a to f are no hexadecimal digits. *)
AsciiClassesUpperHex(c) ==
  CASE c \in 0..31 -> IF c \in 8..13 THEN {"cntrl", "space"} ELSE {"cntrl"}
    [] c = 32 -> {"print", "space"}
    [] c \in 48..57 -> {"print", "digit", "xdigit"}
    [] c \in 65..70 -> {"print", "upper", "xdigit"}
    [] c \in 71..90 -> {"print", "upper"}
    [] c \in 97..122 -> {"print", "lower"}
    [] c = 127 -> {"cntrl"}
    [] OTHER -> {"print", "punct"}

(* The lower half of the table.  Backspace (8) counts as a space. *)
AsciiClasses(c) ==
  CASE c \in 0..31 -> IF c \in 8..13 THEN {"cntrl", "space"} ELSE {"cntrl"}
    [] c = 32 -> {"print", "space"}
    [] c \in 48..57 -> {"print", "digit", "xdigit"}
    [] c \in 65..70 -> {"print", "upper", "xdigit"}
    [] c \in 71..90 -> {"print", "upper"}
    [] c \in 97..102 -> {"print", "lower", "xdigit"}
    [] c \in 103..122 -> {"print", "lower"}
    [] c = 127 -> {"cntrl"}
    [] OTHER -> {"print", "punct"}

(* The upper half: controls, no-break space, signs, accented letters with  *)
(* the signs of multiplication (215) and division (247) among them.        *)
Latin1Classes(c) ==
  CASE c \in 128..159 -> {"cntrl"}
    [] c = 160 -> {"print", "space"}
    [] c \in (161..191) \cup {215, 247} -> {"print", "punct"}
    [] c \in (192..222) \ {215} -> {"print", "upper"}
    [] c \in (223..255) \ {247} -> {"print", "lower"}

__ctypes(c) ==
  CASE c = EOF -> {}
    [] c \in 0..127 -> AsciiClasses(c)
    [] c \in 128..255 -> Latin1Classes(c)

isupper(c)  == "upper" \in __ctypes(c)
islower(c)  == "lower" \in __ctypes(c)
isalpha(c)  == __ctypes(c) \cap {"upper", "lower"} # {}
isalnum(c)  == __ctypes(c) \cap {"upper", "lower", "digit"} # {}
isgraph(c)  == __ctypes(c) \cap {"upper", "lower", "digit", "punct"} # {}
isspace(c)  == "space" \in __ctypes(c)
isprint(c)  == "print" \in __ctypes(c)
ispunct(c)  == "punct" \in __ctypes(c)
iscntrl(c)  == "cntrl" \in __ctypes(c)
isxdigit(c) == "xdigit" \in __ctypes(c)
isdigit(c)  == (c - 48) \in 0..9
isascii(c)  == c \in 0..127
isblank(c)  == c \in {9, 32}

(* c & ~32 and c | 32 *)
ClearCase(c) == IF (c \div 32) % 2 = 1 THEN c - 32 ELSE c
SetCase(c)   == IF (c \div 32) % 2 = 0 THEN c + 32 ELSE c
toupper(c) == IF islower(c) THEN ClearCase(c) ELSE c
tolower(c) == IF isupper(c) THEN SetCase(c) ELSE c
=============================================================================
