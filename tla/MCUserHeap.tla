----------------------------- MODULE MCUserHeap -----------------------------
(* A heap of nine pages of four words, and a program that moves its break  *)
(* by less than a page, to page boundaries, and out of bounds.             *)
EXTENDS UserHeap

ProgramIncrements == {-40, -5, -1, 0, 1, 3, 4, 9}
ProgramAddrs == {-1, 0, 7, 8, 13, 20, 35, 36, 37, 40}
=============================================================================
