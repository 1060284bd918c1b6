------------------------------ MODULE MCMemory ------------------------------
(* Memory with two executables: a small one, and one that leaves no page   *)
(* between heap and stack and must be refused.                             *)
EXTENDS Memory

Program(text, data, stack) ==
  [text_pg1 |-> 0, t_npg |-> text, data_pg1 |-> text, data_npg |-> data, stack_npg |-> stack]

Executables == {Program(1, 1, 1), Program(1, 4, 1)}
=============================================================================
