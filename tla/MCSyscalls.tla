----------------------------- MODULE MCSyscalls -----------------------------
(* Syscalls with the machine's own page size and region.  A single         *)
(* argument of 8047 bytes is the longest that keeps the stack in one page. *)
EXTENDS Syscalls

ProgramValues == {-1, 7}
Arguments == {[text |-> "empty", len |-> 0], [text |-> "word", len |-> 3],
              [text |-> "page", len |-> 8047], [text |-> "over", len |-> 8048]}
=============================================================================
