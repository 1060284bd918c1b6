----------------------------- MODULE MCProcess -----------------------------
(* Process with the small sets of values that TLC explores. *)
EXTENDS Process

ProgramCodes == {0, 7}
FatalCodes   == {1}
Ticks        == {-1, 2}
=============================================================================
