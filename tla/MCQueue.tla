------------------------------ MODULE MCQueue ------------------------------
(* Queue with interchangeable nodes, elements and queues; only safety is   *)
(* checked, so the symmetry is sound.                                      *)
EXTENDS Queue, TLC

Symmetry == Permutations(Node) \cup Permutations(Elements) \cup Permutations(Queues)
=============================================================================
