---------------------------- MODULE MCSessionFork ----------------------------
(* SessionFork on small instances.                                          *)
EXTENDS SessionFork, TLC

\* Calls and operations are interchangeable: the order in which the operations were stamped
\* is kept in earlier, not in their names.
Swaps == Permutations(Host) \cup Permutations(Op)
=============================================================================
