------------------------------ MODULE MCTaskRun ------------------------------
(* TaskRun with small sets of hosts and attempt ids.                       *)
EXTENDS TaskRun, TLC

\* Hosts and attempt ids are interchangeable.
IdSymmetry == Permutations(Owner) \cup Permutations(Attempt)
=============================================================================
