----------------------------- MODULE MCJobStore -----------------------------
(* JobStore and its refinement with small sets of hosts, jobs and attempts. *)
EXTENDS JobStoreRefinement, TLC

\* Hosts are interchangeable; the properties name none of them.
HostSymmetry == Permutations(Owner)
=============================================================================
