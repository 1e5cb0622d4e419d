------------------------------ MODULE MCJobHost ------------------------------
(* JobHost with two hosts, one of which outlives the other: the hosts are not *)
(* interchangeable, and there is no symmetry.                               *)
EXTENDS JobHost, TLC
=============================================================================
