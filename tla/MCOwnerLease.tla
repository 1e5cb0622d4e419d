---------------------------- MODULE MCOwnerLease ----------------------------
(* OwnerLease with a few contenders.                                       *)
EXTENDS OwnerLease, TLC

\* Contenders are interchangeable.
ContenderSymmetry == Permutations(Contender)
=============================================================================
