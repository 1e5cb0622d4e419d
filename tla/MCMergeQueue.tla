----------------------------- MODULE MCMergeQueue -----------------------------
(* Instance of MergeQueue for TLC. *)
EXTENDS MergeQueue
===============================================================================
