----------------------------- MODULE MCCronRun -----------------------------
(* Instance of CronRun for TLC. *)
EXTENDS CronRun
=============================================================================
