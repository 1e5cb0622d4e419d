---------------------------- MODULE JobLifecycle ----------------------------
(***************************************************************************)
(* What the job store promises to the people who read its completions,     *)
(* with hosts, leases, epochs and versions gone: a job runs in numbered    *)
(* rounds, a round ends once, and the notice of its end appears in the     *)
(* very step that ends it.  A recoverable job may move from a round to the *)
(* next without a notice.                                                  *)
(***************************************************************************)
EXTENDS Naturals

CONSTANTS Job, Recoverable, Terminal

VARIABLES
  phase,    \* where each job is
  rounds,   \* how many rounds it has begun
  ended,    \* <<job, round, status>> of every round that is over
  notices   \* <<job, round, status>> of every notice; round 0 is a cancelled queue entry

vars == <<phase, rounds, ended, notices>>

Init ==
  /\ phase = [j \in Job |-> "absent"]
  /\ rounds = [j \in Job |-> 0]
  /\ ended = {}
  /\ notices = {}

Create(j) ==
  /\ phase[j] = "absent"
  /\ phase' = [phase EXCEPT ![j] = "queued"]
  /\ UNCHANGED <<rounds, ended, notices>>

Begin(j) ==
  /\ phase[j] = "queued"
  /\ phase' = [phase EXCEPT ![j] = "running"]
  /\ rounds' = [rounds EXCEPT ![j] = @ + 1]
  /\ UNCHANGED <<ended, notices>>

End(j, s) ==
  /\ phase[j] = "running"
  /\ phase' = [phase EXCEPT ![j] = "done"]
  /\ ended' = ended \cup {<<j, rounds[j], s>>}
  /\ notices' = notices \cup {<<j, rounds[j], s>>}
  /\ UNCHANGED rounds

\* Several jobs lose their owners in one step.
LoseOwners(lost) ==
  LET over == {<<j, rounds[j], "interrupted">> : j \in lost}
  IN /\ lost # {} /\ \A j \in lost : phase[j] = "running" /\ j \notin Recoverable
     /\ phase' = [j \in Job |-> IF j \in lost THEN "done" ELSE phase[j]]
     /\ ended' = ended \cup over
     /\ notices' = notices \cup over
     /\ UNCHANGED rounds

Continue(j) ==
  /\ phase[j] = "running" /\ j \in Recoverable
  /\ ended' = ended \cup {<<j, rounds[j], "interrupted">>}
  /\ rounds' = [rounds EXCEPT ![j] = @ + 1]
  /\ UNCHANGED <<phase, notices>>

Cancel(j) ==
  /\ phase[j] = "queued"
  /\ phase' = [phase EXCEPT ![j] = "done"]
  /\ notices' = notices \cup {<<j, 0, "cancelled">>}
  /\ UNCHANGED <<rounds, ended>>

Again(j) ==
  /\ phase[j] = "done"
  /\ phase' = [phase EXCEPT ![j] = "queued"]
  /\ UNCHANGED <<rounds, ended, notices>>

Next ==
  \/ \E j \in Job : Create(j) \/ Begin(j) \/ Continue(j) \/ Cancel(j) \/ Again(j)
  \/ \E j \in Job, s \in Terminal : End(j, s)
  \/ \E lost \in SUBSET Job : LoseOwners(lost)

Spec == Init /\ [][Next]_vars
=============================================================================
