------------------------------- MODULE CronRun -------------------------------
(***************************************************************************)
(* Background jobs on a schedule: the ledger of cron runs in the control   *)
(* store of a workspace                                                    *)
(* (packages/storage/src/sqlite/sqlite-runtime-control-store.ts) and the   *)
(* daemons that fire them                                                  *)
(* (packages/runtime/src/cron-service.ts,                                  *)
(* packages/pico-host/src/cron-runtime-scheduler.ts).                      *)
(*                                                                         *)
(* Every transaction is an action of its own; other daemons run between    *)
(* any two.  Within a daemon one callback runs at a time: it starts when   *)
(* the daemon is Idle and goes on through the stages that are not Waiting. *)
(* Lease epochs and row versions are left out: run ids are fresh and every *)
(* queued row is made with its lease, so that nobody ever acquires it      *)
(* again, and a version counts the changes its status already tells.       *)
(***************************************************************************)
EXTENDS Naturals, FiniteSets

CONSTANTS
  Daemon,      \* daemon processes ever started (LocalDaemonHost.ownerId is fresh)
  Fallible,    \* the daemons that may end, and whose transactions may fail
  CronJob,     \* cron job ids, all of one workspace
  NoDaemon, NoCronJob,
  TTL,         \* ticks a fresh or renewed lease lasts
  MaxMinute,   \* bound: minutes that begin
  MaxRun       \* bound: rows made

ASSUME CronAssumption ==
  /\ Fallible \subseteq Daemon
  /\ NoDaemon \notin Daemon /\ NoCronJob \notin CronJob
  /\ TTL \in Nat \ {0} /\ MaxMinute \in Nat \ {0} /\ MaxRun \in Nat

Run == 1 .. MaxRun   \* cron run ids, numbered as they are generated

Manual == 0   \* the slot of runNow, which finds a fresh scheduledFor every time
Slot == Manual .. MaxMinute

Ending == {"succeeded", "failed", "cancelled"}         \* what finish may report
Closed == {"blocked", "skipped"}
Active == {"queued", "running"}
RunStatus == {"absent", "deleted"} \cup Active \cup Closed \cup Ending

\* Awaits of dispatchOwned: canRun, getWorkspaceRuntime, waitForRun.
Waiting == {"none", "policy", "runtime", "executing"}
Stage == Waiting \cup Ending \cup
         {"made", "refused", "busy", "preflightFailed", "claiming", "claim", "unclaim",
          "start", "release"}

VARIABLES
  minute,   \* now(), in whole minutes
  deleted,  \* jobs that are no longer in cron_jobs; whether one is enabled is up to its user
  run,      \* cron_runs
  lease,    \* runtime_leases keyed cron-run:<id>
  up,       \* the daemons that run
  todo,     \* jobs the current tick or runNow has still to evaluate, with the slot
  stage,    \* where dispatch(run) of a daemon is
  lost,     \* preflightLeaseLost, and runs cancelled with "cron lease lost"
  fired     \* history: how often startRun admitted an execution of a run

vars == <<minute, deleted, run, lease, up, todo, stage, lost, fired>>

NoRun == [status |-> "absent", job |-> NoCronJob, slot |-> Manual, owner |-> NoDaemon]

Init ==
  /\ minute = 1
  /\ deleted = {}
  /\ run = [r \in Run |-> NoRun]
  /\ lease = [r \in Run |-> [owner |-> NoDaemon, ttl |-> 0]]
  /\ up = Daemon
  /\ todo = [d \in Daemon |-> {}]
  /\ stage = [d \in Daemon |-> [r \in Run |-> "none"]]
  /\ lost = [d \in Daemon |-> {}]
  /\ fired = [r \in Run |-> 0]

Idle(d) == d \in up /\ todo[d] = {} /\ \A r \in Run : stage[d][r] \in Waiting
Goes(d, r, s) == stage' = [stage EXCEPT ![d][r] = s]

-----------------------------------------------------------------------------
(* The store.                                                              *)

Live(r) == lease[r].ttl > 0
Holds(d, r) == lease[r].owner = d /\ Live(r)
\* Mutant: the extension is added to what is left of the lease.
ExtendedBy(r) == [lease EXCEPT ![r].ttl = @ + TTL]
Extended(r) == [lease EXCEPT ![r].ttl = TTL]
Busy == \E r \in Run : run[r].status \in Active

\* The user disables a job before deleting it; the rows of its runs go with it (ON DELETE
\* CASCADE), their leases stay.
DeleteCronJob(j) ==
  /\ j \notin deleted
  /\ ~ \E r \in Run : run[r].job = j /\ run[r].status = "running"
  /\ deleted' = deleted \cup {j}
  /\ run' = [r \in Run |-> IF run[r].job = j THEN [run[r] EXCEPT !.status = "deleted"]
                           ELSE run[r]]
  /\ UNCHANGED <<minute, lease, up, todo, stage, lost, fired>>

\* Mutant: recovery does not look at the leases.
RecoverAll == [r \in Run |-> IF run[r].status \in Active
                             THEN [run[r] EXCEPT !.status = "failed"] ELSE run[r]]
\* Mutant: only queued rows are recovered.
RecoverQueued == [r \in Run |-> IF run[r].status = "queued" /\ ~Live(r)
                                THEN [run[r] EXCEPT !.status = "failed"] ELSE run[r]]

\* recoverInterruptedCronRuns: one transaction over all rows.
Recovered == [r \in Run |-> IF run[r].status \in Active /\ ~Live(r)
                            THEN [run[r] EXCEPT !.status = "failed"] ELSE run[r]]

\* Mutant: only a row that is still active is found.
ExistingActive(j, s) ==
  {r \in Run : run[r].job = j /\ run[r].slot = s /\ s # Manual /\ run[r].status \in Active}
\* A manual run takes the next free millisecond instead of the row it finds.
Existing(j, s) == {r \in Run : run[r].job = j /\ run[r].slot = s /\ s # Manual
                               /\ run[r].status # "deleted"}

-----------------------------------------------------------------------------
(* CronService.tick and runNow.                                            *)

\* Bound: every run id has been used.
NoIdsLeft == \A r \in Run : run[r].status # "absent"

\* The timer of the minute; the recovery of a host that starts is a tick that matches no
\* job.  The recovery and the list of jobs that follows it are one step.
TimerFires(d) ==
  /\ Idle(d)
  /\ run' = Recovered
  /\ \E J \in SUBSET (CronJob \ deleted) :    \* enabled, with a schedule that matches
       todo' = [todo EXCEPT ![d] = J \X {minute}]
  /\ UNCHANGED <<minute, deleted, lease, up, stage, lost, fired>>

\* A manual run does not ask whether the job is enabled.
RunNow(d, j) ==
  /\ Idle(d) /\ j \notin deleted /\ ~NoIdsLeft
  /\ run' = Recovered
  /\ todo' = [todo EXCEPT ![d] = {<<j, Manual>>}]
  /\ UNCHANGED <<minute, deleted, lease, up, stage, lost, fired>>

\* The row a tick finds is dispatched as well, when it is its own and still queued.
FindRun(d, j, s) ==
  /\ <<j, s>> \in todo[d] /\ j \notin deleted
  /\ \E r \in Existing(j, s) :
       IF run[r].status = "queued" /\ run[r].owner = d /\ stage[d][r] = "none"
       THEN Goes(d, r, "made") ELSE UNCHANGED stage
  /\ todo' = [todo EXCEPT ![d] = @ \ {<<j, s>>}]
  /\ UNCHANGED <<minute, deleted, run, lease, up, lost, fired>>

\* What createCronRun makes of an evaluated trigger.
NewStatus(allowed) ==
  IF ~allowed THEN "blocked" ELSE IF Busy THEN "skipped" ELSE "queued"

\* createCronRun: a queued row and its lease in one transaction.
CreateCronRun(d, j, s, r, allowed) ==
  /\ <<j, s>> \in todo[d] /\ j \notin deleted
  /\ Existing(j, s) = {}
  /\ run[r].status = "absent" /\ \A q \in 1 .. r - 1 : run[q].status # "absent"
  /\ LET queued == NewStatus(allowed) = "queued"
     IN /\ run' = [run EXCEPT ![r] = [status |-> NewStatus(allowed), job |-> j, slot |-> s,
                                      owner |-> IF queued THEN d ELSE NoDaemon]]
        /\ lease' = IF queued THEN [lease EXCEPT ![r] = [owner |-> d, ttl |-> TTL]] ELSE lease
        /\ IF queued THEN Goes(d, r, "made") ELSE UNCHANGED stage
  /\ todo' = [todo EXCEPT ![d] = @ \ {<<j, s>>}]
  /\ UNCHANGED <<minute, deleted, up, lost, fired>>

\* requireCronJob, or the transaction, throws: what this tick has made is not dispatched.
TickFails(d, j, s) ==
  /\ <<j, s>> \in todo[d]
  /\ j \in deleted \/ d \in Fallible \/ NoIdsLeft
  /\ todo' = [todo EXCEPT ![d] = {}]
  /\ stage' = [stage EXCEPT ![d] = [r \in Run |-> IF @[r] = "made" THEN "none" ELSE @[r]]]
  /\ UNCHANGED <<minute, deleted, run, lease, up, lost, fired>>

-----------------------------------------------------------------------------
(* CronRuntimeScheduler.dispatchOwned, up to the claim.                    *)

\* A heartbeat before the next stage.
Renewed(d, r, next) ==
  IF Holds(d, r) THEN lease' = Extended(r) /\ Goes(d, r, next)
                 ELSE UNCHANGED lease /\ Goes(d, r, "preflightFailed")

\* assertPreflightOwnership after an await: the flag of the interval as well.
Asserted(d, r, next) ==
  IF r \in lost[d] THEN UNCHANGED lease /\ Goes(d, r, "preflightFailed")
                   ELSE Renewed(d, r, next)

Dispatch(d, r) ==
  /\ todo[d] = {} /\ stage[d][r] = "made"
  /\ Renewed(d, r, IF run[r].job \in deleted THEN "refused" ELSE "policy")
  /\ lost' = [lost EXCEPT ![d] = @ \ {r}]
  /\ UNCHANGED <<minute, deleted, run, up, todo, fired>>

CanRunAnswers(d, r, allowed) ==
  /\ Idle(d) /\ stage[d][r] = "policy"
  /\ Asserted(d, r, IF allowed THEN "runtime" ELSE "refused")
  /\ UNCHANGED <<minute, deleted, run, up, todo, lost, fired>>

\* listRuns: a run of the user may be in the way as well as one of this scheduler.
WorkspaceIsBusy(d) == \E r \in Run : stage[d][r] = "executing"

RuntimeAnswers(d, r, busy) ==
  /\ Idle(d) /\ stage[d][r] = "runtime"
  /\ WorkspaceIsBusy(d) => busy
  /\ Asserted(d, r, IF busy THEN "busy" ELSE "claiming")
  /\ UNCHANGED <<minute, deleted, run, up, todo, lost, fired>>

\* Either await, or any transaction before the claim, may throw.
PreflightThrows(d, r) ==
  /\ \/ Idle(d) /\ stage[d][r] \in {"policy", "runtime"}
     \/ d \in Fallible /\ stage[d][r] \in {"refused", "busy", "claiming"}
     \/ d \in Fallible /\ stage[d][r] = "made" /\ todo[d] = {}
  /\ Goes(d, r, "preflightFailed")
  /\ UNCHANGED <<minute, deleted, run, lease, up, todo, lost, fired>>

\* Mutant: the status of what claim returned is not looked at.
CloseAndStart(d, r, status) ==
  IF run[r].status = "queued" /\ Holds(d, r)
  THEN run' = [run EXCEPT ![r].status = status] /\ Goes(d, r, "start")
  ELSE UNCHANGED run /\ Goes(d, r, "preflightFailed")

\* closeQueuedCronRun.
Close(d, r, status) ==
  IF run[r].status = "queued" /\ Holds(d, r)
  THEN run' = [run EXCEPT ![r].status = status] /\ Goes(d, r, "none")
  ELSE UNCHANGED run /\ Goes(d, r, IF run[r].status = status THEN "none"
                                   ELSE "preflightFailed")

CloseQueued(d, r) ==
  /\ \/ stage[d][r] = "refused" /\ Close(d, r, "blocked")
     \/ stage[d][r] = "busy" /\ Close(d, r, "skipped")
  /\ UNCHANGED <<minute, deleted, lease, up, todo, lost, fired>>

\* blockQueuedAfterPreflightFailure: whatever goes wrong is swallowed.
BlockAfterFailure(d, r) ==
  /\ stage[d][r] = "preflightFailed"
  /\ \/ run' = IF run[r].status = "queued" /\ Holds(d, r)
               THEN [run EXCEPT ![r].status = "blocked"] ELSE run
     \/ d \in Fallible /\ UNCHANGED run
  /\ Goes(d, r, "none")
  /\ UNCHANGED <<minute, deleted, lease, up, todo, lost, fired>>

-----------------------------------------------------------------------------
(* CronService.claim, the execution, CronService.finish.                   *)

\* claim reads the row, evaluates the job and renews the lease.
Claim(d, r, allowed) ==
  /\ stage[d][r] = "claiming"
  /\ IF run[r].status # "queued" THEN UNCHANGED lease /\ Goes(d, r, "preflightFailed")
     ELSE IF ~allowed THEN UNCHANGED lease /\ Goes(d, r, "refused")
     ELSE IF Holds(d, r) THEN lease' = Extended(r) /\ Goes(d, r, "claim")
     ELSE UNCHANGED lease /\ Goes(d, r, "preflightFailed")
  /\ UNCHANGED <<minute, deleted, run, up, todo, lost, fired>>

ClaimCronRun(d, r) ==
  /\ stage[d][r] = "claim"
  /\ \/ /\ run[r].status = "queued" /\ Holds(d, r) /\ run[r].owner = d
        /\ run' = [run EXCEPT ![r].status = "running"] /\ Goes(d, r, "start")
     \/ /\ ~(run[r].status = "queued" /\ Holds(d, r) /\ run[r].owner = d) \/ d \in Fallible
        /\ UNCHANGED run /\ Goes(d, r, "unclaim")
  /\ UNCHANGED <<minute, deleted, lease, up, todo, lost, fired>>

\* releaseLease, of claim that failed and of finish that succeeded.
ReleaseLease(d, r) ==
  /\ stage[d][r] \in {"unclaim", "release"}
  /\ \/ lease[r].owner = d /\ lease' = [lease EXCEPT ![r].ttl = 0]
     \/ (lease[r].owner # d \/ d \in Fallible) /\ UNCHANGED lease
  /\ Goes(d, r, IF stage[d][r] = "unclaim" THEN "preflightFailed" ELSE "none")
  /\ UNCHANGED <<minute, deleted, run, up, todo, lost, fired>>

StartRun(d, r) ==
  /\ stage[d][r] = "start"
  /\ \/ Goes(d, r, "executing") /\ fired' = [fired EXCEPT ![r] = @ + 1]
     \/ d \in Fallible /\ Goes(d, r, "failed") /\ UNCHANGED fired    \* assertOpen: closing
  /\ lost' = [lost EXCEPT ![d] = @ \ {r}]      \* the preflight flag is out of scope
  /\ UNCHANGED <<minute, deleted, run, lease, up, todo>>

\* waitForRun: an aborted run is reported as cancelled, whatever it returned.
ExecutionEnds(d, r, outcome) ==
  /\ Idle(d) /\ stage[d][r] = "executing"
  /\ r \in lost[d] => outcome = "cancelled"
  /\ Goes(d, r, outcome)
  /\ UNCHANGED <<minute, deleted, run, lease, up, todo, lost, fired>>

\* Mutant: the end is recorded whatever has become of the row.
FinishLate(d, r) ==
  /\ stage[d][r] \in Ending
  /\ run' = [run EXCEPT ![r].status = stage[d][r]] /\ Goes(d, r, "release")
  /\ UNCHANGED <<minute, deleted, lease, up, todo, lost, fired>>

FinishCronRun(d, r) ==
  /\ stage[d][r] \in Ending
  /\ \/ /\ run[r].status = "running" /\ run[r].owner = d /\ Holds(d, r)
        /\ run' = [run EXCEPT ![r].status = stage[d][r]] /\ Goes(d, r, "release")
     \/ /\ ~(run[r].status = "running" /\ run[r].owner = d /\ Holds(d, r)) \/ d \in Fallible
        /\ UNCHANGED run /\ Goes(d, r, "none")
  /\ UNCHANGED <<minute, deleted, lease, up, todo, lost, fired>>

\* The two heartbeat intervals: one failure ends the preflight, or cancels the run.
Beat(d, r) ==
  /\ Idle(d)
  /\ stage[d][r] = "executing" \/ (stage[d][r] \in {"policy", "runtime"} /\ r \notin lost[d])
  /\ \/ Holds(d, r) /\ lease' = Extended(r) /\ UNCHANGED lost
     \/ (~Holds(d, r) \/ d \in Fallible) /\ lost' = [lost EXCEPT ![d] = @ \cup {r}]
                                         /\ UNCHANGED lease
  /\ UNCHANGED <<minute, deleted, run, up, todo, stage, fired>>

-----------------------------------------------------------------------------
(* Processes and time.                                                     *)

\* A crash, or a close that has waited for what is dispatched: a daemon that closes has
\* stopped its timer, which no daemon here has to have.
Ends(d) ==
  /\ d \in Fallible /\ d \in up
  /\ up' = up \ {d}
  /\ todo' = [todo EXCEPT ![d] = {}]
  /\ stage' = [stage EXCEPT ![d] = [r \in Run |-> "none"]]
  /\ lost' = [lost EXCEPT ![d] = {}]
  /\ UNCHANGED <<minute, deleted, run, lease, fired>>

Tick ==
  /\ \E r \in Run : Live(r)
  /\ lease' = [r \in Run |-> [lease[r] EXCEPT !.ttl = IF Live(r) THEN @ - 1 ELSE 0]]
  /\ UNCHANGED <<minute, deleted, run, up, todo, stage, lost, fired>>

NextMinute ==
  /\ minute < MaxMinute
  /\ minute' = minute + 1
  /\ UNCHANGED <<deleted, run, lease, up, todo, stage, lost, fired>>

\* What the daemon does without waiting for anything.
TurnStep(d) ==
  \/ \E j \in CronJob, s \in Slot :
       \/ FindRun(d, j, s) \/ TickFails(d, j, s)
       \/ \E r \in Run, b \in BOOLEAN : CreateCronRun(d, j, s, r, b)
  \/ \E r \in Run :
       \/ Dispatch(d, r) \/ CloseQueued(d, r) \/ BlockAfterFailure(d, r)
       \/ ClaimCronRun(d, r) \/ ReleaseLease(d, r) \/ StartRun(d, r) \/ FinishCronRun(d, r)
       \/ \E b \in BOOLEAN : Claim(d, r, b)

\* What answers an await.
Answer(d, r) ==
  \/ PreflightThrows(d, r)
  \/ \E b \in BOOLEAN : CanRunAnswers(d, r, b) \/ RuntimeAnswers(d, r, b)
  \/ \E o \in Ending : ExecutionEnds(d, r, o)

Next ==
  \/ \E j \in CronJob : DeleteCronJob(j)
  \/ \E d \in Daemon :
       \/ TimerFires(d) \/ Ends(d) \/ TurnStep(d)
       \/ \E j \in CronJob : RunNow(d, j)
       \/ \E r \in Run : Answer(d, r) \/ Beat(d, r)
  \/ Tick \/ NextMinute

Spec == Init /\ [][Next]_vars

\* A daemon that stays up: its timer fires again once everything it has dispatched is
\* settled (scheduleNextMinute after the tick), a turn goes on, and the event loop gets
\* round to the answer of every await.
Settled(d) == \A r \in Run : stage[d][r] = "none"
Fairness ==
  /\ WF_vars(Tick)
  /\ \A d \in Daemon \ Fallible :
       /\ WF_vars(TurnStep(d)) /\ WF_vars(Settled(d) /\ TimerFires(d))
       /\ \A r \in Run : SF_vars(Answer(d, r))
FairSpec == Spec /\ Fairness

-----------------------------------------------------------------------------
(* Properties.                                                             *)

Row == [status : RunStatus, job : CronJob \cup {NoCronJob}, slot : Slot,
        owner : Daemon \cup {NoDaemon}]

\* The shape of rows, leases and daemons.
TypeOK ==
  /\ minute \in 1 .. MaxMinute
  /\ deleted \subseteq CronJob
  /\ run \in [Run -> Row]
  /\ lease \in [Run -> [owner : Daemon \cup {NoDaemon}, ttl : 0 .. TTL]]
  /\ up \subseteq Daemon
  /\ todo \in [Daemon -> SUBSET (CronJob \X Slot)]
  /\ stage \in [Daemon -> [Run -> Stage]]
  /\ lost \in [Daemon -> SUBSET Run]
  /\ fired \in [Run -> Nat]

\* However many daemons tick, at most one run of the workspace is queued or running
\* (createCronRun skips a trigger that finds another one active).
OneActive ==
  \A r, s \in Run : run[r].status \in Active /\ run[s].status \in Active => r = s

\* A scheduled trigger has one row, whichever daemons evaluate its minute, and however
\* often (createCronRun returns the row it finds).
OneRowPerTrigger ==
  \A r, s \in Run :
    /\ run[r].status \notin {"absent", "deleted"} /\ run[s].status \notin {"absent", "deleted"}
    /\ run[r].slot # Manual /\ run[r].slot = run[s].slot /\ run[r].job = run[s].job
    => r = s

\* What the ledger says was executed, and what it says was not: a run is executed at most
\* once, a blocked or skipped one never ("a daemon restart cannot replay it"), a
\* succeeded or cancelled one once.
FiredAsRecorded ==
  \A r \in Run : /\ fired[r] <= 1
                 /\ run[r].status \in Closed \cup {"absent", "queued"} => fired[r] = 0
                 /\ run[r].status \in {"succeeded", "cancelled"} => fired[r] = 1

\* As long as its lease lives, a daemon that executes a run has the row: nobody recovers,
\* blocks, deletes or finishes it.
Executing(d, r) == stage[d][r] \in {"start", "executing"} \cup Ending
ExecutorHasTheRow ==
  \A d \in Daemon, r \in Run :
    Executing(d, r) /\ Holds(d, r) => run[r].status = "running" /\ run[r].owner = d

\* A terminal row stands until its job is deleted.
VerdictStands ==
  [][\A r \in Run : run[r].status \in Closed \cup Ending =>
                     run'[r] = run[r] \/ run'[r].status = "deleted"]_vars

\* Every queued or running row ends, by its daemon or, once that is gone or has lost its
\* lease, by the tick of another: the workspace is never busy for good.
RunsEnd == []<>~Busy

-----------------------------------------------------------------------------
(* The inductive invariant.                                                *)

\* A daemon dispatches and executes its own rows only, from the claim to the verdict.
Dispatching ==
  \A d \in Daemon, r \in Run :
    /\ stage[d][r] # "none" => run[r].status # "absent" /\ run[r].owner = d
    /\ Executing(d, r) => run[r].status \in {"running", "deleted"} \cup Ending
    /\ stage[d][r] = "start" => fired[r] = 0
    /\ stage[d][r] \in {"executing", "succeeded", "cancelled"} => fired[r] = 1

CronInv == /\ TypeOK /\ OneActive /\ OneRowPerTrigger
           /\ FiredAsRecorded /\ ExecutorHasTheRow /\ Dispatching
=============================================================================
