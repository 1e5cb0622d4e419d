------------------------------- MODULE JobHost -------------------------------
(***************************************************************************)
(* The processes that use JobStore: TaskHostRuntime, WorktreeSupervisor,   *)
(* TaskRegistry, RuntimeTaskMirror and JobService of each host             *)
(* (packages/pico-host/src/task-host-runtime.ts, worktree-supervisor.ts,   *)
(* packages/runtime/src/runtime-task-mirror.ts, task-registry.ts,          *)
(* job-service.ts).                                                        *)
(*                                                                         *)
(* JavaScript runs one call at a time, so a host is idle or inside one     *)
(* synchronous call, but every store operation of that call is a           *)
(* transaction of its own: other hosts act, and leases run out, between    *)
(* two of them.  call[h] holds what the call has read and has yet to do.   *)
(* A host that crashes loses all it has outside the store.                 *)
(***************************************************************************)
EXTENDS Naturals, FiniteSets

CONSTANTS
  Owner, Job, AttemptId, NoOwner, NoJob, NoAttempt, TTL, MaxEpoch, MaxVersion,
  Merges,      \* jobs whose completionMode is merge_to_host
  Survivor,    \* hosts that neither crash nor close
  StoreFails   \* TRUE when a transaction may fail for reasons of its own (busy, I/O)

\* A job of a host passes three versions, which the bound must leave room for.
ASSUME HostAssumption ==
  /\ Merges \subseteq Job /\ Survivor \subseteq Owner /\ StoreFails \in BOOLEAN
  /\ NoOwner \notin Owner /\ NoJob \notin Job /\ NoAttempt \notin AttemptId
  /\ IsFiniteSet(AttemptId)
  /\ TTL \in Nat \ {0} /\ MaxEpoch \in Nat /\ MaxVersion \in Nat /\ MaxVersion >= 3

VARIABLES
  lease, job, attempt, outbox, delivered,  \* the store
  merge,     \* merge_requests.status of each job
  mode,      \* each host: unborn, open, closing or dead
  registry,  \* TaskRegistry of each host: the status shown, the runtimeVersion beneath it
  heart,     \* RuntimeTaskMirror.heartbeats: the epoch each timer renews, 0 for none
  runner,    \* WorktreeTaskRecord: how far the run of the task has come
  call,      \* the synchronous call a host is in
  unrecorded \* history: runs whose end the store failed to take

store == <<lease, job, attempt, outbox, delivered>>
vars == <<store, merge, mode, registry, heart, runner, call, unrecorded>>

\* completion:<jobId>:<attemptNumber>, the id both finishing paths use.
CompletionOfRun(j, n) == <<"completion", j, n>>

Store == INSTANCE JobStore WITH
  Recoverable <- {},
  OtherCompletion <- {CompletionOfRun(j, n) : j \in Job, n \in 1 .. Cardinality(AttemptId)},
  Outcome <- {"succeeded", "partial", "failed", "cancelled"}

Idle == [op |-> "idle", job |-> NoJob, then |-> "none", status |-> "none", epoch |-> 0,
         version |-> 0, attempt |-> NoAttempt, attemptVersion |-> 0]
Unseen == [status |-> "none", version |-> 0]

Init ==
  /\ Store!Init
  /\ merge = [j \in Job |-> "none"]
  /\ mode = [h \in Owner |-> "unborn"]
  /\ registry = [h \in Owner |-> [j \in Job |-> Unseen]]
  /\ heart = [h \in Owner |-> [j \in Job |-> 0]]
  /\ runner = [h \in Owner |-> [j \in Job |-> "none"]]
  /\ call = [h \in Owner |-> Idle]
  /\ unrecorded = {}

Up(h) == mode[h] \in {"open", "closing"}
IsIdle(h) == Up(h) /\ call[h] = Idle

-----------------------------------------------------------------------------
(* Reading the store: durable.attempts.at(-1), and the TaskRegistry status *)
(* a job row is shown as.                                                  *)

AttemptsOf(j) == {a \in AttemptId : attempt[a].job = j}
LastAttempt(j) ==
  CHOOSE a \in AttemptsOf(j) : \A b \in AttemptsOf(j) : attempt[b].number <= attempt[a].number

ShownAs(status) ==
  CASE status = "absent" -> "none"
    [] status = "queued" -> "pending"
    [] status = "running" -> "running"
    [] status = "succeeded" -> "completed"
    [] status = "cancelled" -> "killed"
    [] OTHER -> "failed"

Materialized(j) == [status |-> ShownAs(job[j].status), version |-> job[j].version]

Ended == {"completed", "failed", "killed"}
TerminalStatus(shown) ==
  CASE shown = "completed" -> "succeeded" [] shown = "killed" -> "cancelled" [] OTHER -> "failed"

IsTerminal(j) == job[j].status \in Store!Terminal

\* The call that acquires the lease and then starts the attempt.
Acquire(j, then, status) ==
  [Idle EXCEPT !.op = "acquire", !.job = j, !.then = then, !.status = status, !.version = job[j].version]

\* JobService.terminal on what jobs.get has just returned.
Terminate(j, then, status) ==
  [op |-> "finish", job |-> j, then |-> then, status |-> status, epoch |-> attempt[LastAttempt(j)].epoch,
   version |-> job[j].version, attempt |-> LastAttempt(j), attemptVersion |-> attempt[LastAttempt(j)].version]

-----------------------------------------------------------------------------
(* RuntimeTaskMirror.mirror, called by every update of the registry: it    *)
(* reads the job and decides.  then says who called: "run" is the start of *)
(* a task, "end" its finish.                                               *)

MirrorRunning(h, j) ==
  CASE job[j].status = "queued" ->
         call' = [call EXCEPT ![h] = Acquire(j, "run", "running")] /\ UNCHANGED heart
    [] job[j].status = "running" /\ attempt[LastAttempt(j)].owner = h ->
         heart' = [heart EXCEPT ![h][j] = attempt[LastAttempt(j)].epoch] /\ UNCHANGED call
    [] OTHER -> UNCHANGED <<heart, call>>

MirrorEnded(h, j, shown) ==
  CASE IsTerminal(j) ->
         heart' = [heart EXCEPT ![h][j] = 0] /\ UNCHANGED call
    [] job[j].status = "queued" ->
         call' = [call EXCEPT ![h] = Acquire(j, "end", shown)] /\ UNCHANGED heart
    [] OTHER ->
         /\ heart' = [heart EXCEPT ![h][j] = 0]
         /\ call' = [call EXCEPT ![h] = Terminate(j, "end", TerminalStatus(shown))]

Show(h, j, shown) == registry' = [registry EXCEPT ![h][j].status = shown]
Moves(h, j, step) == runner' = [runner EXCEPT ![h][j] = step]

-----------------------------------------------------------------------------
(* WorktreeSupervisor: the life of a task in the host that created it.     *)

\* start: the registry entry and the durable job, or a throw that leaves the entry alone.
Submit(h, j) ==
  /\ IsIdle(h) /\ mode[h] = "open"
  /\ \A g \in Owner : registry[g][j] = Unseen
  /\ Show(h, j, "pending")
  /\ \/ Store!CreateJob(j) /\ Moves(h, j, "preparing")
     \/ StoreFails /\ UNCHANGED <<store, runner>>
  /\ UNCHANGED <<merge, mode, heart, call>>

\* The worktree is ready: registry.start, which the mirror turns into jobs.start.
RunTask(h, j) ==
  /\ IsIdle(h) /\ runner[h][j] = "preparing"
  /\ Moves(h, j, "running")
  /\ Show(h, j, "running")
  /\ MirrorRunning(h, j)
  /\ UNCHANGED <<store, merge, mode>>

\* The worktree cannot be prepared, the runner throws or is stopped.
TaskFails(h, j) ==
  /\ IsIdle(h) /\ runner[h][j] \in {"preparing", "running"}
  /\ Moves(h, j, "fails")
  /\ UNCHANGED <<store, merge, mode, registry, heart, call>>

\* The runner returns; a merge_to_host task goes through finalizeWorktree first.
TaskReturns(h, j) ==
  /\ IsIdle(h) /\ runner[h][j] = "running"
  /\ \/ j \notin Merges /\ Moves(h, j, "completes") /\ UNCHANGED merge
     \/ /\ j \in Merges /\ job[j].status = "running" /\ AttemptsOf(j) # {}
        /\ merge' = [merge EXCEPT ![j] = "queued"]
        /\ Moves(h, j, "merging")
     \/ /\ j \in Merges /\ (job[j].status # "running" \/ StoreFails)
        /\ Moves(h, j, "fails") /\ UNCHANGED merge
  /\ UNCHANGED <<store, mode, registry, heart, call>>

\* finish: the registry entry ends, the mirror persists it.  A stop request
\* that came in meanwhile turns either outcome into "killed".
FinishTask(h, j) ==
  /\ IsIdle(h) /\ runner[h][j] \in {"completes", "fails"}
  /\ Moves(h, j, "over")
  /\ \E shown \in {"killed", IF runner[h][j] = "completes" THEN "completed" ELSE "failed"} :
       Show(h, j, shown) /\ MirrorEnded(h, j, shown)
  /\ UNCHANGED <<store, merge, mode>>

-----------------------------------------------------------------------------
(* finalizeWorktree: merge_requests follows the merge queue; the job is    *)
(* settled in the same synchronous stretch as the last update.             *)

Settle(h, j, then, status) ==
  call' = [call EXCEPT ![h] = [Idle EXCEPT !.op = "settle", !.job = j, !.then = then, !.status = status]]

MergeBegins(h, j) ==
  /\ IsIdle(h) /\ runner[h][j] = "merging" /\ merge[j] = "queued"
  /\ merge' = [merge EXCEPT ![j] = "running"]
  /\ UNCHANGED <<store, mode, registry, heart, runner, call>>

\* Mutant: the job is settled when the merge is queued.
MergeAssumed(h, j) ==
  /\ IsIdle(h) /\ runner[h][j] = "merging" /\ merge[j] \in {"queued", "running"}
  /\ Settle(h, j, "final", "succeeded")
  /\ UNCHANGED <<store, merge, mode, registry, heart, runner>>

MergeEnds(h, j) ==
  /\ IsIdle(h) /\ runner[h][j] = "merging" /\ merge[j] \in {"queued", "running"}
  /\ \/ /\ merge[j] = "queued"   \* the target already contains the commit
        /\ merge' = [merge EXCEPT ![j] = "not_needed"]
        /\ Settle(h, j, "final", "succeeded") /\ UNCHANGED runner
     \/ /\ merge[j] = "running"
        /\ \/ merge' = [merge EXCEPT ![j] = "merged"] /\ Settle(h, j, "final", "succeeded")
           \/ merge' = [merge EXCEPT ![j] = "blocked"] /\ Settle(h, j, "final", "partial")
        /\ UNCHANGED runner
     \/ /\ merge' = [merge EXCEPT ![j] = "failed"]
        /\ Settle(h, j, "finalAgain", "failed") /\ UNCHANGED runner
     \/ StoreFails /\ Moves(h, j, "fails") /\ UNCHANGED <<merge, call>>
  /\ UNCHANGED <<store, mode, registry, heart>>

\* The durable row is read again: an attempt that is gone makes the finalizer throw.
SettleRead(h) ==
  LET c == call[h]
  IN /\ Up(h) /\ c.op = "settle"
     /\ \/ /\ job[c.job].status = "running" /\ Store!RunningOf(c.job) # {}
           /\ heart' = [heart EXCEPT ![h][c.job] = 0]
           /\ call' = [call EXCEPT ![h] = Terminate(c.job, c.then, c.status)]
           /\ UNCHANGED runner
        \/ /\ job[c.job].status # "running"
           /\ call' = [call EXCEPT ![h] = Idle]
           /\ Moves(h, c.job, "fails")
           /\ UNCHANGED heart
     /\ UNCHANGED <<store, merge, mode, registry>>

-----------------------------------------------------------------------------
(* The transactions of JobService.start and JobService.terminal.           *)

\* What a throw does to the caller: the start of a task fails the task, the
\* finalizer settles once more as failed and then fails the task, and finish
\* has already made the record terminal, so that nothing follows.
Thrown(h) ==
  LET c == call[h]
  IN CASE c.then = "final" ->
            /\ Settle(h, c.job, "finalAgain", "failed")
            /\ UNCHANGED runner
       [] c.then \in {"run", "finalAgain"} ->
            call' = [call EXCEPT ![h] = Idle] /\ Moves(h, c.job, "fails")
       [] OTHER -> call' = [call EXCEPT ![h] = Idle] /\ UNCHANGED runner

AcquireTx(h) ==
  LET c == call[h]
  IN /\ Up(h) /\ c.op = "acquire"
     /\ \/ /\ Store!AcquireLease(h, c.job)
           /\ call' = [call EXCEPT ![h] = [c EXCEPT !.op = "start", !.epoch = lease'[c.job].epoch]]
           /\ UNCHANGED runner
        \/ StoreFails /\ Thrown(h) /\ UNCHANGED store
     /\ UNCHANGED <<merge, mode, registry, heart>>

\* A started task gets its timer; ensureAttempt goes on to read the job again.
Started(h) ==
  LET c == call[h]
  IN IF c.then = "run"
       THEN heart' = [heart EXCEPT ![h][c.job] = c.epoch] /\ call' = [call EXCEPT ![h] = Idle]
       ELSE UNCHANGED heart /\ call' = [call EXCEPT ![h].op = "reread"]

StartTx(h) ==
  LET c == call[h]
  IN /\ Up(h) /\ c.op = "start"
     /\ \/ /\ \E a \in AttemptId : Store!StartJob(c.job, a, h, c.epoch, c.version) /\ Started(h)
           /\ UNCHANGED runner
        \/ /\ StoreFails \/ ~Store!Holds(h, c.job, c.epoch)
           /\ call' = [call EXCEPT ![h].op = "unstart"]
           /\ UNCHANGED <<store, heart, runner>>
     /\ UNCHANGED <<merge, mode, registry>>

\* The catch of JobService.start gives the lease back while the job is queued.
UnstartTx(h) ==
  LET c == call[h]
  IN /\ Up(h) /\ c.op = "unstart"
     /\ \/ job[c.job].status = "queued" /\ Store!ReleaseLease(h, c.job, c.epoch)
        \/ StoreFails /\ UNCHANGED store
     /\ Thrown(h)
     /\ UNCHANGED <<merge, mode, registry, heart>>

Reread(h) ==
  LET c == call[h]
  IN /\ Up(h) /\ c.op = "reread"
     /\ IF job[c.job].status = "running"
          THEN /\ heart' = [heart EXCEPT ![h][c.job] = 0]
               /\ call' = [call EXCEPT ![h] = Terminate(c.job, "end", TerminalStatus(c.status))]
          ELSE call' = [call EXCEPT ![h] = Idle] /\ UNCHANGED heart
     /\ UNCHANGED <<store, merge, mode, registry, runner>>

FinishTx(h) ==
  LET c == call[h]
  IN /\ Up(h) /\ c.op = "finish"
     /\ LET accepted == Store!FinishJob(c.job, c.attempt, h, c.epoch, c.status,
                          CompletionOfRun(c.job, attempt[c.attempt].number), c.version, c.attemptVersion, FALSE)
        IN \/ /\ accepted
              /\ call' = [call EXCEPT ![h].op = "release"]
              /\ UNCHANGED runner
           \/ /\ \/ StoreFails
                 \/ ~Store!Holds(h, c.job, c.epoch)
                 \/ job[c.job].version # c.version
              /\ Thrown(h)
              /\ UNCHANGED store
     /\ UNCHANGED <<merge, mode, registry, heart>>

\* Mutant: the released lease is deleted, and its epoch with it.
ReleaseDeletes(h) ==
  LET c == call[h]
  IN /\ Up(h) /\ c.op = "release"
     /\ lease' = [lease EXCEPT ![c.job] = Store!NoLease]
     /\ call' = [call EXCEPT ![h] = Idle]
     /\ UNCHANGED <<job, attempt, outbox, delivered, merge, mode, registry, heart, runner>>

\* A lease somebody else holds is left alone; the finalizer then returns to the supervisor.
ReleaseTx(h) ==
  LET c == call[h]
  IN /\ Up(h) /\ c.op = "release"
     /\ \/ /\ \/ Store!ReleaseLease(h, c.job, c.epoch)
              \/ ~(lease[c.job].owner = h /\ lease[c.job].epoch = c.epoch) /\ UNCHANGED store
           /\ call' = [call EXCEPT ![h] = Idle]
           /\ IF c.then \in {"final", "finalAgain"}
                THEN Moves(h, c.job, IF c.status = "succeeded" THEN "completes" ELSE "fails")
                ELSE UNCHANGED runner
        \/ StoreFails /\ Thrown(h) /\ UNCHANGED store
     /\ UNCHANGED <<merge, mode, registry, heart>>

-----------------------------------------------------------------------------
(* Timers.                                                                 *)

\* A heartbeat that fails, for whatever reason, is the last one of its timer.
Beat(h, j) ==
  /\ IsIdle(h) /\ heart[h][j] # 0
  /\ \/ Store!HeartbeatLease(h, j, heart[h][j]) /\ UNCHANGED heart
     \/ /\ ~Store!Holds(h, j, heart[h][j]) \/ StoreFails
        /\ heart' = [heart EXCEPT ![h][j] = 0]
        /\ UNCHANGED store
  /\ UNCHANGED <<merge, mode, registry, runner, call>>

\* Mutant: the registry is refreshed without interrupting first.
RefreshOnly == UNCHANGED store

\* interruptExpiredJobs, which does nothing when no owner is lost.
InterruptLost == Store!InterruptExpiredJobs \/ (Store!OwnerLost = {} /\ UNCHANGED store)

Reconciles(h) ==
  /\ IsIdle(h) /\ mode[h] = "open"
  /\ InterruptLost /\ call' = [call EXCEPT ![h].op = "refresh"]
  /\ UNCHANGED <<merge, mode, registry, heart, runner>>

ReconcileTx(h) ==
  \/ Reconciles(h)
  \/ /\ IsIdle(h) /\ mode[h] = "open" /\ StoreFails
     /\ UNCHANGED <<store, merge, mode, registry, heart, runner, call>>

\* The beat of a job after replaceFromAuthority and the mirror it triggers.
BeatAfter(h, j) ==
  CASE registry[h][j] = Materialized(j) -> heart[h][j]
    [] IsTerminal(j) -> 0
    [] job[j].status = "running" /\ attempt[LastAttempt(j)].owner = h -> attempt[LastAttempt(j)].epoch
    [] OTHER -> heart[h][j]

\* Mutant: what the registry shows as ended is left as it is.
RefreshActive(h) ==
  /\ Up(h) /\ call[h].op = "refresh"
  /\ LET Known == {j \in Job : job[j].status # "absent" /\ registry[h][j].status \notin Ended}
     IN /\ registry' = [registry EXCEPT ![h] =
               [j \in Job |-> IF j \in Known THEN Materialized(j) ELSE registry[h][j]]]
        /\ heart' = [heart EXCEPT ![h] =
               [j \in Job |-> IF j \in Known THEN BeatAfter(h, j) ELSE heart[h][j]]]
  /\ call' = [call EXCEPT ![h] = Idle]
  /\ UNCHANGED <<store, merge, mode, runner>>

\* Every durable job replaces its registry entry, and mirrors it when that changed it.
Refresh(h) ==
  /\ Up(h) /\ call[h].op = "refresh"
  /\ LET Known == {j \in Job : job[j].status # "absent"}
     IN /\ registry' = [registry EXCEPT ![h] =
               [j \in Job |-> IF j \in Known THEN Materialized(j) ELSE registry[h][j]]]
        /\ heart' = [heart EXCEPT ![h] =
               [j \in Job |-> IF j \in Known THEN BeatAfter(h, j) ELSE heart[h][j]]]
  /\ call' = [call EXCEPT ![h] = Idle]
  /\ UNCHANGED <<store, merge, mode, runner>>

-----------------------------------------------------------------------------
(* Processes come and go.  A new process has a new id.                     *)

\* The constructor reconciles, hydrates the registry and mirrors what it found.
Boot(h) ==
  /\ mode[h] = "unborn"
  /\ InterruptLost
  /\ mode' = [mode EXCEPT ![h] = "open"]
  /\ call' = [call EXCEPT ![h].op = "refresh"]
  /\ UNCHANGED <<merge, registry, heart, runner>>

Gone(h) ==
  /\ mode' = [mode EXCEPT ![h] = "dead"]
  /\ registry' = [registry EXCEPT ![h] = [j \in Job |-> Unseen]]
  /\ heart' = [heart EXCEPT ![h] = [j \in Job |-> 0]]
  /\ runner' = [runner EXCEPT ![h] = [j \in Job |-> "none"]]
  /\ call' = [call EXCEPT ![h] = Idle]
  /\ UNCHANGED <<store, merge>>

Crash(h) == h \notin Survivor /\ Up(h) /\ Gone(h)

\* close stops the reconcile timer and the admission of tasks at once ...
Close(h) ==
  /\ h \notin Survivor /\ mode[h] = "open" /\ call[h] = Idle
  /\ mode' = [mode EXCEPT ![h] = "closing"]
  /\ UNCHANGED <<store, merge, registry, heart, runner, call>>

\* ... and everything else when the last runner is over.
Release(h) ==
  /\ mode[h] = "closing" /\ call[h] = Idle
  /\ \A j \in Job : runner[h][j] \in {"none", "over"}
  /\ Gone(h)

Tick == Store!Tick /\ UNCHANGED <<merge, mode, registry, heart, runner, call>>

-----------------------------------------------------------------------------
CallStep(h) ==
  SettleRead(h) \/ AcquireTx(h) \/ StartTx(h) \/ UnstartTx(h) \/ Reread(h) \/ FinishTx(h) \/ ReleaseTx(h) \/ Refresh(h)

TaskStep(h, j) ==
  \/ Submit(h, j) \/ RunTask(h, j) \/ TaskFails(h, j) \/ TaskReturns(h, j)
  \/ MergeBegins(h, j) \/ MergeEnds(h, j) \/ FinishTask(h, j) \/ Beat(h, j)

\* The hosts whose finishJob throws although they hold the lease: the run is
\* over, and its caller has nothing left to try.
Refused ==
  {h \in Owner : /\ call[h].op = "finish" /\ call[h].then = "end" /\ call'[h].op = "idle"
                 /\ Store!Holds(h, call[h].job, call[h].epoch)}
Remember == unrecorded' = unrecorded \cup {<<h, call[h].job>> : h \in Refused}

Next ==
  /\ \/ \E h \in Owner : CallStep(h) \/ ReconcileTx(h) \/ Boot(h) \/ Crash(h) \/ Close(h) \/ Release(h)
     \/ \E h \in Owner, j \in Job : TaskStep(h, j)
     \/ Tick
  /\ Remember

Spec == Init /\ [][Next]_vars

\* Time passes, a process goes on with the call it is in and its reconcile
\* timer fires, which does not fail for ever; the survivors are started.
Fairness ==
  /\ WF_vars(Tick /\ Remember)
  /\ \A h \in Owner : WF_vars(CallStep(h) /\ Remember)
  /\ \A h \in Survivor : WF_vars(Reconciles(h) /\ Remember) /\ WF_vars(Boot(h) /\ Remember)

FairSpec == Spec /\ Fairness
-----------------------------------------------------------------------------
(* Properties.                                                             *)

Shown == {"none", "pending", "running"} \cup Ended
Step == {"none", "preparing", "running", "merging", "completes", "fails", "over"}

\* The states of the hosts have the shapes the code gives them.
TypeOK ==
  /\ Store!TypeOK
  /\ merge \in [Job -> {"none", "queued", "running", "merged", "not_needed", "blocked", "failed"}]
  /\ mode \in [Owner -> {"unborn", "open", "closing", "dead"}]
  /\ registry \in [Owner -> [Job -> [status : Shown, version : 0 .. MaxVersion]]]
  /\ heart \in [Owner -> [Job -> 0 .. MaxEpoch]]
  /\ runner \in [Owner -> [Job -> Step]]
  /\ \A h \in Owner :
       call[h].op \in {"idle", "acquire", "start", "unstart", "reread", "finish", "release", "settle", "refresh"}
  /\ unrecorded \subseteq Owner \X Job

\* Whatever the hosts do, the tables see legal calls only: what JobStore
\* promises under arbitrary callers is promised to these.
ImplementsStore == Store!Spec

\* An idle host renews no lease for a task of its own that is over, unless the
\* store failed to take its end: otherwise the job would be running for as long
\* as the host lives.
NoZombie ==
  \A h \in Owner, j \in Job :
    IsIdle(h) /\ heart[h][j] # 0 /\ job[j].status = "running" /\ <<h, j>> \notin unrecorded =>
      runner[h][j] \notin {"none", "over"}

\* A merge_to_host job is recorded as succeeded only if its commit is in the
\* target branch, and as partial only if the merge is blocked.
SuccessIsMerged ==
  \A j \in Merges :
    /\ job[j].status = "succeeded" => merge[j] \in {"merged", "not_needed"}
    /\ job[j].status = "partial" => merge[j] = "blocked"

\* "The registry must not go on pretending after persistence failed" (the mirror's comment):
\* it does show an end that the store has not taken, or has told otherwise since, but only
\* until it is refreshed from the store.
Pretends(h, j) ==
  /\ mode[h] = "open" /\ registry[h][j].status \in Ended
  /\ registry[h][j].status # ShownAs(job[j].status)
PretenceEnds == \A h \in Survivor, j \in Job : Pretends(h, j) ~> ~Pretends(h, j)

\* A running job that no host runs any more does not stay running while some host
\* lives, unless in one that goes on renewing its lease because the store failed to
\* take the end of the run.
Orphan(j) ==
  job[j].status = "running" /\ \A h \in Owner : runner[h][j] \in {"none", "over"}
OrphansEnd ==
  \A j \in Job : Orphan(j) ~> ~Orphan(j) \/ \E h \in Owner : Up(h) /\ <<h, j>> \in unrecorded
-----------------------------------------------------------------------------
(* The inductive invariant: what the tables hold when hosts write them,    *)
(* and what each host knows of the jobs it acts on.                        *)

Settling == {"finish", "release"}
Starting == {"acquire", "start", "unstart"}
CallStatus == {"none", "running", "partial", "succeeded", "cancelled"} \cup Ended
CallRow == [op : {"idle", "reread", "settle", "refresh"} \cup Starting \cup Settling,
            job : Job \cup {NoJob}, then : {"none", "run", "end", "final", "finalAgain"},
            status : CallStatus, epoch : 0 .. MaxEpoch, version : 0 .. MaxVersion,
            attempt : AttemptId \cup {NoAttempt}, attemptVersion : 0 .. MaxVersion]

\* A job has one round, and passes version 1 queued, 2 running and 3 ended.
OneRound ==
  /\ \A j \in Job :
       \/ job[j].status = "absent" /\ job[j].version = 0
       \/ job[j].status = "queued" /\ job[j].version = 1 /\ job[j].count = 0
       \/ job[j].status = "running" /\ job[j].version = 2 /\ job[j].count = 1
       \/ IsTerminal(j) /\ job[j].version = 3 /\ job[j].count = 1
  /\ \A a \in AttemptId : attempt[a].status = "running" => attempt[a].version = 1

\* The lease of a running job stays with the owner of its attempt, expired or not.
LeaseOfRun ==
  /\ \A j \in Job : lease[j].epoch <= MaxEpoch
  /\ \A j \in Job : lease[j].owner \in Owner => lease[j].epoch > 0
  /\ \A a \in AttemptId : attempt[a].status = "running" =>
       lease[attempt[a].job].owner = attempt[a].owner /\ lease[attempt[a].job].epoch = attempt[a].epoch

\* One host runs a job: the living one that created it.
OneRunner ==
  \A h \in Owner, j \in Job : runner[h][j] # "none" =>
    Up(h) /\ job[j].status # "absent" /\ \A g \in Owner : runner[g][j] # "none" => g = h

\* A process is born without attempts, and runs what it has started.
RunsItsOwn(h) ==
  /\ ~Up(h) => call[h] = Idle
  /\ \A a \in AttemptId : attempt[a].status # "absent" /\ attempt[a].owner = h =>
       mode[h] # "unborn" /\ (Up(h) => runner[h][attempt[a].job] # "none")

Merged(j) == merge[j] \in {"merged", "not_needed"}

\* What a call has read of the store is still so, but for the lease.
CallFits(h) ==
  LET c == call[h]
  IN \/ c.op \in {"idle", "refresh"} /\ c = [Idle EXCEPT !.op = c.op]
     \/ /\ c.job \in Job
        /\ \/ c.op \in Starting \cup Settling \cup {"reread"} /\ c.then = "end" /\ runner[h][c.job] = "over"
           \/ c.op \in Starting /\ c.then = "run" /\ runner[h][c.job] = "running"
           \/ c.op \in Settling \cup {"settle"} /\ c.then \in {"final", "finalAgain"} /\ runner[h][c.job] = "merging"
        /\ c.op \in Starting => job[c.job].status = "queued"
        /\ c.op \in Settling => c.status \in {"succeeded", "partial", "failed", "cancelled"}
        /\ c.op = "release" => IsTerminal(c.job)
        /\ c.op = "settle" => c.status \in {"succeeded", "partial", "failed"}
        /\ c.op = "finish" =>
             c.attempt \in AttemptId /\ attempt[c.attempt].job = c.job /\ attempt[c.attempt].epoch = c.epoch
        /\ c.job \in Merges =>
             /\ c.status \in {"succeeded", "completed"} => Merged(c.job)
             /\ c.status = "partial" => merge[c.job] = "blocked"

\* Nothing is beaten for before it runs, or after it is over.
BeatsForRun(h, j) ==
  heart[h][j] # 0 =>
    /\ job[j].status \notin {"absent", "queued"}
    /\ job[j].status = "running" /\ <<h, j>> \notin unrecorded => runner[h][j] \notin {"none", "over"}

\* A host whose call about the end of a run is over while the job still runs
\* has lost the lease, and meets no such job when it refreshes.
Left(h, j) ==
  /\ runner[h][j] = "over" /\ <<h, j>> \notin unrecorded
  /\ \E a \in AttemptId : attempt[a].status = "running" /\ attempt[a].job = j /\ attempt[a].owner = h
LeftIsLost(h, j) ==
  Left(h, j) => call[h].op # "refresh" /\ (call[h].job = j \/ ~Store!Live(j))

HostInv ==
  /\ TypeOK /\ call \in [Owner -> CallRow]
  /\ Store!StoreInv /\ OneRound /\ LeaseOfRun
  /\ SuccessIsMerged
  /\ OneRunner
  /\ \A h \in Owner : RunsItsOwn(h) /\ CallFits(h)
  /\ \A h \in Owner, j \in Job : BeatsForRun(h, j) /\ LeftIsLost(h, j)
  /\ \A h \in Owner, j \in Merges : runner[h][j] = "completes" => Merged(j)
=============================================================================
