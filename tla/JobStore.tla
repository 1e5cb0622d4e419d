------------------------------ MODULE JobStore ------------------------------
(***************************************************************************)
(* The job tables of the workspace control store                           *)
(* (packages/storage/src/sqlite/sqlite-runtime-control-store.ts): leases,  *)
(* jobs, attempts and the completion outbox.  Every operation of the code  *)
(* is one write transaction, hence one action here.  The callers are       *)
(* arbitrary: each action takes every argument a caller could pass, so     *)
(* that what holds here holds for every interleaving of hosts, including   *)
(* hosts that act on rows they read long ago.                              *)
(*                                                                         *)
(* A call the store refuses throws and rolls back, which is a stuttering   *)
(* step.  Wall-clock time is abstracted to the ticks a lease has left:     *)
(* expiresAt > now() is ttl > 0.                                           *)
(***************************************************************************)
EXTENDS Naturals, FiniteSets

CONSTANTS
  Owner,            \* host identities (JobService.ownerId)
  Job,              \* job ids
  Recoverable,      \* the jobs whose executionClass is "recoverable"
  AttemptId,        \* attempt ids callers draw from
  OtherCompletion,  \* completion ids other than completion:<attemptId>
  Outcome,          \* the terminal statuses callers report
  NoOwner, NoJob, NoAttempt,
  TTL,              \* ticks a fresh or renewed lease lasts
  MaxEpoch,         \* bound: lease epochs handed out per job
  MaxVersion        \* bound: job versions a retry may still reach

Terminal == {"succeeded", "partial", "failed", "timed_out", "cancelled", "interrupted"}
RecoverableOutcome == {"succeeded", "failed", "cancelled"}

ASSUME StoreAssumption ==
  /\ Recoverable \subseteq Job
  /\ Outcome \subseteq Terminal
  /\ NoOwner \notin Owner /\ NoJob \notin Job /\ NoAttempt \notin AttemptId
  /\ TTL \in Nat \ {0} /\ MaxEpoch \in Nat /\ MaxVersion \in Nat

\* The id interruptExpiredJobs and JobService.terminal derive from an attempt.
CompletionOf(a) == <<"completion", a>>
CompletionId == {CompletionOf(a) : a \in AttemptId} \cup OtherCompletion

JobStatus == {"absent", "queued", "running"} \cup Terminal
AttemptStatus == {"absent", "running"} \cup Terminal

Lease == [owner : Owner \cup {NoOwner}, epoch : Nat, ttl : 0 .. TTL]
JobRow == [status : JobStatus, version : Nat, epoch : Nat, count : Nat]
AttemptRow == [job : Job \cup {NoJob}, number : Nat, status : AttemptStatus,
               owner : Owner \cup {NoOwner}, epoch : Nat, version : Nat]
OutboxRow == [id : CompletionId, job : Job, attempt : AttemptId \cup {NoAttempt},
              status : Terminal]

VARIABLES
  lease,      \* runtime_leases, the rows keyed job:<jobId>
  job,        \* jobs
  attempt,    \* job_attempts
  outbox,     \* completion_outbox, without delivered_at
  delivered   \* ids of the outbox rows whose delivered_at is set

vars == <<lease, job, attempt, outbox, delivered>>

NoLease == [owner |-> NoOwner, epoch |-> 0, ttl |-> 0]
NoJobRow == [status |-> "absent", version |-> 0, epoch |-> 0, count |-> 0]
NoAttemptRow == [job |-> NoJob, number |-> 0, status |-> "absent",
                 owner |-> NoOwner, epoch |-> 0, version |-> 0]

Init ==
  /\ lease = [j \in Job |-> NoLease]
  /\ job = [j \in Job |-> NoJobRow]
  /\ attempt = [a \in AttemptId |-> NoAttemptRow]
  /\ outbox = {}
  /\ delivered = {}

-----------------------------------------------------------------------------
(* Leases.                                                                 *)

Live(j) == lease[j].ttl > 0

\* assertLease: the caller holds the live lease at exactly this epoch.
Holds(o, j, e) == lease[j].owner = o /\ lease[j].epoch = e /\ Live(j)

\* Mutant: a takeover of an expired lease reuses the epoch.
TakeoverKeepsEpoch(o, j) == IF lease[j].epoch > 0 THEN lease[j].epoch ELSE 1

\* A live lease of the same owner keeps its epoch, anything else starts a new one.
NextEpoch(o, j) ==
  IF Live(j) /\ lease[j].owner = o THEN lease[j].epoch ELSE lease[j].epoch + 1

AcquireLease(o, j) ==
  /\ ~(Live(j) /\ lease[j].owner # o)
  /\ NextEpoch(o, j) <= MaxEpoch
  /\ lease' = [lease EXCEPT ![j] = [owner |-> o, epoch |-> NextEpoch(o, j), ttl |-> TTL]]
  /\ UNCHANGED <<job, attempt, outbox, delivered>>

HeartbeatLease(o, j, e) ==
  /\ Holds(o, j, e)
  /\ lease' = [lease EXCEPT ![j].ttl = TTL]
  /\ UNCHANGED <<job, attempt, outbox, delivered>>

\* releaseLease does not ask for a live lease: its owner may release an expired one.
ReleaseLease(o, j, e) ==
  /\ lease[j].owner = o /\ lease[j].epoch = e
  /\ lease' = [lease EXCEPT ![j].ttl = 0]
  /\ UNCHANGED <<job, attempt, outbox, delivered>>

\* Time passes for every lease at once.
Tick ==
  /\ \E j \in Job : Live(j)
  /\ lease' = [j \in Job |-> [lease[j] EXCEPT !.ttl = IF Live(j) THEN @ - 1 ELSE 0]]
  /\ UNCHANGED <<job, attempt, outbox, delivered>>

-----------------------------------------------------------------------------
(* The outbox.  insertCompletion accepts an id that is taken only when the *)
(* row is the same one.                                                    *)

Row(c, j, a, s) == [id |-> c, job |-> j, attempt |-> a, status |-> s]
\* Mutant: a taken completion id is not compared.
FitsAnyway(row) == TRUE
Fits(row) == \A r \in outbox : r.id = row.id => r = row

MarkCompletionDelivered(c) ==
  /\ \E r \in outbox : r.id = c
  /\ delivered' = delivered \cup {c}
  /\ UNCHANGED <<lease, job, attempt, outbox>>

\* insertCompletion, then markCompletionRowDelivered when the caller asks for it.
Publish(c, j, a, s, isDelivered) ==
  /\ Fits(Row(c, j, a, s))
  /\ outbox' = outbox \cup {Row(c, j, a, s)}
  /\ delivered' = IF isDelivered THEN delivered \cup {c} ELSE delivered

-----------------------------------------------------------------------------
(* Jobs and attempts.                                                      *)

CreateJob(j) ==
  /\ job[j].status = "absent"
  /\ job' = [job EXCEPT ![j] = [status |-> "queued", version |-> 1, epoch |-> 0, count |-> 0]]
  /\ UNCHANGED <<lease, attempt, outbox, delivered>>

NewAttempt(j, number, o, e) ==
  [job |-> j, number |-> number, status |-> "running", owner |-> o, epoch |-> e, version |-> 1]

\* Mutant: a start that does not ask for a queued job.
StartAnyJob(j, a, o, e, expectedVersion) ==
  /\ job[j].version = expectedVersion
  /\ attempt[a].status = "absent"
  /\ Holds(o, j, e)
  /\ attempt' = [attempt EXCEPT ![a] = NewAttempt(j, job[j].count + 1, o, e)]
  /\ job' = [job EXCEPT ![j] = [status |-> "running", version |-> @.version + 1,
                                epoch |-> e, count |-> @.count + 1]]
  /\ UNCHANGED <<lease, outbox, delivered>>

StartJob(j, a, o, e, expectedVersion) ==
  /\ job[j].status = "queued"
  /\ job[j].version = expectedVersion
  /\ attempt[a].status = "absent"
  /\ Holds(o, j, e)
  /\ attempt' = [attempt EXCEPT ![a] = NewAttempt(j, job[j].count + 1, o, e)]
  /\ job' = [job EXCEPT ![j] = [status |-> "running", version |-> @.version + 1,
                                epoch |-> e, count |-> @.count + 1]]
  /\ UNCHANGED <<lease, outbox, delivered>>

\* The running attempt and its job reach s together; owner and epoch are written back.
Settled(j, a, o, e, s) ==
  /\ attempt' = [attempt EXCEPT ![a].status = s, ![a].owner = o, ![a].epoch = e,
                                ![a].version = @ + 1]
  /\ job' = [job EXCEPT ![j].status = s, ![j].epoch = e, ![j].version = @ + 1]

\* Mutant: the versions are compared, the running state is not.
FinishAnyAttempt(j, a, o, e, s, c, expectedJob, expectedAttempt, isDelivered) ==
  /\ attempt[a].job = j /\ attempt[a].owner = o
  /\ job[j].epoch = e /\ attempt[a].epoch = e
  /\ job[j].version = expectedJob /\ attempt[a].version = expectedAttempt
  /\ Holds(o, j, e)
  /\ Settled(j, a, o, e, s)
  /\ Publish(c, j, a, s, isDelivered)
  /\ UNCHANGED lease

FinishJob(j, a, o, e, s, c, expectedJob, expectedAttempt, isDelivered) ==
  /\ attempt[a].job = j /\ attempt[a].owner = o
  /\ job[j].epoch = e /\ attempt[a].epoch = e
  /\ job[j].status = "running" /\ attempt[a].status = "running"
  /\ job[j].version = expectedJob /\ attempt[a].version = expectedAttempt
  /\ Holds(o, j, e)
  /\ Settled(j, a, o, e, s)
  /\ Publish(c, j, a, s, isDelivered)
  /\ UNCHANGED lease

\* The same terminal call again: only the delivery mark may still change.
FinishJobReplay(j, a, o, e, s, c) ==
  /\ attempt[a].job = j /\ attempt[a].owner = o
  /\ job[j].epoch = e /\ attempt[a].epoch = e
  /\ s \in Terminal /\ job[j].status = s /\ attempt[a].status = s
  /\ \E r \in outbox : r.id = c /\ r.job = j /\ r.attempt = a
  /\ MarkCompletionDelivered(c)

\* Mutant: a cancelled queue entry leaves no completion.
CancelSilently(j, c, expectedVersion) ==
  /\ job[j].status = "queued" /\ job[j].version = expectedVersion
  /\ job' = [job EXCEPT ![j].status = "cancelled", ![j].version = @ + 1]
  /\ UNCHANGED <<lease, attempt, outbox, delivered>>

CancelQueuedJob(j, c, expectedVersion) ==
  /\ job[j].status = "queued" /\ job[j].version = expectedVersion
  /\ job' = [job EXCEPT ![j].status = "cancelled", ![j].version = @ + 1]
  /\ Publish(c, j, NoAttempt, "cancelled", FALSE)
  /\ UNCHANGED <<lease, attempt>>

RetryJob(j, expectedVersion) ==
  /\ job[j].status \in Terminal /\ job[j].version = expectedVersion
  /\ job[j].version < MaxVersion
  /\ job' = [job EXCEPT ![j].status = "queued", ![j].version = @ + 1]
  /\ UNCHANGED <<lease, attempt, outbox, delivered>>

\* Running host-bound jobs without a live lease, each with its last running attempt.
RunningOf(j) == {a \in AttemptId : attempt[a].job = j /\ attempt[a].status = "running"}
LastRunning(j) == {a \in RunningOf(j) : \A b \in RunningOf(j) : attempt[b].number <= attempt[a].number}
\* Mutant: the reconciler does not look at the lease.
AnyRunning == {j \in Job \ Recoverable : job[j].status = "running" /\ RunningOf(j) # {}}
OwnerLost == {j \in Job \ Recoverable :
                job[j].status = "running" /\ ~Live(j) /\ RunningOf(j) # {}}
LostAttempts == UNION {LastRunning(j) : j \in OwnerLost}

InterruptedAttempt(r) ==
  [job |-> r.job, number |-> r.number, status |-> "interrupted", owner |-> r.owner,
   epoch |-> r.epoch, version |-> r.version + 1]
InterruptedJob(r) ==
  [status |-> "interrupted", version |-> r.version + 1, epoch |-> r.epoch, count |-> r.count]

\* interruptExpiredJobs: all of them in one transaction, or none.
InterruptExpiredJobs ==
  LET rows == {Row(CompletionOf(a), attempt[a].job, a, "interrupted") : a \in LostAttempts}
  IN /\ OwnerLost # {}
     /\ \A row \in rows : Fits(row)
     /\ attempt' = [a \in AttemptId |->
          IF a \in LostAttempts THEN InterruptedAttempt(attempt[a]) ELSE attempt[a]]
     /\ job' = [j \in Job |->
          IF j \in OwnerLost THEN InterruptedJob(job[j]) ELSE job[j]]
     /\ outbox' = outbox \cup rows
     /\ UNCHANGED <<lease, delivered>>

-----------------------------------------------------------------------------
(* Recoverable jobs: a host that took the expired lease over either        *)
(* continues the job with a successor attempt, or records the terminal     *)
(* fact its task ledger already holds.                                     *)

\* Mutant: a successor that keeps attempt_count.
SuccessorUncounted(j, source, a, o, e, expectedJob, expectedSource) ==
  /\ j \in Recoverable
  /\ attempt[a].status = "absent"
  /\ job[j].status = "running" /\ job[j].version = expectedJob
  /\ attempt[source].job = j /\ attempt[source].status = "running"
  /\ attempt[source].version = expectedSource /\ e > attempt[source].epoch
  /\ Holds(o, j, e)
  /\ attempt' = [attempt EXCEPT
       ![source].status = "interrupted", ![source].version = @ + 1,
       ![a] = NewAttempt(j, attempt[source].number + 1, o, e)]
  /\ job' = [job EXCEPT ![j].epoch = e, ![j].version = @ + 1]
  /\ UNCHANGED <<lease, outbox, delivered>>

StartRecoverableJobSuccessor(j, source, a, o, e, expectedJob, expectedSource) ==
  /\ j \in Recoverable
  /\ attempt[a].status = "absent"
  /\ job[j].status = "running" /\ job[j].version = expectedJob
  /\ attempt[source].job = j /\ attempt[source].status = "running"
  /\ attempt[source].version = expectedSource
  /\ job[j].count = attempt[source].number /\ job[j].epoch = attempt[source].epoch
  /\ e > attempt[source].epoch
  /\ Holds(o, j, e)
  /\ attempt' = [attempt EXCEPT
       ![source].status = "interrupted", ![source].version = @ + 1,
       ![a] = NewAttempt(j, attempt[source].number + 1, o, e)]
  /\ job' = [job EXCEPT ![j].epoch = e, ![j].count = attempt[source].number + 1,
                        ![j].version = @ + 1]
  /\ UNCHANGED <<lease, outbox, delivered>>

\* Mutant: a greater epoch is taken at its word.
SettleWithoutLease(j, a, o, e, s, c, isDelivered) ==
  /\ j \in Recoverable /\ s \in RecoverableOutcome
  /\ attempt[a].job = j
  /\ job[j].status = "running" /\ attempt[a].status = "running"
  /\ job[j].count = attempt[a].number /\ job[j].epoch = attempt[a].epoch
  /\ (attempt[a].owner = o /\ attempt[a].epoch = e) \/ e > attempt[a].epoch
  /\ Settled(j, a, o, e, s)
  /\ Publish(c, j, a, s, isDelivered)
  /\ UNCHANGED lease

SettleRecoverableJob(j, a, o, e, s, c, isDelivered) ==
  /\ j \in Recoverable /\ s \in RecoverableOutcome
  /\ attempt[a].job = j
  /\ job[j].status = "running" /\ attempt[a].status = "running"
  /\ job[j].count = attempt[a].number /\ job[j].epoch = attempt[a].epoch
  /\ (attempt[a].owner = o /\ attempt[a].epoch = e) \/ e > attempt[a].epoch
  /\ Holds(o, j, e)
  /\ Settled(j, a, o, e, s)
  /\ Publish(c, j, a, s, isDelivered)
  /\ UNCHANGED lease

SettleRecoverableReplay(j, a, s, c) ==
  /\ j \in Recoverable
  /\ attempt[a].job = j
  /\ s \in Terminal /\ job[j].status = s /\ attempt[a].status = s
  /\ Row(c, j, a, s) \in outbox
  /\ MarkCompletionDelivered(c)

-----------------------------------------------------------------------------
LeaseStep(o, j) ==
  \/ AcquireLease(o, j)
  \/ \E e \in 1 .. MaxEpoch : HeartbeatLease(o, j, e) \/ ReleaseLease(o, j, e)

RunStep(o, j, a, e) ==
  \/ \E v \in 1 .. MaxVersion : StartJob(j, a, o, e, v)
  \/ \E v \in 1 .. MaxVersion, w \in 1 .. MaxVersion, source \in AttemptId :
       StartRecoverableJobSuccessor(j, source, a, o, e, v, w)

SettleStep(o, j, a, e, s, c) ==
  \/ \E v \in 1 .. MaxVersion, w \in 1 .. MaxVersion, d \in BOOLEAN :
       FinishJob(j, a, o, e, s, c, v, w, d)
  \/ FinishJobReplay(j, a, o, e, s, c)
  \/ \E d \in BOOLEAN : SettleRecoverableJob(j, a, o, e, s, c, d)
  \/ SettleRecoverableReplay(j, a, s, c)

QueueStep(j) ==
  \/ CreateJob(j)
  \/ \E v \in 1 .. MaxVersion : RetryJob(j, v)
  \/ \E v \in 1 .. MaxVersion, c \in CompletionId : CancelQueuedJob(j, c, v)

Next ==
  \/ \E o \in Owner, j \in Job : LeaseStep(o, j)
  \/ Tick
  \/ \E j \in Job : QueueStep(j)
  \/ \E o \in Owner, j \in Job, a \in AttemptId, e \in 1 .. MaxEpoch : RunStep(o, j, a, e)
  \/ \E o \in Owner, j \in Job, a \in AttemptId, e \in 1 .. MaxEpoch,
        s \in Outcome, c \in CompletionId : SettleStep(o, j, a, e, s, c)
  \/ InterruptExpiredJobs
  \/ \E c \in CompletionId : MarkCompletionDelivered(c)

Spec == Init /\ [][Next]_vars
-----------------------------------------------------------------------------
(* What the tables promise.                                                *)

\* The rows have the shapes the schema gives them.
TypeOK ==
  /\ lease \in [Job -> Lease]
  /\ job \in [Job -> JobRow]
  /\ attempt \in [AttemptId -> AttemptRow]
  /\ outbox \subseteq OutboxRow
  /\ delivered \subseteq CompletionId

\* jobs and job_attempts are written by different statements, yet agree: a job
\* is running exactly when one attempt of it is, and that attempt is the last
\* one and carries the epoch the job row carries.
JobAgreesWithAttempts ==
  \A j \in Job :
    /\ job[j].status = "running" <=> RunningOf(j) # {}
    /\ \A a \in RunningOf(j) : attempt[a].number = job[j].count /\ attempt[a].epoch = job[j].epoch

\* Attempts of a job are numbered apart, within the count the job row keeps,
\* which is what UNIQUE (job_id, attempt_number) asks of every caller order.
AttemptsNumberedApart ==
  \A a, b \in AttemptId :
    attempt[a].status # "absent" =>
      /\ attempt[a].number \in 1 .. job[attempt[a].job].count
      /\ attempt[b].job = attempt[a].job /\ attempt[b].number = attempt[a].number => a = b

\* The epoch is a fencing token: no attempt is ahead of the lease of its job,
\* and whoever wrote an attempt at the epoch of the lease is its owner, so no
\* two owners ever act under one epoch.
EpochFencesOwners ==
  /\ \A j \in Job : job[j].epoch <= lease[j].epoch
  /\ \A a \in AttemptId : attempt[a].status # "absent" =>
       /\ attempt[a].epoch <= lease[attempt[a].job].epoch
       /\ attempt[a].epoch = lease[attempt[a].job].epoch => attempt[a].owner = lease[attempt[a].job].owner
  /\ \A a, b \in AttemptId :
       attempt[a].status # "absent" /\ attempt[a].job = attempt[b].job /\ attempt[a].epoch = attempt[b].epoch
         => attempt[a].owner = attempt[b].owner

\* An attempt is published at most once and as what it ended as; a host-bound
\* attempt that ended has been published, whoever ended it.
EachAttemptPublishedOnce ==
  /\ \A r \in outbox : r.attempt # NoAttempt =>
       attempt[r.attempt].job = r.job /\ attempt[r.attempt].status = r.status
  /\ \A r, t \in outbox : (r.id = t.id \/ (r.attempt = t.attempt /\ r.attempt # NoAttempt)) => r = t
  /\ \A a \in AttemptId :
       attempt[a].status \in Terminal /\ attempt[a].job \notin Recoverable
         => \E r \in outbox : r.attempt = a

\* A job in a terminal state has a completion that says so: the last attempt
\* ended that way and was published, or the queued job was cancelled.
TerminalJobIsPublished ==
  \A j \in Job : job[j].status \in Terminal =>
    \E r \in outbox :
      /\ r.job = j /\ r.status = job[j].status
      /\ IF r.attempt = NoAttempt THEN r.status = "cancelled"
                                 ELSE attempt[r.attempt].number = job[j].count

\* Rows nobody has written yet carry nothing.
Unwritten ==
  /\ \A a \in AttemptId : attempt[a].status = "absent" <=> attempt[a].job = NoJob
  /\ \A j \in Job : job[j].status = "absent" => job[j].count = 0 /\ job[j].epoch = 0

\* The inductive invariant: each part needs the others to survive a step.
StoreInv ==
  /\ TypeOK
  /\ Unwritten
  /\ JobAgreesWithAttempts
  /\ AttemptsNumberedApart
  /\ EpochFencesOwners
  /\ EachAttemptPublishedOnce
  /\ TerminalJobIsPublished

\* What has ended stays ended: no late caller rewrites a terminal attempt or a
\* published completion, and no delivery mark is lost.
KeepsWhatEnded ==
  /\ \A a \in AttemptId : attempt[a].status \in Terminal => attempt'[a] = attempt[a]
  /\ outbox \subseteq outbox'
  /\ delivered \subseteq delivered'
EndedForGood == [][KeepsWhatEnded]_vars

\* A host whose lease expired or was taken over settles nothing: an attempt
\* ends under the live lease of its job, at the epoch of that lease, or is
\* interrupted, and a host-bound one only while nobody holds a live lease.
SettlesUnderLease(a) ==
  LET j == attempt[a].job
  IN \/ Holds(attempt'[a].owner, j, attempt'[a].epoch)
     \/ /\ attempt'[a].status = "interrupted"
        /\ IF j \in Recoverable THEN Live(j) /\ attempt[a].epoch < lease[j].epoch
                                ELSE ~Live(j)
SettlesByHolder ==
  \A a \in AttemptId :
    attempt[a].status = "running" /\ attempt'[a].status # "running" => SettlesUnderLease(a)
OnlyLeaseHolderSettles == [][SettlesByHolder]_vars

=============================================================================
