---------------------------- MODULE JobHost_proofs ----------------------------
(***************************************************************************)
(* Proofs about JobHost, for every set of hosts, jobs and attempts and     *)
(* every value of the bounds.  What JobStore_proofs shows of arbitrary     *)
(* callers is taken over for these hosts, whose every step is a step of    *)
(* the tables; what is added is what a host knows of the jobs it acts on.  *)
(***************************************************************************)
EXTENDS JobHost, FiniteSetTheorems, TLAPS

-----------------------------------------------------------------------------
(* The theorems about the tables, at the constants of the hosts.           *)

Tables == INSTANCE JobStoreRefinement_proofs WITH
  Recoverable <- {},
  OtherCompletion <- {CompletionOfRun(j, n) : j \in Job, n \in 1 .. Cardinality(AttemptId)},
  Outcome <- {"succeeded", "partial", "failed", "cancelled"}

\* What the hosts are given satisfies what the tables assume.
LEMMA TableAssumption == Tables!StoreAssumption
BY HostAssumption DEF Tables!StoreAssumption, Tables!Terminal

\* The tables of JobHost and those of the theorems are the same.
LEMMA SameInit == Tables!Init <=> Store!Init
BY DEF Tables!Init, Store!Init, Tables!NoLease, Store!NoLease,
  Tables!NoJobRow, Store!NoJobRow, Tables!NoAttemptRow, Store!NoAttemptRow

LEMMA SameInvariant == Tables!StoreInv <=> Store!StoreInv
<1>1. Tables!TypeOK <=> Store!TypeOK
  BY DEF Tables!TypeOK, Store!TypeOK, Tables!Lease, Store!Lease, Tables!JobRow, Store!JobRow,
    Tables!AttemptRow, Store!AttemptRow, Tables!OutboxRow, Store!OutboxRow,
    Tables!CompletionId, Store!CompletionId, Tables!CompletionOf, Store!CompletionOf,
    Tables!JobStatus, Store!JobStatus, Tables!AttemptStatus, Store!AttemptStatus,
    Tables!Terminal, Store!Terminal
<1>2. Tables!JobAgreesWithAttempts <=> Store!JobAgreesWithAttempts
  BY DEF Tables!JobAgreesWithAttempts, Store!JobAgreesWithAttempts, Tables!RunningOf, Store!RunningOf
<1>3. Tables!AttemptsNumberedApart <=> Store!AttemptsNumberedApart
  BY DEF Tables!AttemptsNumberedApart, Store!AttemptsNumberedApart
<1>4. Tables!EpochFencesOwners <=> Store!EpochFencesOwners
  BY DEF Tables!EpochFencesOwners, Store!EpochFencesOwners
<1>5. Tables!EachAttemptPublishedOnce <=> Store!EachAttemptPublishedOnce
  BY DEF Tables!EachAttemptPublishedOnce, Store!EachAttemptPublishedOnce,
    Tables!Terminal, Store!Terminal
<1>6. Tables!TerminalJobIsPublished <=> Store!TerminalJobIsPublished
  BY DEF Tables!TerminalJobIsPublished, Store!TerminalJobIsPublished,
    Tables!Terminal, Store!Terminal
<1>7. Tables!Unwritten <=> Store!Unwritten
  BY DEF Tables!Unwritten, Store!Unwritten
<1> QED BY <1>1, <1>2, <1>3, <1>4, <1>5, <1>6, <1>7 DEF Tables!StoreInv, Store!StoreInv

LEMMA SameSteps == Tables!Next <=> Store!Next
<1> USE DEF Tables!Live, Store!Live, Tables!Holds, Store!Holds, Tables!Terminal, Store!Terminal,
      Tables!Publish, Store!Publish, Tables!Fits, Store!Fits, Tables!Row, Store!Row,
      Tables!MarkCompletionDelivered, Store!MarkCompletionDelivered
<1>1. \A o, j : Tables!LeaseStep(o, j) <=> Store!LeaseStep(o, j)
  BY DEF Tables!LeaseStep, Store!LeaseStep, Tables!AcquireLease, Store!AcquireLease,
    Tables!HeartbeatLease, Store!HeartbeatLease, Tables!ReleaseLease, Store!ReleaseLease,
    Tables!NextEpoch, Store!NextEpoch
<1>2. Tables!Tick <=> Store!Tick
  BY DEF Tables!Tick, Store!Tick
<1>3. \A c : Tables!MarkCompletionDelivered(c) <=> Store!MarkCompletionDelivered(c)
  OBVIOUS
<1>4. Tables!CompletionId = Store!CompletionId
  BY DEF Tables!CompletionId, Store!CompletionId, Tables!CompletionOf, Store!CompletionOf
<1>5. \A j : Tables!QueueStep(j) <=> Store!QueueStep(j)
  BY <1>4 DEF Tables!QueueStep, Store!QueueStep, Tables!CreateJob, Store!CreateJob,
    Tables!RetryJob, Store!RetryJob, Tables!CancelQueuedJob, Store!CancelQueuedJob
<1>6. \A o, j, a, e : Tables!RunStep(o, j, a, e) <=> Store!RunStep(o, j, a, e)
  BY DEF Tables!RunStep, Store!RunStep, Tables!StartJob, Store!StartJob,
    Tables!StartRecoverableJobSuccessor, Store!StartRecoverableJobSuccessor,
    Tables!NewAttempt, Store!NewAttempt
<1>7. \A o, j, a, e, s, c : Tables!SettleStep(o, j, a, e, s, c) <=> Store!SettleStep(o, j, a, e, s, c)
  <2>1. \A o, j, a, e, s, c, v, w, d :
          Tables!FinishJob(j, a, o, e, s, c, v, w, d) <=> Store!FinishJob(j, a, o, e, s, c, v, w, d)
    BY DEF Tables!FinishJob, Store!FinishJob, Tables!Settled, Store!Settled
  <2>2. \A o, j, a, e, s, c :
          Tables!FinishJobReplay(j, a, o, e, s, c) <=> Store!FinishJobReplay(j, a, o, e, s, c)
    BY DEF Tables!FinishJobReplay, Store!FinishJobReplay
  <2>3. \A o, j, a, e, s, c, d :
          Tables!SettleRecoverableJob(j, a, o, e, s, c, d) <=> Store!SettleRecoverableJob(j, a, o, e, s, c, d)
    BY DEF Tables!SettleRecoverableJob, Store!SettleRecoverableJob
  <2>4. \A j, a, s, c :
          Tables!SettleRecoverableReplay(j, a, s, c) <=> Store!SettleRecoverableReplay(j, a, s, c)
    BY DEF Tables!SettleRecoverableReplay, Store!SettleRecoverableReplay
  <2> QED BY <2>1, <2>2, <2>3, <2>4 DEF Tables!SettleStep, Store!SettleStep
<1>8. Tables!InterruptExpiredJobs <=> Store!InterruptExpiredJobs
  BY DEF Tables!InterruptExpiredJobs, Store!InterruptExpiredJobs, Tables!OwnerLost, Store!OwnerLost,
    Tables!LostAttempts, Store!LostAttempts, Tables!LastRunning, Store!LastRunning,
    Tables!RunningOf, Store!RunningOf, Tables!CompletionOf, Store!CompletionOf,
    Tables!InterruptedAttempt, Store!InterruptedAttempt, Tables!InterruptedJob, Store!InterruptedJob
<1> QED BY <1>1, <1>2, <1>3, <1>4, <1>5, <1>6, <1>7, <1>8 DEF Tables!Next, Store!Next

\* A step of the tables keeps their invariant.
LEMMA TablesStep == Store!StoreInv /\ [Store!Next]_(Store!vars) => Store!StoreInv'
<1>1. Tables!StoreInv /\ [Tables!Next]_(Tables!vars) => Tables!StoreInv'
  BY TableAssumption, Tables!StoreStep
<1>2. Tables!StoreInv' <=> Store!StoreInv'
  BY SameInvariant, PTL
<1> QED BY <1>1, <1>2, SameInvariant, SameSteps DEF Tables!vars, Store!vars
-----------------------------------------------------------------------------
(* The tables when hosts write them.                                       *)

Outcomes == {"succeeded", "partial", "failed", "cancelled"}
TablesInv == Store!StoreInv /\ OneRound /\ LeaseOfRun

LEMMA TableTypes ==
  ASSUME Store!StoreInv
  PROVE  /\ lease \in [Job -> Store!Lease] /\ job \in [Job -> Store!JobRow]
         /\ attempt \in [AttemptId -> Store!AttemptRow]
         /\ \A a \in AttemptId : attempt[a].status # "absent" => attempt[a].job \in Job
         /\ \A a \in AttemptId : attempt[a].job \in Job => attempt[a].status # "absent"
         /\ \A j \in Job : job[j].status = "running" <=> Store!RunningOf(j) # {}
BY HostAssumption DEF Store!StoreInv, Store!TypeOK, Store!Unwritten, Store!AttemptRow,
  Store!JobAgreesWithAttempts

\* A job has at most one attempt, its first.
LEMMA OneAttempt ==
  ASSUME TablesInv, NEW j \in Job, NEW a \in AttemptsOf(j)
  PROVE  /\ a \in AttemptId /\ attempt[a].job = j /\ attempt[a].number = 1
         /\ AttemptsOf(j) = {a} /\ LastAttempt(j) = a
         /\ 1 \in 1 .. Cardinality(AttemptId)
<1>1. a \in AttemptId /\ attempt[a].job = j
  BY DEF AttemptsOf
<1>2. job[j].count \in {0, 1}
  BY HostAssumption, TableTypes DEF TablesInv, OneRound, Store!StoreInv, Store!Unwritten
<1>3. \A b \in AttemptsOf(j) : attempt[b].status # "absent"
  BY TableTypes DEF AttemptsOf, TablesInv
<1>4. \A b \in AttemptsOf(j) : attempt[b].number = 1 /\ a = b
  BY <1>1, <1>2, <1>3 DEF TablesInv, Store!StoreInv, Store!AttemptsNumberedApart, AttemptsOf
<1>5. AttemptsOf(j) = {a} /\ attempt[a].number = 1
  BY <1>4
<1>6. LastAttempt(j) = a
  BY <1>5 DEF LastAttempt
<1>7. Cardinality(AttemptId) \in Nat /\ Cardinality(AttemptId) # 0
  BY <1>1, HostAssumption, FS_CardinalityType, FS_EmptySet
<1> QED BY <1>1, <1>5, <1>6, <1>7

\* A running job is run by that attempt.
LEMMA RunningAttempt ==
  ASSUME TablesInv, NEW j \in Job, job[j].status = "running"
  PROVE  /\ LastAttempt(j) \in AttemptId /\ Store!RunningOf(j) = {LastAttempt(j)}
         /\ attempt[LastAttempt(j)].job = j /\ attempt[LastAttempt(j)].status = "running"
         /\ attempt[LastAttempt(j)].version = 1
         /\ attempt[LastAttempt(j)].epoch \in 0 .. MaxEpoch
<1>1. PICK a \in AttemptId : attempt[a].job = j /\ attempt[a].status = "running"
  BY TableTypes DEF TablesInv, Store!RunningOf
<1>2. LastAttempt(j) = a /\ AttemptsOf(j) = {a}
  BY <1>1, OneAttempt DEF AttemptsOf
<1>3. Store!RunningOf(j) = {a}
  BY <1>1, <1>2 DEF Store!RunningOf, AttemptsOf
<1>4. attempt[a].epoch = lease[j].epoch /\ lease[j].epoch \in Nat
  BY <1>1, TableTypes DEF TablesInv, LeaseOfRun, Store!Lease
<1>5. attempt[a].version = 1 /\ lease[j].epoch <= MaxEpoch
  BY <1>1 DEF TablesInv, LeaseOfRun, OneRound
<1>6. attempt[a].epoch \in 0 .. MaxEpoch
  BY <1>4, <1>5, HostAssumption
<1> QED BY <1>1, <1>2, <1>3, <1>5, <1>6

\* What hosts do to the tables without starting or settling a job.
QuietStep ==
  \/ UNCHANGED store
  \/ \E h \in Owner, j \in Job : job[j].status = "queued" /\ Store!AcquireLease(h, j)
  \/ \E h \in Owner, j \in Job, e \in 1 .. MaxEpoch :
       Store!HeartbeatLease(h, j, e) \/ Store!ReleaseLease(h, j, e)
  \/ Store!Tick
  \/ \E j \in Job : Store!CreateJob(j)
  \/ Store!InterruptExpiredJobs
StartStep(h, j) == \E a \in AttemptId, e \in 1 .. MaxEpoch : Store!StartJob(j, a, h, e, 1)
SettleStep(h, j) ==
  \E a \in AttemptId, e \in 1 .. MaxEpoch, s \in Outcomes :
    Store!FinishJob(j, a, h, e, s, CompletionOfRun(j, 1), 2, 1, FALSE)
TableStep == QuietStep \/ \E h \in Owner, j \in Job : StartStep(h, j) \/ SettleStep(h, j)

LEMMA TableStepIsNext ==
  ASSUME TablesInv, TableStep PROVE [Store!Next]_(Store!vars)
<1>1. CASE UNCHANGED store
  BY <1>1 DEF store, Store!vars
<1>2. ASSUME NEW h \in Owner, NEW j \in Job,
             \/ Store!AcquireLease(h, j)
             \/ \E e \in 1 .. MaxEpoch : Store!HeartbeatLease(h, j, e) \/ Store!ReleaseLease(h, j, e)
      PROVE  Store!Next
  BY <1>2 DEF Store!Next, Store!LeaseStep
<1>3. ASSUME NEW j \in Job, Store!CreateJob(j) PROVE Store!Next
  BY <1>3 DEF Store!Next, Store!QueueStep
<1>4. ASSUME NEW h \in Owner, NEW j \in Job, StartStep(h, j) PROVE Store!Next
  <2>1. PICK a \in AttemptId, e \in 1 .. MaxEpoch : Store!StartJob(j, a, h, e, 1)
    BY <1>4 DEF StartStep
  <2>2. 1 \in 1 .. MaxVersion
    BY HostAssumption
  <2>3. Store!RunStep(h, j, a, e)
    BY <2>1, <2>2 DEF Store!RunStep
  <2> QED BY <2>3 DEF Store!Next
<1>5. ASSUME NEW h \in Owner, NEW j \in Job, SettleStep(h, j) PROVE Store!Next
  <2>1. PICK a \in AttemptId, e \in 1 .. MaxEpoch, s \in Outcomes :
          Store!FinishJob(j, a, h, e, s, CompletionOfRun(j, 1), 2, 1, FALSE)
    BY <1>5 DEF SettleStep
  <2>2. 1 \in 1 .. MaxVersion /\ 2 \in 1 .. MaxVersion /\ FALSE \in BOOLEAN
    BY HostAssumption
  <2>3. a \in AttemptsOf(j)
    BY <2>1 DEF Store!FinishJob, AttemptsOf
  <2>4. 1 \in 1 .. Cardinality(AttemptId)
    BY <2>3, OneAttempt
  <2>5. CompletionOfRun(j, 1) \in Store!CompletionId
    BY <2>4 DEF Store!CompletionId
  <2>6. Store!SettleStep(h, j, a, e, s, CompletionOfRun(j, 1))
    BY <2>1, <2>2 DEF Store!SettleStep
  <2> QED BY <2>5, <2>6 DEF Store!Next, Outcomes
<1>6. CASE Store!Tick \/ Store!InterruptExpiredJobs
  BY <1>6 DEF Store!Next
<1> QED BY <1>1, <1>2, <1>3, <1>4, <1>5, <1>6 DEF TableStep, QuietStep

\* What no step takes back.
Onward ==
  /\ \A j \in Job :
       /\ job[j].status # "absent" => job'[j].status # "absent"
       /\ job[j].status \notin {"absent", "queued"} => job'[j].status \notin {"absent", "queued"}
       /\ IsTerminal(j) => job'[j].status = job[j].status
       /\ job[j].status = "running" /\ ~Store!Live(j) => ~Store!Live(j)'
  /\ \A a \in AttemptId : attempt[a].status # "absent" =>
       /\ attempt'[a].status # "absent" /\ attempt'[a].job = attempt[a].job
       /\ attempt'[a].owner = attempt[a].owner /\ attempt'[a].epoch = attempt[a].epoch
       /\ attempt'[a].status = "running" => attempt[a].status = "running"

\* What only a start and a settlement change.
Quiet ==
  /\ \A j \in Job :
       /\ job[j].status = "queued" => job'[j].status = "queued"
       /\ job'[j].status \in {"succeeded", "partial"} => job'[j].status = job[j].status
  /\ \A a \in AttemptId : attempt[a].status = "absent" => attempt'[a].status = "absent"

\* Only leases move.
LEMMA LeasesKeep ==
  ASSUME TablesInv, UNCHANGED <<job, attempt>>,
         \A j \in Job : /\ lease'[j].epoch <= MaxEpoch
                        /\ lease'[j].owner \in Owner => lease'[j].epoch > 0
                        /\ job[j].status = "running" =>
                             /\ lease'[j].owner = lease[j].owner /\ lease'[j].epoch = lease[j].epoch
                             /\ ~Store!Live(j) => ~Store!Live(j)'
  PROVE  OneRound' /\ LeaseOfRun' /\ Onward /\ Quiet
<1>1. \A a \in AttemptId : attempt[a].status = "running" =>
        attempt[a].job \in Job /\ job[attempt[a].job].status = "running"
  BY TableTypes DEF TablesInv, Store!RunningOf
<1>2. OneRound'
  BY DEF TablesInv, OneRound, IsTerminal
<1>3. LeaseOfRun'
  BY <1>1 DEF TablesInv, LeaseOfRun
<1>4. Onward /\ Quiet
  BY DEF Onward, Quiet
<1> QED BY <1>2, <1>3, <1>4

LEMMA QuietKeeps ==
  ASSUME TablesInv, QuietStep PROVE OneRound' /\ LeaseOfRun' /\ Onward /\ Quiet
<1>0. /\ lease \in [Job -> Store!Lease] /\ job \in [Job -> Store!JobRow]
      /\ attempt \in [AttemptId -> Store!AttemptRow]
      /\ \A j \in Job : lease[j].epoch \in Nat /\ lease[j].ttl \in 0 .. TTL
      /\ \A j \in Job : lease[j].epoch <= MaxEpoch /\ (lease[j].owner \in Owner => lease[j].epoch > 0)
  BY TableTypes DEF TablesInv, LeaseOfRun, Store!Lease
<1>1. CASE UNCHANGED store
  BY <1>0, <1>1, LeasesKeep DEF store, Store!Live
<1>2. ASSUME NEW h \in Owner, NEW j \in Job, job[j].status = "queued", Store!AcquireLease(h, j)
      PROVE  OneRound' /\ LeaseOfRun' /\ Onward /\ Quiet
  <2>1. /\ lease' = [lease EXCEPT ![j] = [owner |-> h, epoch |-> Store!NextEpoch(h, j), ttl |-> TTL]]
        /\ Store!NextEpoch(h, j) <= MaxEpoch /\ UNCHANGED <<job, attempt>>
    BY <1>2 DEF Store!AcquireLease
  <2>2. Store!NextEpoch(h, j) \in Nat /\ Store!NextEpoch(h, j) > 0
    BY <1>0 DEF Store!NextEpoch
  <2>3. \A k \in Job \ {j} : lease'[k] = lease[k] /\ (Store!Live(k)' <=> Store!Live(k))
    BY <1>0, <2>1 DEF Store!Live
  <2>4. lease'[j].epoch = Store!NextEpoch(h, j)
    BY <1>0, <2>1
  <2> QED BY <1>0, <1>2, <2>1, <2>2, <2>3, <2>4, LeasesKeep
<1>3. ASSUME NEW h \in Owner, NEW j \in Job, NEW e \in 1 .. MaxEpoch,
             Store!HeartbeatLease(h, j, e) \/ Store!ReleaseLease(h, j, e)
      PROVE  OneRound' /\ LeaseOfRun' /\ Onward /\ Quiet
  <2>1. ASSUME NEW k \in Job
        PROVE  /\ lease'[k].epoch = lease[k].epoch /\ lease'[k].owner = lease[k].owner
               /\ ~Store!Live(k) => ~Store!Live(k)'
    BY <1>0, <1>3 DEF Store!HeartbeatLease, Store!ReleaseLease, Store!Holds, Store!Live, Store!Lease
  <2>2. UNCHANGED <<job, attempt>>
    BY <1>3 DEF Store!HeartbeatLease, Store!ReleaseLease
  <2> QED BY <1>0, <2>1, <2>2, LeasesKeep
<1>4. CASE Store!Tick
  <2>1. ASSUME NEW k \in Job
        PROVE  /\ lease'[k].epoch = lease[k].epoch /\ lease'[k].owner = lease[k].owner
               /\ ~Store!Live(k) => ~Store!Live(k)'
    BY <1>0, <1>4 DEF Store!Tick, Store!Live, Store!Lease
  <2>2. UNCHANGED <<job, attempt>>
    BY <1>4 DEF Store!Tick
  <2> QED BY <1>0, <2>1, <2>2, LeasesKeep
<1>5. ASSUME NEW j \in Job, Store!CreateJob(j)
      PROVE  OneRound' /\ LeaseOfRun' /\ Onward /\ Quiet
  <2>1. /\ job'[j].status = "queued" /\ job'[j].version = 1 /\ job'[j].count = 0
        /\ job[j].status = "absent" /\ \A k \in Job \ {j} : job'[k] = job[k]
        /\ UNCHANGED <<lease, attempt>>
    BY <1>0, <1>5 DEF Store!CreateJob
  <2>2. OneRound' /\ LeaseOfRun'
    BY <2>1 DEF TablesInv, OneRound, LeaseOfRun, IsTerminal
  <2>3. Onward /\ Quiet
    BY <2>1 DEF Onward, Quiet, IsTerminal, Store!Terminal, Store!Live
  <2> QED BY <2>2, <2>3
<1>6. CASE Store!InterruptExpiredJobs
  <2>1. /\ UNCHANGED lease
        /\ \A j \in Job \ Store!OwnerLost : job'[j] = job[j]
        /\ \A j \in Store!OwnerLost :
             /\ j \in Job /\ job[j].status = "running"
             /\ job'[j] = [status |-> "interrupted", version |-> job[j].version + 1,
                           epoch |-> job[j].epoch, count |-> job[j].count]
    BY <1>6 DEF Store!InterruptExpiredJobs, Store!InterruptedJob, Store!OwnerLost
  <2>2. /\ \A a \in AttemptId \ Store!LostAttempts : attempt'[a] = attempt[a]
        /\ \A a \in AttemptId \cap Store!LostAttempts :
             /\ attempt[a].status = "running" /\ attempt'[a].status = "interrupted"
             /\ attempt'[a].job = attempt[a].job /\ attempt'[a].owner = attempt[a].owner
             /\ attempt'[a].epoch = attempt[a].epoch
    BY <1>6 DEF Store!InterruptExpiredJobs, Store!InterruptedAttempt, Store!LostAttempts,
      Store!LastRunning, Store!RunningOf
  <2>3. \A j \in Store!OwnerLost : /\ job'[j].status = "interrupted" /\ job'[j].version = 3
                                   /\ job'[j].count = 1
    <3> SUFFICES ASSUME NEW j \in Store!OwnerLost
                 PROVE  job'[j].status = "interrupted" /\ job'[j].version = 3 /\ job'[j].count = 1
      OBVIOUS
    <3>1. job[j].version = 2 /\ job[j].count = 1
      BY <2>1 DEF TablesInv, OneRound, IsTerminal, Store!Terminal
    <3>2. job'[j] = [status |-> "interrupted", version |-> job[j].version + 1,
                     epoch |-> job[j].epoch, count |-> job[j].count]
      BY <2>1
    <3> QED BY <3>1, <3>2
  <2>4. OneRound'
    BY <2>1, <2>2, <2>3 DEF TablesInv, OneRound, IsTerminal, Store!Terminal
  <2>5. LeaseOfRun'
    BY <2>1, <2>2 DEF TablesInv, LeaseOfRun
  <2>6. ASSUME NEW j \in Job
        PROVE  /\ job'[j] = job[j] \/ (job[j].status = "running" /\ job'[j].status = "interrupted")
               /\ Store!Live(j)' <=> Store!Live(j)
    BY <2>1, <2>3 DEF Store!Live
  <2>7. \A a \in AttemptId :
          /\ attempt[a].status = "absent" <=> attempt'[a].status = "absent"
          /\ attempt'[a].job = attempt[a].job /\ attempt'[a].owner = attempt[a].owner
          /\ attempt'[a].epoch = attempt[a].epoch
          /\ attempt'[a].status = "running" => attempt[a].status = "running"
    BY <2>2
  <2>8. Onward
    BY <2>6, <2>7 DEF Onward, IsTerminal, Store!Terminal
  <2>9. Quiet
    BY <2>6, <2>7 DEF Quiet
  <2> QED BY <2>4, <2>5, <2>8, <2>9
<1> QED BY <1>1, <1>2, <1>3, <1>4, <1>5, <1>6 DEF QuietStep

\* A start touches one job, which was queued, and gives it an attempt of the host.
LEMMA StartKeeps ==
  ASSUME TablesInv, NEW h \in Owner, NEW j \in Job, StartStep(h, j)
  PROVE  /\ OneRound' /\ LeaseOfRun' /\ Onward
         /\ job[j].status = "queued" /\ job'[j].status = "running"
         /\ \A k \in Job \ {j} : job'[k] = job[k]
         /\ \A a \in AttemptId : attempt'[a] = attempt[a] \/ (attempt'[a].owner = h /\ attempt'[a].job = j)
<1>0. /\ lease \in [Job -> Store!Lease] /\ job \in [Job -> Store!JobRow]
      /\ attempt \in [AttemptId -> Store!AttemptRow]
  BY TableTypes DEF TablesInv
<1>1. PICK a \in AttemptId, e \in 1 .. MaxEpoch : Store!StartJob(j, a, h, e, 1)
  BY DEF StartStep
<1>2. /\ job[j].status = "queued" /\ job[j].version = 1 /\ attempt[a].status = "absent"
      /\ lease[j].owner = h /\ lease[j].epoch = e /\ UNCHANGED lease
      /\ attempt'[a] = [job |-> j, number |-> job[j].count + 1, status |-> "running",
                        owner |-> h, epoch |-> e, version |-> 1]
      /\ \A b \in AttemptId \ {a} : attempt'[b] = attempt[b]
      /\ \A k \in Job \ {j} : job'[k] = job[k]
      /\ job'[j].status = "running" /\ job'[j].version = job[j].version + 1
      /\ job'[j].count = job[j].count + 1
  BY <1>0, <1>1 DEF Store!StartJob, Store!NewAttempt, Store!Holds
<1>3. job'[j].version = 2 /\ job'[j].count = 1
  BY <1>2 DEF TablesInv, OneRound, IsTerminal, Store!Terminal
<1>4. OneRound'
  BY <1>2, <1>3 DEF TablesInv, OneRound, IsTerminal, Store!Terminal
<1>5. LeaseOfRun'
  BY <1>2 DEF TablesInv, LeaseOfRun
<1>6. Onward
  BY <1>2 DEF Onward, IsTerminal, Store!Terminal, Store!Live
<1> QED BY <1>2, <1>4, <1>5, <1>6

\* A settlement touches one job, which was running, and its attempt.
LEMMA SettleKeeps ==
  ASSUME TablesInv, NEW h \in Owner, NEW j \in Job, NEW s \in Outcomes, NEW a \in AttemptId,
         NEW e \in 1 .. MaxEpoch, Store!FinishJob(j, a, h, e, s, CompletionOfRun(j, 1), 2, 1, FALSE)
  PROVE  /\ OneRound' /\ LeaseOfRun' /\ Onward
         /\ job[j].status = "running" /\ job'[j].status = s
         /\ \A k \in Job \ {j} : job'[k] = job[k]
         /\ \A b \in AttemptId : attempt[b].status = "absent" => attempt'[b].status = "absent"
<1>0. /\ lease \in [Job -> Store!Lease] /\ job \in [Job -> Store!JobRow]
      /\ attempt \in [AttemptId -> Store!AttemptRow]
  BY TableTypes DEF TablesInv
<1>2. /\ job[j].status = "running" /\ job[j].version = 2 /\ attempt[a].status = "running"
      /\ attempt[a].job = j /\ attempt[a].owner = h /\ attempt[a].epoch = e /\ UNCHANGED lease
      /\ attempt'[a] = [attempt[a] EXCEPT !.status = s, !.owner = h, !.epoch = e, !.version = @ + 1]
      /\ \A b \in AttemptId \ {a} : attempt'[b] = attempt[b]
      /\ \A k \in Job \ {j} : job'[k] = job[k]
      /\ job'[j] = [job[j] EXCEPT !.status = s, !.epoch = e, !.version = @ + 1]
  BY <1>0 DEF Store!FinishJob, Store!Settled
<1>3. /\ job'[j].status = s /\ job'[j].version = 3 /\ job'[j].count = 1
      /\ attempt'[a].status = s /\ attempt'[a].job = j /\ attempt'[a].owner = h
      /\ attempt'[a].epoch = e
  <2>1. job[j] \in Store!JobRow /\ attempt[a] \in Store!AttemptRow /\ job[j].count = 1
    BY <1>0, <1>2 DEF TablesInv, OneRound, IsTerminal, Store!Terminal
  <2> QED BY <1>2, <2>1 DEF Store!JobRow, Store!AttemptRow
<1>4. s \in Store!Terminal /\ s # "running"
  BY DEF Outcomes, Store!Terminal
<1>5. OneRound'
  <2>1. \A k \in Job \ {j} : (IsTerminal(k))' <=> IsTerminal(k)
    BY <1>2 DEF IsTerminal
  <2>2. (IsTerminal(j))'
    BY <1>3, <1>4 DEF IsTerminal
  <2>3. \A b \in AttemptId : attempt'[b].status = "running" => attempt'[b].version = 1
    <3>1. \A b \in AttemptId : attempt[b].status = "running" => attempt[b].version = 1
      BY DEF TablesInv, OneRound
    <3>2. attempt'[a].status # "running" /\ \A b \in AttemptId \ {a} : attempt'[b] = attempt[b]
      BY <1>2, <1>3, <1>4
    <3> QED BY <3>1, <3>2
  <2>4. \A k \in Job \ {j} : job'[k] = job[k]
    BY <1>2
  <2> HIDE DEF IsTerminal
  <2> QED BY <1>3, <2>1, <2>2, <2>3, <2>4 DEF TablesInv, OneRound
<1>6. LeaseOfRun'
  <2>1. \A b \in AttemptId : attempt'[b].status = "running" => attempt'[b] = attempt[b]
    BY <1>2, <1>3, <1>4
  <2>2. UNCHANGED lease
    BY <1>2
  <2> QED BY <2>1, <2>2 DEF TablesInv, LeaseOfRun
<1>7. Onward
  <2>1. ASSUME NEW k \in Job
        PROVE  /\ job[k].status # "absent" => job'[k].status # "absent"
               /\ job[k].status \notin {"absent", "queued"} => job'[k].status \notin {"absent", "queued"}
               /\ IsTerminal(k) => job'[k].status = job[k].status
    BY <1>2, <1>3 DEF IsTerminal, Store!Terminal, Outcomes
  <2>2. \A k \in Job : Store!Live(k)' <=> Store!Live(k)
    BY <1>2 DEF Store!Live
  <2>3. \A b \in AttemptId : /\ attempt'[b].status # "absent" <=> attempt[b].status # "absent"
                             /\ attempt'[b].job = attempt[b].job
                             /\ attempt'[b].owner = attempt[b].owner
                             /\ attempt'[b].epoch = attempt[b].epoch
                             /\ attempt'[b].status = "running" => attempt[b].status = "running"
    BY <1>2, <1>3 DEF Outcomes
  <2> QED BY <2>1, <2>2, <2>3 DEF Onward, Store!Live
<1> QED BY <1>2, <1>3, <1>5, <1>6, <1>7

LEMMA TablesKeep ==
  ASSUME TablesInv, TableStep PROVE TablesInv' /\ Onward
<1>1. Store!StoreInv'
  BY TableStepIsNext, TablesStep DEF TablesInv
<1>2. OneRound' /\ LeaseOfRun' /\ Onward
  BY QuietKeeps, StartKeeps, SettleKeeps DEF TableStep, SettleStep
<1> QED BY <1>1, <1>2 DEF TablesInv
-----------------------------------------------------------------------------
(* What the hosts know, when one of them acts.                             *)

HostShapes ==
  /\ merge \in [Job -> {"none", "queued", "running", "merged", "not_needed", "blocked", "failed"}]
  /\ mode \in [Owner -> {"unborn", "open", "closing", "dead"}]
  /\ registry \in [Owner -> [Job -> [status : Shown, version : 0 .. MaxVersion]]]
  /\ heart \in [Owner -> [Job -> 0 .. MaxEpoch]]
  /\ runner \in [Owner -> [Job -> Step]]
  /\ call \in [Owner -> CallRow]

LEMMA Shapes == ASSUME HostInv PROVE HostShapes /\ TablesInv
BY DEF HostInv, HostShapes, TypeOK, TablesInv

\* The history grows.
History == unrecorded \subseteq unrecorded' /\ unrecorded' \subseteq Owner \X Job

LEMMA Remembers == ASSUME HostInv, Remember PROVE History
<1>1. \A h \in Refused : h \in Owner /\ call[h].job \in Job
  BY DEF Refused, HostInv, CallFits, Starting, Settling, Idle
<1> QED BY <1>1 DEF Remember, History, HostInv, TypeOK

\* No host gets an attempt at the job in this step.
NoneNew(g, k) ==
  \A a \in AttemptId : attempt[a].status = "absent" /\ attempt'[a].status # "absent" =>
    attempt'[a].owner # g \/ attempt'[a].job # k

LEMMA BeatStays ==
  ASSUME HostInv, Onward, NEW g \in Owner, NEW k \in Job, unrecorded \subseteq unrecorded',
         heart'[g][k] \in {0, heart[g][k]}, runner'[g][k] = runner[g][k]
  PROVE  BeatsForRun(g, k)'
<1>1. BeatsForRun(g, k)
  BY DEF HostInv
<1>2. /\ job[k].status \notin {"absent", "queued"} => job'[k].status \notin {"absent", "queued"}
      /\ job[k].status \notin {"absent", "queued"} /\ job'[k].status = "running" => job[k].status = "running"
  BY DEF Onward, HostInv, OneRound
<1> QED BY <1>1, <1>2 DEF BeatsForRun

LEMMA LeftStays ==
  ASSUME HostInv, Onward, NEW g \in Owner, NEW k \in Job, unrecorded \subseteq unrecorded',
         runner'[g][k] = runner[g][k], NoneNew(g, k), call'[g].op # "refresh" \/ call'[g] = call[g],
         call[g].job = k => call'[g].job = k
  PROVE  LeftIsLost(g, k)'
<1> SUFFICES ASSUME Left(g, k)' PROVE (call[g].op # "refresh" \/ call'[g] # call[g])
                                      /\ Left(g, k) /\ (call[g].job = k \/ ~Store!Live(k)')
  BY DEF LeftIsLost, HostInv
<1>1. PICK a \in AttemptId : attempt'[a].status = "running" /\ attempt'[a].job = k /\ attempt'[a].owner = g
  BY DEF Left
<1>2. attempt[a].status = "running" /\ attempt[a].job = k /\ attempt[a].owner = g
  BY <1>1 DEF Onward, NoneNew
<1>3. Left(g, k) /\ job[k].status = "running"
  BY <1>2, Shapes, TableTypes DEF Left, TablesInv, Store!RunningOf
<1>4. LeftIsLost(g, k)
  BY DEF HostInv
<1> QED BY <1>3, <1>4 DEF LeftIsLost, Onward

LEMMA OwnStays ==
  ASSUME HostInv, Onward, NEW g \in Owner,
         Up(g)' => Up(g), mode[g] # "unborn" => mode'[g] # "unborn", ~Up(g)' => call'[g] = Idle,
         Up(g)' => \A k \in Job : runner'[g][k] = "none" => runner[g][k] = "none",
         \A k \in Job : NoneNew(g, k) \/ (Up(g) /\ Up(g)' /\ runner'[g][k] # "none"),
         TablesInv'
  PROVE  RunsItsOwn(g)'
<1> SUFFICES ASSUME NEW a \in AttemptId, attempt'[a].status # "absent", attempt'[a].owner = g
             PROVE  mode'[g] # "unborn" /\ (Up(g)' => runner'[g][attempt'[a].job] # "none")
  BY DEF RunsItsOwn
<1>1. attempt'[a].job \in Job
  BY DEF TablesInv, Store!StoreInv, Store!TypeOK, Store!AttemptRow, Store!Unwritten
<1>2. CASE attempt[a].status # "absent"
  <2>1. attempt'[a].job = attempt[a].job /\ attempt[a].owner = g
    BY <1>2 DEF Onward
  <2>2. mode[g] # "unborn" /\ (Up(g) => runner[g][attempt[a].job] # "none")
    BY <1>2, <2>1 DEF HostInv, RunsItsOwn
  <2> QED BY <1>1, <2>1, <2>2
<1>3. CASE attempt[a].status = "absent"
  <2>1. Up(g) /\ Up(g)' /\ runner'[g][attempt'[a].job] # "none"
    BY <1>1, <1>3 DEF NoneNew
  <2> QED BY <2>1 DEF Up
<1> QED BY <1>2, <1>3

LEMMA CallStays ==
  ASSUME HostInv, Onward, NEW g \in Owner, call'[g] = call[g], runner'[g] = runner[g],
         \A k \in Job : runner[g][k] # "none" =>
           /\ k \in Merges => merge'[k] = merge[k]
           /\ job[k].status = "queued" => job'[k].status = "queued"
  PROVE  CallFits(g)'
<1>1. CallFits(g)
  BY DEF HostInv
<1>2. CASE call[g].op \in {"idle", "refresh"} /\ call[g] = [Idle EXCEPT !.op = call[g].op]
  BY <1>2 DEF CallFits, Idle
<1>3. CASE ~(call[g].op \in {"idle", "refresh"} /\ call[g] = [Idle EXCEPT !.op = call[g].op])
  <2> DEFINE k == call[g].job
  <2>1. k \in Job /\ runner[g][k] # "none"
    BY <1>1, <1>3 DEF CallFits
  <2>2. /\ k \in Merges => merge'[k] = merge[k]
        /\ job[k].status = "queued" => job'[k].status = "queued"
        /\ IsTerminal(k) => (IsTerminal(k))'
    BY <2>1 DEF Onward, IsTerminal
  <2>3. call[g].op = "finish" => /\ attempt'[call[g].attempt].job = k
                                 /\ attempt'[call[g].attempt].epoch = call[g].epoch
    <3>1. ASSUME call[g].op = "finish"
          PROVE  /\ call[g].attempt \in AttemptId /\ attempt[call[g].attempt].job = k
                 /\ attempt[call[g].attempt].epoch = call[g].epoch
      BY <1>1, <3>1, <1>3 DEF CallFits
    <3>2. ASSUME call[g].op = "finish" PROVE attempt[call[g].attempt].status # "absent"
      BY <2>1, <3>1, <3>2, Shapes, TableTypes DEF TablesInv
    <3> QED BY <3>1, <3>2 DEF Onward
  <2> QED BY <1>1, <1>3, <2>1, <2>2, <2>3 DEF CallFits, Merged
<1> QED BY <1>2, <1>3
-----------------------------------------------------------------------------
\* One host acts, on the job i at most; all other hosts and jobs are left alone.
LEMMA HostActs ==
  ASSUME HostInv, History, TableStep, HostShapes', NEW f \in Owner, NEW i \in Job \cup {NoJob},
         \A g \in Owner \ {f} : /\ mode'[g] = mode[g] /\ heart'[g] = heart[g]
                                /\ runner'[g] = runner[g] /\ call'[g] = call[g]
                                /\ i \in Job => runner[g][i] = "none",
         \A k \in Job \ {i} : /\ merge'[k] = merge[k]
                              /\ job[k].status = "queued" => job'[k].status = "queued"
                              /\ job'[k].status \in {"succeeded", "partial"} => job'[k].status = job[k].status
                              /\ runner'[f][k] \in {"none", runner[f][k]},
         i \in Job => job'[i].status # "absent",
         i \in Merges => /\ job'[i].status = "succeeded" => Merged(i)'
                         /\ job'[i].status = "partial" => merge'[i] = "blocked"
                         /\ runner'[f][i] = "completes" => Merged(i)',
         \A k \in Job : runner'[f][k] # "none" => Up(f)',
         \A g \in Owner \ {f}, k \in Job : NoneNew(g, k),
         RunsItsOwn(f)', CallFits(f)',
         \A k \in Job : BeatsForRun(f, k)' /\ LeftIsLost(f, k)'
  PROVE  HostInv'
<1>0. HostShapes /\ TablesInv /\ TablesInv' /\ Onward
  BY Shapes, TablesKeep
<1>1. unrecorded \subseteq unrecorded' /\ unrecorded' \subseteq Owner \X Job
  BY DEF History
<1>2. TypeOK' /\ call' \in [Owner -> CallRow]
  <2>1. \A c \in CallRow : c.op \in {"idle", "acquire", "start", "unstart", "reread", "finish",
                                     "release", "settle", "refresh"}
    BY DEF CallRow, Starting, Settling
  <2>2. Store!TypeOK'
    BY <1>0 DEF TablesInv, Store!StoreInv
  <2> QED BY <1>0, <1>1, <2>1, <2>2 DEF HostShapes, TypeOK
<1>3. SuccessIsMerged'
  <2> SUFFICES ASSUME NEW k \in Merges
               PROVE  /\ job'[k].status = "succeeded" => Merged(k)'
                      /\ job'[k].status = "partial" => merge'[k] = "blocked"
    BY DEF SuccessIsMerged, Merged
  <2>0. k \in Job
    BY HostAssumption
  <2>1. CASE k = i
    BY <2>1
  <2>2. CASE k # i
    BY <2>0, <2>2 DEF HostInv, SuccessIsMerged, Merged
  <2> QED BY <2>1, <2>2
<1>4. OneRunner'
  <2> SUFFICES ASSUME NEW h \in Owner, NEW j \in Job, runner'[h][j] # "none"
               PROVE  /\ Up(h)' /\ job'[j].status # "absent"
                      /\ \A g \in Owner : runner'[g][j] # "none" => g = h
    BY DEF OneRunner
  <2>1. CASE j = i
    BY <2>1
  <2>2. CASE j # i
    <3>1. \A g \in Owner : runner'[g][j] # "none" => runner[g][j] # "none"
      BY <2>2
    <3>2. /\ Up(h) /\ job[j].status # "absent"
          /\ \A g \in Owner : runner[g][j] # "none" => g = h
      BY <3>1 DEF HostInv, OneRunner
    <3>3. Up(h)'
      BY <3>2 DEF Up
    <3> QED BY <1>0, <3>1, <3>2, <3>3 DEF Onward
  <2> QED BY <2>1, <2>2
<1>5. ASSUME NEW g \in Owner \ {f} PROVE RunsItsOwn(g)' /\ CallFits(g)'
  <2>1. CallFits(g)'
    <3>1. \A k \in Job : runner[g][k] # "none" =>
           /\ k \in Merges => merge'[k] = merge[k]
           /\ job[k].status = "queued" => job'[k].status = "queued"
      OBVIOUS
    <3> QED BY <1>0, <3>1, CallStays
  <2>2. ~Up(g)' => call'[g] = Idle
    BY DEF Up, HostInv, RunsItsOwn
  <2>3. Up(g)' => Up(g)
    BY DEF Up
  <2> QED BY <1>0, <2>1, <2>2, <2>3, OwnStays
<1>6. ASSUME NEW g \in Owner \ {f}, NEW k \in Job PROVE BeatsForRun(g, k)' /\ LeftIsLost(g, k)'
  BY <1>0, <1>1, BeatStays, LeftStays
<1>7. ASSUME NEW h \in Owner, NEW k \in Merges, runner'[h][k] = "completes" PROVE Merged(k)'
  <2>0. k \in Job
    BY HostAssumption
  <2>1. CASE k = i
    BY <1>7, <2>0, <2>1
  <2>2. CASE k # i
    <3>1. runner[h][k] = "completes" /\ merge'[k] = merge[k]
      BY <1>7, <2>0, <2>2
    <3> QED BY <3>1 DEF HostInv, Merged
  <2> QED BY <2>1, <2>2
<1>8. \A h \in Owner : RunsItsOwn(h)' /\ CallFits(h)'
  BY <1>5
<1>9. \A h \in Owner, k \in Job : BeatsForRun(h, k)' /\ LeftIsLost(h, k)'
  BY <1>6
<1> QED BY <1>0, <1>2, <1>3, <1>4, <1>7, <1>8, <1>9 DEF HostInv, TablesInv

\* A living host acts on one job, its own.
LEMMA JobKeeps ==
  ASSUME HostInv, History, TableStep, HostShapes', NEW h \in Owner, NEW j \in Job,
         mode' = mode, Up(h),
         \A g \in Owner \ {h} : /\ heart'[g] = heart[g] /\ runner'[g] = runner[g]
                                /\ call'[g] = call[g] /\ runner[g][j] = "none",
         \A k \in Job \ {j} : /\ merge'[k] = merge[k]
                              /\ job[k].status = "queued" => job'[k].status = "queued"
                              /\ job'[k].status \in {"succeeded", "partial"} => job'[k].status = job[k].status
                              /\ heart'[h][k] = heart[h][k] /\ runner'[h][k] = runner[h][k],
         runner'[h][j] # "none", job'[j].status # "absent",
         j \in Merges => /\ job'[j].status = "succeeded" => Merged(j)'
                         /\ job'[j].status = "partial" => merge'[j] = "blocked"
                         /\ runner'[h][j] = "completes" => Merged(j)',
         \A a \in AttemptId : attempt[a].status = "absent" /\ attempt'[a].status # "absent" =>
           attempt'[a].owner = h /\ attempt'[a].job = j,
         call'[h].op # "refresh", call[h].job \in {j, NoJob},
         CallFits(h)', BeatsForRun(h, j)', LeftIsLost(h, j)'
  PROVE  HostInv'
<1>0. TablesInv /\ TablesInv' /\ Onward /\ unrecorded \subseteq unrecorded'
  BY Shapes, TablesKeep DEF History
<1>1. Up(h)'
  BY DEF Up
<1>2. \A g \in Owner, k \in Job : g # h \/ k # j => NoneNew(g, k)
  BY DEF NoneNew
<1>3. RunsItsOwn(h)'
  <2>1. \A k \in Job : runner'[h][k] = "none" => runner[h][k] = "none"
    OBVIOUS
  <2>2. \A k \in Job : NoneNew(h, k) \/ (Up(h) /\ Up(h)' /\ runner'[h][k] # "none")
    BY <1>1, <1>2
  <2> QED BY <1>0, <1>1, <2>1, <2>2, OwnStays
<1>4. ASSUME NEW k \in Job PROVE BeatsForRun(h, k)' /\ LeftIsLost(h, k)'
  <2>1. CASE k # j
    BY <1>0, <1>2, <2>1, BeatStays, LeftStays, HostAssumption
  <2> QED BY <2>1
<1>5. j \in Job \cup {NoJob}
  OBVIOUS
<1>6. \A g \in Owner \ {h} : /\ mode'[g] = mode[g] /\ heart'[g] = heart[g]
                             /\ runner'[g] = runner[g] /\ call'[g] = call[g]
                             /\ j \in Job => runner[g][j] = "none"
  OBVIOUS
<1>7. \A k \in Job \ {j} : /\ merge'[k] = merge[k]
                           /\ job[k].status = "queued" => job'[k].status = "queued"
                           /\ job'[k].status \in {"succeeded", "partial"} => job'[k].status = job[k].status
                           /\ runner'[h][k] \in {"none", runner[h][k]}
  OBVIOUS
<1>8. \A g \in Owner \ {h}, k \in Job : NoneNew(g, k)
  BY <1>2
<1> QED BY <1>1, <1>3, <1>4, <1>5, <1>6, <1>7, <1>8, HostActs
-----------------------------------------------------------------------------
(* The shapes of the changes of an action.                                 *)

LEMMA RunnerMoves ==
  ASSUME HostShapes, NEW h \in Owner, NEW j \in Job, NEW s \in Step, Moves(h, j, s)
  PROVE  /\ runner' \in [Owner -> [Job -> Step]] /\ runner'[h][j] = s
         /\ \A k \in Job \ {j} : runner'[h][k] = runner[h][k]
         /\ \A g \in Owner \ {h} : runner'[g] = runner[g]
BY DEF HostShapes, Moves

LEMMA HeartMoves ==
  ASSUME HostShapes, NEW h \in Owner, NEW j \in Job, NEW e \in 0 .. MaxEpoch,
         heart' = [heart EXCEPT ![h][j] = e]
  PROVE  /\ heart' \in [Owner -> [Job -> 0 .. MaxEpoch]] /\ heart'[h][j] = e
         /\ \A k \in Job \ {j} : heart'[h][k] = heart[h][k]
         /\ \A g \in Owner \ {h} : heart'[g] = heart[g]
BY DEF HostShapes

LEMMA HeartStops ==
  ASSUME HostShapes, NEW h \in Owner, NEW j \in Job, heart' = [heart EXCEPT ![h][j] = 0]
  PROVE  /\ heart' \in [Owner -> [Job -> 0 .. MaxEpoch]] /\ heart'[h][j] = 0
         /\ \A k \in Job \ {j} : heart'[h][k] = heart[h][k]
         /\ \A g \in Owner \ {h} : heart'[g] = heart[g]
<1>1. 0 \in 0 .. MaxEpoch
  BY HostAssumption
<1> QED BY <1>1, HeartMoves

LEMMA CallMoves ==
  ASSUME HostShapes, NEW h \in Owner, NEW c \in CallRow, call' = [call EXCEPT ![h] = c]
  PROVE  /\ call' \in [Owner -> CallRow] /\ call'[h] = c
         /\ \A g \in Owner \ {h} : call'[g] = call[g]
BY DEF HostShapes

LEMMA ShowMoves ==
  ASSUME HostShapes, NEW h \in Owner, NEW j \in Job, NEW s \in Shown, Show(h, j, s)
  PROVE  registry' \in [Owner -> [Job -> [status : Shown, version : 0 .. MaxVersion]]]
<1> DEFINE row == [registry[h][j] EXCEPT !.status = s]
<1>1. row \in [status : Shown, version : 0 .. MaxVersion]
  <2>1. registry[h][j] \in [status : Shown, version : 0 .. MaxVersion]
    BY DEF HostShapes
  <2> QED BY <2>1
<1>2. registry' = [registry EXCEPT ![h] = [registry[h] EXCEPT ![j] = row]]
  BY DEF Show
<1> HIDE DEF row
<1> QED BY <1>1, <1>2 DEF HostShapes

LEMMA MergeMoves ==
  ASSUME HostShapes, NEW j \in Job,
         NEW s \in {"none", "queued", "running", "merged", "not_needed", "blocked", "failed"},
         merge' = [merge EXCEPT ![j] = s]
  PROVE  /\ merge' \in [Job -> {"none", "queued", "running", "merged", "not_needed", "blocked", "failed"}]
         /\ merge'[j] = s /\ \A k \in Job \ {j} : merge'[k] = merge[k]
BY DEF HostShapes

\* The calls a host enters.
LEMMA CallRows ==
  ASSUME TablesInv, NEW j \in Job, NEW t \in {"none", "run", "end", "final", "finalAgain"},
         NEW st \in CallStatus
  PROVE  /\ Acquire(j, t, st) \in CallRow
         /\ [Idle EXCEPT !.op = "settle", !.job = j, !.then = t, !.status = st] \in CallRow
         /\ job[j].status = "running" => Terminate(j, t, st) \in CallRow
<1>1. job[j].version \in {0, 1, 2, 3}
  BY Zenon DEF TablesInv, OneRound
<1>2. job[j].version \in 0 .. MaxVersion
  BY <1>1, HostAssumption
<1>2a. 0 \in 0 .. MaxVersion /\ 1 \in 0 .. MaxVersion /\ 0 \in 0 .. MaxEpoch
  BY HostAssumption
<1>3. Acquire(j, t, st) \in CallRow
  BY <1>2, <1>2a DEF Acquire, Idle, CallRow, Starting
<1>4. [Idle EXCEPT !.op = "settle", !.job = j, !.then = t, !.status = st] \in CallRow
  BY <1>2a DEF Idle, CallRow
<1>5. ASSUME job[j].status = "running" PROVE Terminate(j, t, st) \in CallRow
  BY <1>2, <1>2a, <1>5, RunningAttempt DEF Terminate, CallRow, Settling
<1> QED BY <1>3, <1>4, <1>5

LEMMA IdleRow == Idle \in CallRow
BY HostAssumption DEF Idle, CallRow, CallStatus

\* The job of a runner.
LEMMA Mine ==
  ASSUME HostInv, NEW h \in Owner, NEW j \in Job, runner[h][j] # "none"
  PROVE  /\ Up(h) /\ job[j].status # "absent"
         /\ \A g \in Owner \ {h} : runner[g][j] = "none"
BY DEF HostInv, OneRunner

\* A living host acts on its own job, and neither starts nor settles it.
LEMMA QuietJobKeeps ==
  ASSUME HostInv, History, QuietStep, HostShapes', NEW h \in Owner, NEW j \in Job,
         mode' = mode, runner[h][j] # "none", runner'[h][j] # "none",
         \A g \in Owner \ {h} : heart'[g] = heart[g] /\ runner'[g] = runner[g] /\ call'[g] = call[g],
         \A k \in Job \ {j} : /\ merge'[k] = merge[k] /\ heart'[h][k] = heart[h][k]
                              /\ runner'[h][k] = runner[h][k],
         j \in Merges => /\ job[j].status \in {"succeeded", "partial"} => merge'[j] = merge[j]
                         /\ runner'[h][j] = "completes" => Merged(j)',
         call'[h].op # "refresh", call[h].job \in {j, NoJob},
         CallFits(h)', BeatsForRun(h, j)', LeftIsLost(h, j)'
  PROVE  HostInv'
<1>1. TablesInv /\ Onward /\ Quiet /\ TableStep
  BY Shapes, QuietKeeps DEF TableStep
<1>2. j \in Merges => /\ job'[j].status = "succeeded" => Merged(j)'
                      /\ job'[j].status = "partial" => merge'[j] = "blocked"
  BY <1>1 DEF Quiet, HostInv, SuccessIsMerged, Merged
<1>3. job'[j].status # "absent"
  BY <1>1, Mine DEF Onward
<1> QED BY <1>1, <1>2, <1>3, Mine, JobKeeps DEF Quiet

\* Only the registry and the beats of hosts change, if anything does.
LEMMA NobodyActs ==
  ASSUME HostInv, History, QuietStep, HostShapes', UNCHANGED <<mode, merge, runner, call>>,
         \A h \in Owner, j \in Job : heart'[h][j] \in {0, heart[h][j]}
  PROVE  HostInv'
<1>0. TablesInv /\ TablesInv' /\ Onward /\ Quiet /\ TableStep /\ HostShapes
  BY Shapes, QuietKeeps, TablesKeep DEF TableStep
<1>1. \A g \in Owner, k \in Job : NoneNew(g, k)
  BY <1>0 DEF NoneNew, Quiet
<1>2. ASSUME NEW h \in Owner PROVE RunsItsOwn(h)' /\ CallFits(h)'
  <2>1. CallFits(h)'
    BY <1>0, CallStays, HostAssumption DEF Quiet
  <2>2. ~Up(h)' => call'[h] = Idle
    BY DEF Up, HostInv, RunsItsOwn
  <2>3. (Up(h)' <=> Up(h)) /\ mode'[h] = mode[h] /\ runner'[h] = runner[h]
    BY DEF Up
  <2> QED BY <1>0, <1>1, <2>1, <2>2, <2>3, OwnStays
<1>3. ASSUME NEW h \in Owner, NEW k \in Job PROVE BeatsForRun(h, k)' /\ LeftIsLost(h, k)'
  BY <1>0, <1>1, BeatStays, LeftStays DEF History
<1>4. OneRunner'
  BY <1>0 DEF HostInv, OneRunner, Up, Onward
<1>5. SuccessIsMerged' /\ \A h \in Owner, j \in Merges : runner'[h][j] = "completes" => Merged(j)'
  BY <1>0, HostAssumption DEF HostInv, SuccessIsMerged, Quiet, Merged
<1>6. TypeOK' /\ call' \in [Owner -> CallRow]
  <2>1. Store!TypeOK'
    BY <1>0 DEF TablesInv, Store!StoreInv
  <2> QED BY <2>1 DEF HostInv, HostShapes, TypeOK, History
<1> QED BY <1>0, <1>2, <1>3, <1>4, <1>5, <1>6 DEF HostInv, TablesInv
-----------------------------------------------------------------------------
(* The life of a task.                                                     *)

LEMMA SubmitKeeps ==
  ASSUME HostInv, Remember, NEW h \in Owner, NEW j \in Job, Submit(h, j) PROVE HostInv' /\ TableStep
<1>0. HostShapes /\ TablesInv /\ History /\ Up(h) /\ call[h] = Idle
  BY Shapes, Remembers DEF Submit, IsIdle
<1>1. registry' \in [Owner -> [Job -> [status : Shown, version : 0 .. MaxVersion]]]
  BY <1>0, ShowMoves DEF Submit, Shown
<1>2. CASE UNCHANGED <<store, runner>>
  <2>1. HostShapes' /\ QuietStep
    BY <1>0, <1>1, <1>2 DEF Submit, HostShapes, QuietStep
  <2> QED BY <1>0, <1>2, <2>1, NobodyActs DEF Submit, TableStep
<1>3. CASE Store!CreateJob(j) /\ Moves(h, j, "preparing")
  <2>1. /\ runner' \in [Owner -> [Job -> Step]] /\ runner'[h][j] = "preparing"
        /\ \A k \in Job \ {j} : runner'[h][k] = runner[h][k]
        /\ \A g \in Owner \ {h} : runner'[g] = runner[g]
    BY <1>0, <1>3, RunnerMoves DEF Step
  <2>2. HostShapes' /\ QuietStep
    BY <1>0, <1>1, <1>3, <2>1 DEF Submit, HostShapes, QuietStep
  <2>3. job[j].status = "absent" /\ job'[j].status = "queued"
    BY <1>0, <1>3, TableTypes DEF Store!CreateJob, TablesInv
  <2>4. \A g \in Owner : runner[g][j] = "none"
    BY <2>3 DEF HostInv, OneRunner
  <2>5. Quiet /\ Onward /\ TableStep
    BY <1>0, <2>2, QuietKeeps DEF TableStep
  <2>6. CallFits(h)' /\ BeatsForRun(h, j)' /\ LeftIsLost(h, j)'
    <3>1. heart'[h][j] = 0
      BY <2>3 DEF Submit, HostInv, BeatsForRun
    <3> QED BY <1>0, <2>1, <3>1 DEF CallFits, BeatsForRun, LeftIsLost, Left, Submit, Idle
  <2> QED BY <1>0, <2>1, <2>2, <2>3, <2>4, <2>5, <2>6, JobKeeps DEF Submit, Quiet, Idle
<1> QED BY <1>2, <1>3 DEF Submit

LEMMA RunTaskKeeps ==
  ASSUME HostInv, Remember, NEW h \in Owner, NEW j \in Job, RunTask(h, j) PROVE HostInv' /\ TableStep
<1>0. HostShapes /\ TablesInv /\ History /\ Up(h) /\ call[h] = Idle /\ QuietStep
  BY Shapes, Remembers DEF RunTask, IsIdle, QuietStep
<1>1. registry' \in [Owner -> [Job -> [status : Shown, version : 0 .. MaxVersion]]]
  BY <1>0, ShowMoves DEF RunTask, Shown
<1>2. /\ runner' \in [Owner -> [Job -> Step]] /\ runner'[h][j] = "running"
      /\ \A k \in Job \ {j} : runner'[h][k] = runner[h][k]
      /\ \A g \in Owner \ {h} : runner'[g] = runner[g]
  BY <1>0, RunnerMoves DEF Step, RunTask
<1>3. UNCHANGED <<store, merge, mode>> /\ runner[h][j] # "none" /\ LeftIsLost(h, j)'
  BY <1>2 DEF RunTask, LeftIsLost, Left
<1>4. CASE job[j].status = "queued" /\ call' = [call EXCEPT ![h] = Acquire(j, "run", "running")]
           /\ UNCHANGED heart
  <2>1. Acquire(j, "run", "running") \in CallRow
    BY <1>0, CallRows DEF CallStatus
  <2>2. /\ call' \in [Owner -> CallRow] /\ call'[h] = Acquire(j, "run", "running")
        /\ \A g \in Owner \ {h} : call'[g] = call[g]
    BY <1>0, <1>4, <2>1, CallMoves
  <2>3. job'[j].status = "queued"
    BY <1>3, <1>4 DEF store
  <2>4. CallFits(h)'
    BY <1>2, <2>2, <2>3 DEF CallFits, Acquire, Idle, Starting, Settling
  <2>5. BeatsForRun(h, j)'
    BY <1>2, <1>3, <1>4 DEF HostInv, BeatsForRun, store
  <2>6. HostShapes' /\ call'[h].op # "refresh" /\ call[h].job = NoJob
    BY <1>0, <1>1, <1>2, <1>3, <1>4, <2>2 DEF HostShapes, Acquire, Idle
  <2> QED BY <1>0, <1>2, <1>3, <1>4, <2>2, <2>4, <2>5, <2>6, QuietJobKeeps DEF TableStep
<1>5. CASE job[j].status = "running"
           /\ heart' = [heart EXCEPT ![h][j] = attempt[LastAttempt(j)].epoch] /\ UNCHANGED call
  <2>1. /\ heart' \in [Owner -> [Job -> 0 .. MaxEpoch]]
        /\ \A k \in Job \ {j} : heart'[h][k] = heart[h][k]
        /\ \A g \in Owner \ {h} : heart'[g] = heart[g]
    BY <1>0, <1>5, RunningAttempt, HeartMoves
  <2>2. job'[j].status = "running"
    BY <1>3, <1>5 DEF store
  <2>3. CallFits(h)' /\ BeatsForRun(h, j)'
    BY <1>0, <1>2, <1>5, <2>2 DEF CallFits, BeatsForRun, Idle
  <2>4. HostShapes' /\ call'[h].op # "refresh" /\ call[h].job = NoJob
    BY <1>0, <1>1, <1>2, <1>3, <1>5, <2>1 DEF HostShapes, Idle
  <2> QED BY <1>0, <1>2, <1>3, <1>5, <2>1, <2>3, <2>4, QuietJobKeeps DEF TableStep
<1>6. CASE UNCHANGED <<heart, call>>
  <2>1. CallFits(h)' /\ BeatsForRun(h, j)'
    <3>1. CallFits(h)'
      BY <1>0, <1>6 DEF CallFits, Idle
    <3> QED BY <1>2, <1>3, <1>6, <3>1 DEF HostInv, BeatsForRun, store
  <2>2. HostShapes' /\ call'[h].op # "refresh" /\ call[h].job = NoJob
    BY <1>0, <1>1, <1>2, <1>3, <1>6 DEF HostShapes, Idle
  <2> QED BY <1>0, <1>2, <1>3, <1>6, <2>1, <2>2, QuietJobKeeps DEF TableStep
<1> QED BY <1>4, <1>5, <1>6 DEF RunTask, MirrorRunning

MergeStatus == {"none", "queued", "running", "merged", "not_needed", "blocked", "failed"}

\* An idle host brings a task further that is not over yet.
LEMMA TaskMoves ==
  ASSUME HostInv, Remember, NEW h \in Owner, NEW j \in Job, IsIdle(h),
         runner[h][j] \notin {"none", "over"}, UNCHANGED <<store, mode, registry, heart>>,
         runner' = runner \/ \E s \in Step \ {"none", "over"} : Moves(h, j, s),
         merge' = merge \/ \E m \in MergeStatus : merge' = [merge EXCEPT ![j] = m],
         call' = call \/ \E c \in CallRow : c.op # "refresh" /\ call' = [call EXCEPT ![h] = c],
         CallFits(h)',
         j \in Merges => /\ job[j].status \in {"succeeded", "partial"} => merge'[j] = merge[j]
                         /\ runner'[h][j] = "completes" => Merged(j)'
  PROVE  HostInv' /\ TableStep
<1>0. HostShapes /\ TablesInv /\ History /\ Up(h) /\ call[h] = Idle /\ QuietStep
  BY Shapes, Remembers DEF IsIdle, QuietStep
<1>1. /\ runner' \in [Owner -> [Job -> Step]] /\ runner'[h][j] \notin {"none", "over"}
      /\ \A k \in Job \ {j} : runner'[h][k] = runner[h][k]
      /\ \A g \in Owner \ {h} : runner'[g] = runner[g]
  <2>1. CASE runner' = runner
    BY <1>0, <2>1 DEF HostShapes
  <2>2. ASSUME NEW s \in Step \ {"none", "over"}, Moves(h, j, s)
        PROVE  /\ runner' \in [Owner -> [Job -> Step]] /\ runner'[h][j] \notin {"none", "over"}
               /\ \A k \in Job \ {j} : runner'[h][k] = runner[h][k]
               /\ \A g \in Owner \ {h} : runner'[g] = runner[g]
    BY <1>0, <2>2, RunnerMoves
  <2> QED BY <2>1, <2>2
<1>2. merge' \in [Job -> MergeStatus] /\ \A k \in Job \ {j} : merge'[k] = merge[k]
  BY <1>0, MergeMoves DEF HostShapes, MergeStatus
<1>3. /\ call' \in [Owner -> CallRow] /\ call'[h].op # "refresh"
      /\ \A g \in Owner \ {h} : call'[g] = call[g]
  <2>1. CASE call' = call
    BY <1>0, <2>1 DEF HostShapes, Idle
  <2>2. ASSUME NEW c \in CallRow, c.op # "refresh", call' = [call EXCEPT ![h] = c]
        PROVE  /\ call' \in [Owner -> CallRow] /\ call'[h].op # "refresh"
               /\ \A g \in Owner \ {h} : call'[g] = call[g]
    BY <1>0, <2>2, CallMoves
  <2> QED BY <2>1, <2>2
<1>4. HostShapes' /\ call[h].job = NoJob
  BY <1>0, <1>1, <1>2, <1>3 DEF HostShapes, Idle, MergeStatus
<1>5. LeftIsLost(h, j)'
  BY <1>1 DEF LeftIsLost, Left
<1>6. BeatsForRun(h, j)'
  BY <1>1 DEF HostInv, BeatsForRun, store
<1> QED BY <1>0, <1>1, <1>2, <1>3, <1>4, <1>5, <1>6, QuietJobKeeps DEF TableStep

LEMMA IdleFits == ASSUME NEW h \in Owner, call'[h] = Idle PROVE CallFits(h)'
BY DEF CallFits, Idle

LEMMA TaskFailsKeeps ==
  ASSUME HostInv, Remember, NEW h \in Owner, NEW j \in Job, TaskFails(h, j)
  PROVE  HostInv' /\ TableStep
<1>1. /\ IsIdle(h) /\ runner[h][j] \notin {"none", "over"} /\ Moves(h, j, "fails")
      /\ UNCHANGED <<store, merge, mode, registry, heart, call>>
  BY DEF TaskFails
<1>2. runner'[h][j] = "fails"
  BY <1>1, Shapes, RunnerMoves DEF Step
<1>3. CallFits(h)'
  BY <1>1, IdleFits DEF IsIdle
<1>4. "fails" \in Step \ {"none", "over"}
  BY DEF Step
<1> QED BY <1>1, <1>2, <1>3, <1>4, TaskMoves

LEMMA TaskReturnsKeeps ==
  ASSUME HostInv, Remember, NEW h \in Owner, NEW j \in Job, TaskReturns(h, j)
  PROVE  HostInv' /\ TableStep
<1>1. /\ IsIdle(h) /\ runner[h][j] \notin {"none", "over"} /\ CallFits(h)'
      /\ UNCHANGED <<store, mode, registry, heart, call>>
  BY IdleFits DEF TaskReturns, IsIdle
<1>2. {"completes", "merging", "fails"} \subseteq Step \ {"none", "over"} /\ "queued" \in MergeStatus
  BY DEF Step, MergeStatus
<1>3. CASE j \notin Merges /\ Moves(h, j, "completes") /\ UNCHANGED merge
  BY <1>1, <1>2, <1>3, TaskMoves
<1>4. CASE /\ j \in Merges /\ job[j].status = "running" /\ merge' = [merge EXCEPT ![j] = "queued"]
           /\ Moves(h, j, "merging")
  <2>1. runner'[h][j] = "merging"
    BY <1>2, <1>4, Shapes, RunnerMoves
  <2> QED BY <1>1, <1>2, <1>4, <2>1, TaskMoves
<1>5. CASE Moves(h, j, "fails") /\ UNCHANGED merge
  <2>1. runner'[h][j] = "fails"
    BY <1>2, <1>5, Shapes, RunnerMoves
  <2> QED BY <1>1, <1>2, <1>5, <2>1, TaskMoves
<1> QED BY <1>3, <1>4, <1>5 DEF TaskReturns

LEMMA MergeBeginsKeeps ==
  ASSUME HostInv, Remember, NEW h \in Owner, NEW j \in Job, MergeBegins(h, j)
  PROVE  HostInv' /\ TableStep
<1>1. /\ IsIdle(h) /\ runner[h][j] = "merging" /\ CallFits(h)' /\ merge[j] = "queued"
      /\ UNCHANGED <<store, mode, registry, heart, call, runner>>
      /\ merge' = [merge EXCEPT ![j] = "running"]
  BY IdleFits DEF MergeBegins, IsIdle
<1>2. j \in Merges => job[j].status \notin {"succeeded", "partial"}
  BY <1>1 DEF HostInv, SuccessIsMerged
<1>3. "running" \in MergeStatus
  BY DEF MergeStatus
<1> QED BY <1>1, <1>2, <1>3, TaskMoves

LEMMA MergeEndsKeeps ==
  ASSUME HostInv, Remember, NEW h \in Owner, NEW j \in Job, MergeEnds(h, j)
  PROVE  HostInv' /\ TableStep
<1>1. /\ IsIdle(h) /\ runner[h][j] = "merging" /\ merge[j] \in {"queued", "running"}
      /\ UNCHANGED <<store, mode, registry, heart>>
  BY DEF MergeEnds
<1>2. j \in Merges => job[j].status \notin {"succeeded", "partial"}
  BY <1>1 DEF HostInv, SuccessIsMerged
<1>3. ASSUME NEW m \in MergeStatus, NEW st \in {"succeeded", "partial", "failed"},
             NEW t \in {"final", "finalAgain"}, merge' = [merge EXCEPT ![j] = m],
             Settle(h, j, t, st), UNCHANGED runner,
             st = "succeeded" => m \in {"merged", "not_needed"}, st = "partial" => m = "blocked"
      PROVE  HostInv' /\ TableStep
  <2> DEFINE c == [Idle EXCEPT !.op = "settle", !.job = j, !.then = t, !.status = st]
  <2>1. c \in CallRow
    BY Shapes, CallRows DEF CallStatus, Ended
  <2>2. c.op = "settle" /\ c.job = j /\ c.then = t /\ c.status = st
    BY DEF Idle
  <2>3. call' = [call EXCEPT ![h] = c]
    BY <1>3 DEF Settle
  <2> HIDE DEF c
  <2>4. call'[h] = c
    BY <2>1, <2>3, Shapes, CallMoves
  <2>5. merge'[j] = m
    BY <1>3, Shapes DEF HostShapes
  <2>6. CallFits(h)'
    BY <1>1, <1>3, <2>2, <2>4, <2>5 DEF CallFits, Merged, Starting, Settling
  <2> QED BY <1>1, <1>2, <1>3, <2>1, <2>2, <2>3, <2>6, TaskMoves
<1>4. CASE StoreFails /\ Moves(h, j, "fails") /\ UNCHANGED <<merge, call>>
  <2>1. "fails" \in Step \ {"none", "over"}
    BY DEF Step
  <2>2. runner'[h][j] = "fails"
    BY <1>4, <2>1, Shapes, RunnerMoves
  <2>3. CallFits(h)'
    BY <1>1, <1>4, IdleFits DEF IsIdle
  <2> QED BY <1>1, <1>4, <2>1, <2>2, <2>3, TaskMoves
<1> QED BY <1>3, <1>4 DEF MergeEnds, MergeStatus

\* The run is over: its end is about to be persisted, or there is nothing left to persist.
LEMMA FinishTaskKeeps ==
  ASSUME HostInv, Remember, NEW h \in Owner, NEW j \in Job, FinishTask(h, j)
  PROVE  HostInv' /\ TableStep
<1>0. /\ HostShapes /\ TablesInv /\ History /\ Up(h) /\ call[h] = Idle /\ QuietStep
      /\ call[h].job = NoJob /\ runner[h][j] # "none" /\ job[j].status # "absent"
  BY Shapes, Remembers, Mine DEF FinishTask, IsIdle, QuietStep, Idle
<1>1. PICK shown \in {"killed", IF runner[h][j] = "completes" THEN "completed" ELSE "failed"} :
        Show(h, j, shown) /\ MirrorEnded(h, j, shown)
  BY DEF FinishTask
<1>2. /\ shown \in Ended /\ shown \in Shown /\ shown \in CallStatus
      /\ shown = "completed" => runner[h][j] = "completes"
  BY DEF Ended, Shown, CallStatus
<1>3. registry' \in [Owner -> [Job -> [status : Shown, version : 0 .. MaxVersion]]]
  BY <1>0, <1>1, <1>2, ShowMoves
<1>4. /\ runner' \in [Owner -> [Job -> Step]] /\ runner'[h][j] = "over"
      /\ \A k \in Job \ {j} : runner'[h][k] = runner[h][k]
      /\ \A g \in Owner \ {h} : runner'[g] = runner[g]
  BY <1>0, RunnerMoves DEF Step, FinishTask
<1>5. UNCHANGED <<store, merge, mode>> /\ UNCHANGED <<lease, job, attempt>>
  BY DEF FinishTask, store
<1>6. j \in Merges => (shown = "completed" => Merged(j)')
  BY <1>2, <1>5 DEF HostInv, Merged
<1>7. Left(h, j)' => job[j].status = "running"
  BY <1>0, <1>5, TableTypes DEF Left, TablesInv, Store!RunningOf
<1>8. CASE IsTerminal(j) /\ heart' = [heart EXCEPT ![h][j] = 0] /\ UNCHANGED call
  <2>1. /\ heart' \in [Owner -> [Job -> 0 .. MaxEpoch]] /\ heart'[h][j] = 0
        /\ \A k \in Job \ {j} : heart'[h][k] = heart[h][k]
        /\ \A g \in Owner \ {h} : heart'[g] = heart[g]
    BY <1>0, <1>8, HeartStops
  <2>2. LeftIsLost(h, j)' /\ BeatsForRun(h, j)'
    BY <1>7, <1>8, <2>1 DEF LeftIsLost, BeatsForRun, IsTerminal, Store!Terminal
  <2>3. HostShapes' /\ CallFits(h)' /\ call'[h].op # "refresh"
    BY <1>0, <1>3, <1>4, <1>5, <1>8, <2>1, IdleFits DEF HostShapes, Idle
  <2> QED BY <1>0, <1>4, <1>5, <1>8, <2>1, <2>2, <2>3, QuietJobKeeps DEF TableStep
<1>9. CASE job[j].status = "queued" /\ call' = [call EXCEPT ![h] = Acquire(j, "end", shown)]
           /\ UNCHANGED heart
  <2>1. Acquire(j, "end", shown) \in CallRow
    BY <1>0, <1>2, CallRows
  <2>2. /\ call' \in [Owner -> CallRow] /\ call'[h] = Acquire(j, "end", shown)
        /\ \A g \in Owner \ {h} : call'[g] = call[g]
    BY <1>0, <1>9, <2>1, CallMoves
  <2>3. /\ call'[h].op = "acquire" /\ call'[h].job = j /\ call'[h].then = "end" /\ call'[h].status = shown
    BY <2>2 DEF Acquire, Idle
  <2>4. CallFits(h)'
    BY <1>2, <1>4, <1>5, <1>6, <1>9, <2>3 DEF CallFits, Starting, Settling, Ended
  <2>5. LeftIsLost(h, j)' /\ BeatsForRun(h, j)'
    BY <1>5, <1>7, <1>9 DEF LeftIsLost, HostInv, BeatsForRun
  <2>6. HostShapes'
    BY <1>0, <1>3, <1>4, <1>5, <1>9, <2>2 DEF HostShapes
  <2> QED BY <1>0, <1>4, <1>5, <1>9, <2>2, <2>3, <2>4, <2>5, <2>6, QuietJobKeeps DEF TableStep
<1>10. CASE /\ ~IsTerminal(j) /\ job[j].status # "queued" /\ heart' = [heart EXCEPT ![h][j] = 0]
            /\ call' = [call EXCEPT ![h] = Terminate(j, "end", TerminalStatus(shown))]
  <2>0. job[j].status = "running" /\ TerminalStatus(shown) \in Outcomes /\ TerminalStatus(shown) \in CallStatus
    BY <1>0, <1>10 DEF TablesInv, OneRound, TerminalStatus, Outcomes, CallStatus, Ended
  <2>1. Terminate(j, "end", TerminalStatus(shown)) \in CallRow
    BY <1>0, <2>0, CallRows
  <2>2. /\ call' \in [Owner -> CallRow] /\ call'[h] = Terminate(j, "end", TerminalStatus(shown))
        /\ \A g \in Owner \ {h} : call'[g] = call[g]
    BY <1>0, <1>10, <2>1, CallMoves
  <2>3. /\ call'[h].op = "finish" /\ call'[h].job = j /\ call'[h].then = "end"
        /\ call'[h].status = TerminalStatus(shown) /\ call'[h].attempt = LastAttempt(j)
        /\ call'[h].epoch = attempt[LastAttempt(j)].epoch
    BY <2>2 DEF Terminate
  <2>4. /\ TerminalStatus(shown) \in {"succeeded", "completed"} => shown = "completed"
        /\ TerminalStatus(shown) # "partial"
    BY <1>2 DEF TerminalStatus, Ended
  <2>5. CallFits(h)'
    BY <1>0, <1>4, <1>5, <1>6, <2>0, <2>3, <2>4, RunningAttempt
       DEF CallFits, Starting, Settling, Outcomes
  <2>6. /\ heart' \in [Owner -> [Job -> 0 .. MaxEpoch]] /\ heart'[h][j] = 0
        /\ \A k \in Job \ {j} : heart'[h][k] = heart[h][k]
        /\ \A g \in Owner \ {h} : heart'[g] = heart[g]
    BY <1>0, <1>10, HeartStops
  <2>7. LeftIsLost(h, j)' /\ BeatsForRun(h, j)'
    BY <2>3, <2>6 DEF LeftIsLost, BeatsForRun
  <2>8. HostShapes'
    BY <1>0, <1>3, <1>4, <1>5, <2>2, <2>6 DEF HostShapes
  <2> QED BY <1>0, <1>4, <1>5, <2>2, <2>3, <2>5, <2>6, <2>7, <2>8, QuietJobKeeps DEF TableStep
<1> QED BY <1>1, <1>8, <1>9, <1>10 DEF MirrorEnded

LEMMA BeatKeeps ==
  ASSUME HostInv, Remember, NEW h \in Owner, NEW j \in Job, Beat(h, j) PROVE HostInv' /\ TableStep
<1>0. HostShapes /\ TablesInv /\ History
  BY Shapes, Remembers
<1>1. CASE Store!HeartbeatLease(h, j, heart[h][j]) /\ UNCHANGED heart
  <2>1. heart[h][j] \in 1 .. MaxEpoch
    BY <1>0, HostAssumption DEF Beat, HostShapes
  <2>2. QuietStep /\ HostShapes'
    BY <1>0, <1>1, <2>1 DEF QuietStep, Beat, HostShapes
  <2> QED BY <1>0, <1>1, <2>2, NobodyActs DEF Beat, TableStep
<1>2. CASE heart' = [heart EXCEPT ![h][j] = 0] /\ UNCHANGED store
  <2>1. /\ heart' \in [Owner -> [Job -> 0 .. MaxEpoch]]
        /\ \A g \in Owner, k \in Job : heart'[g][k] \in {0, heart[g][k]}
    BY <1>0, <1>2, HeartStops
  <2>2. QuietStep /\ HostShapes'
    BY <1>0, <1>2, <2>1 DEF QuietStep, Beat, HostShapes
  <2> QED BY <1>0, <2>1, <2>2, NobodyActs DEF Beat, TableStep
<1> QED BY <1>1, <1>2 DEF Beat

-----------------------------------------------------------------------------
(* The synchronous calls.                                                  *)

LEMMA Calling ==
  ASSUME HostInv, NEW h \in Owner, call[h].op \notin {"idle", "refresh"}
  PROVE  call[h].job \in Job /\ runner[h][call[h].job] # "none" /\ call[h] \in CallRow
<1>1. CallFits(h) /\ call[h] \in CallRow
  BY DEF HostInv
<1> QED BY <1>1 DEF CallFits

\* A call goes on to its next operation with what it knows.
Ops == {"idle", "reread", "settle", "refresh"} \cup Starting \cup Settling

GoesOn(h, o) == o \in Ops /\ call' = [call EXCEPT ![h].op = o]

LEMMA OpMoves ==
  ASSUME HostShapes, NEW h \in Owner, NEW o, GoesOn(h, o)
  PROVE  \E c \in CallRow : /\ call' = [call EXCEPT ![h] = c] /\ c.op = o /\ c.job = call[h].job
                            /\ c.then = call[h].then /\ c.status = call[h].status
                            /\ c.epoch = call[h].epoch /\ c.version = call[h].version
                            /\ c.attempt = call[h].attempt
<1>1. call[h] \in CallRow
  BY DEF HostShapes
<1>2. [call[h] EXCEPT !.op = o] \in CallRow
  BY <1>1 DEF CallRow, Ops, GoesOn
<1>3. call' = [call EXCEPT ![h] = [call[h] EXCEPT !.op = o]]
  BY DEF HostShapes, GoesOn
<1>4. /\ [call[h] EXCEPT !.op = o].op = o /\ [call[h] EXCEPT !.op = o].job = call[h].job
      /\ [call[h] EXCEPT !.op = o].then = call[h].then
      /\ [call[h] EXCEPT !.op = o].status = call[h].status
      /\ [call[h] EXCEPT !.op = o].epoch = call[h].epoch
      /\ [call[h] EXCEPT !.op = o].version = call[h].version
      /\ [call[h] EXCEPT !.op = o].attempt = call[h].attempt
  BY <1>1 DEF CallRow
<1> QED BY <1>2, <1>3, <1>4

\* A beat goes on or stops.
LEMMA HeartQuiet ==
  ASSUME HostShapes, NEW h \in Owner, NEW j \in Job,
         heart' = heart \/ heart' = [heart EXCEPT ![h][j] = 0]
  PROVE  /\ heart' \in [Owner -> [Job -> 0 .. MaxEpoch]] /\ heart'[h][j] \in {0, heart[h][j]}
         /\ \A k \in Job \ {j} : heart'[h][k] = heart[h][k]
         /\ \A g \in Owner \ {h} : heart'[g] = heart[g]
<1>1. CASE heart' = heart
  BY <1>1 DEF HostShapes
<1>2. CASE heart' = [heart EXCEPT ![h][j] = 0]
  BY <1>2, HeartStops
<1> QED BY <1>1, <1>2

\* A step of a call that neither starts nor settles its job.
LEMMA CallGoesOn ==
  ASSUME HostInv, Remember, QuietStep, NEW h \in Owner, NEW j \in Job,
         call[h].job = j, runner[h][j] # "none", UNCHANGED <<merge, mode, registry>>,
         heart' = heart \/ heart' = [heart EXCEPT ![h][j] = 0],
         \/ runner' = runner
         \/ \E s \in Step \ {"none", "over"} :
              Moves(h, j, s) /\ (s = "completes" /\ j \in Merges => Merged(j)),
         NEW c \in CallRow, c.op # "refresh", call' = [call EXCEPT ![h] = c],
         CallFits(h)', LeftIsLost(h, j)'
  PROVE  HostInv' /\ TableStep
<1>0. HostShapes /\ TablesInv /\ History /\ TableStep /\ Onward
  <2>1. HostShapes /\ TablesInv /\ TableStep
    BY Shapes DEF TableStep
  <2> QED BY <2>1, Remembers, QuietKeeps
<1>1. /\ call' \in [Owner -> CallRow] /\ call'[h].op # "refresh"
      /\ \A g \in Owner \ {h} : call'[g] = call[g]
  BY <1>0, CallMoves
<1>2. /\ heart' \in [Owner -> [Job -> 0 .. MaxEpoch]] /\ heart'[h][j] \in {0, heart[h][j]}
      /\ \A k \in Job \ {j} : heart'[h][k] = heart[h][k]
      /\ \A g \in Owner \ {h} : heart'[g] = heart[g]
  BY <1>0, HeartQuiet
<1>3. /\ runner' \in [Owner -> [Job -> Step]] /\ runner'[h][j] # "none"
      /\ runner'[h][j] # "over" \/ runner'[h][j] = runner[h][j]
      /\ j \in Merges => (runner'[h][j] = "completes" => Merged(j)')
      /\ \A k \in Job \ {j} : runner'[h][k] = runner[h][k]
      /\ \A g \in Owner \ {h} : runner'[g] = runner[g]
  <2>1. CASE runner' = runner
    BY <1>0, <2>1 DEF HostShapes, HostInv, Merged
  <2>2. ASSUME NEW s \in Step \ {"none", "over"}, Moves(h, j, s),
               s = "completes" /\ j \in Merges => Merged(j)
        PROVE  /\ runner' \in [Owner -> [Job -> Step]] /\ runner'[h][j] # "none"
               /\ runner'[h][j] # "over"
               /\ j \in Merges => (runner'[h][j] = "completes" => Merged(j)')
               /\ \A k \in Job \ {j} : runner'[h][k] = runner[h][k]
               /\ \A g \in Owner \ {h} : runner'[g] = runner[g]
    BY <1>0, <2>2, RunnerMoves DEF Merged
  <2> QED BY <2>1, <2>2
<1>4. BeatsForRun(h, j)'
  <2>1. CASE runner'[h][j] = runner[h][j]
    BY <1>0, <1>2, <2>1, BeatStays DEF History
  <2>2. CASE runner'[h][j] \notin {"none", "over"}
    BY <1>0, <1>2, <2>2 DEF HostInv, BeatsForRun, Onward
  <2> QED BY <1>3, <2>1, <2>2
<1>5. HostShapes' /\ mode' = mode
  BY <1>0, <1>1, <1>2, <1>3 DEF HostShapes
<1> QED BY <1>0, <1>1, <1>2, <1>3, <1>4, <1>5, QuietJobKeeps

\* A call that throws: its caller settles once more, fails the task, or is done.
LEMMA ThrownKeeps ==
  ASSUME HostInv, Remember, QuietStep, NEW h \in Owner, call[h].op \in Starting \cup Settling,
         Thrown(h), UNCHANGED <<merge, mode, registry, heart>>,
         \A k \in Job : call[h].then = "end" /\ call[h].job = k => LeftIsLost(h, k)'
  PROVE  HostInv' /\ TableStep
<1>0. PICK j \in Job : /\ j = call[h].job /\ runner[h][j] # "none"
                       /\ CallFits(h) /\ HostShapes /\ TablesInv
  BY Calling, Shapes DEF Starting, Settling, HostInv
<1>1. CASE call[h].then = "final"
  <2> DEFINE c == [Idle EXCEPT !.op = "settle", !.job = j, !.then = "finalAgain", !.status = "failed"]
  <2>1. c \in CallRow
    BY <1>0, CallRows DEF CallStatus, Ended
  <2>2. c.op = "settle" /\ c.job = j /\ c.then = "finalAgain" /\ c.status = "failed"
    BY DEF Idle
  <2>3. call' = [call EXCEPT ![h] = c] /\ runner' = runner
    BY <1>0, <1>1 DEF Thrown, Settle
  <2>4. runner[h][j] = "merging"
    BY <1>0, <1>1 DEF CallFits, Starting, Settling
  <2> HIDE DEF c
  <2>5. call'[h] = c
    BY <1>0, <2>1, <2>3, CallMoves
  <2>6. CallFits(h)' /\ LeftIsLost(h, j)'
    BY <1>0, <2>2, <2>3, <2>4, <2>5 DEF CallFits, LeftIsLost, Starting, Settling
  <2> QED BY <1>0, <2>1, <2>2, <2>3, <2>6, CallGoesOn
<1>2. CASE call[h].then \in {"run", "finalAgain"}
  <2>1. call' = [call EXCEPT ![h] = Idle] /\ Moves(h, j, "fails") /\ "fails" \in Step \ {"none", "over"}
    BY <1>0, <1>2 DEF Thrown, Step
  <2>2. call'[h] = Idle
    BY <1>0, <2>1, IdleRow, CallMoves
  <2>2a. runner'[h][j] = "fails"
    BY <1>0, <2>1, RunnerMoves
  <2>3. CallFits(h)' /\ LeftIsLost(h, j)'
    BY <2>2, <2>2a, IdleFits DEF LeftIsLost, Left
  <2>4. Idle.op # "refresh"
    BY DEF Idle
  <2> QED BY <1>0, <2>1, <2>3, <2>4, IdleRow, CallGoesOn
<1>3. CASE call[h].then = "end"
  <2>1. call' = [call EXCEPT ![h] = Idle] /\ runner' = runner
    BY <1>3 DEF Thrown
  <2>2. CallFits(h)'
    BY <1>0, <2>1, IdleRow, CallMoves, IdleFits
  <2>3. Idle.op # "refresh"
    BY DEF Idle
  <2> QED BY <1>0, <1>3, <2>1, <2>2, <2>3, IdleRow, CallGoesOn
<1> QED BY <1>0, <1>1, <1>2, <1>3 DEF CallFits, Starting, Settling

\* No job is left running that does not run.
LEMMA NotLeft ==
  ASSUME HostInv, UNCHANGED attempt, NEW h \in Owner, NEW j \in Job, job[j].status # "running"
  PROVE  LeftIsLost(h, j)'
BY Shapes, TableTypes DEF LeftIsLost, Left, TablesInv, Store!RunningOf

\* A lease is given up at the epoch its owner got.
LEMMA ReleaseIsQuiet ==
  ASSUME HostInv, NEW h \in Owner, NEW j \in Job, NEW e, Store!ReleaseLease(h, j, e)
  PROVE  QuietStep /\ UNCHANGED <<job, attempt>>
<1>1. lease[j].owner = h /\ lease[j].epoch = e /\ lease[j].epoch \in Nat
  BY Shapes, TableTypes DEF Store!ReleaseLease, TablesInv, Store!Lease
<1>2. e \in 1 .. MaxEpoch
  BY <1>1, HostAssumption DEF HostInv, LeaseOfRun
<1> QED BY <1>2 DEF QuietStep, Store!ReleaseLease

LEMMA SettleReadKeeps ==
  ASSUME HostInv, Remember, NEW h \in Owner, SettleRead(h) PROVE HostInv' /\ TableStep
<1>0. PICK j \in Job : j = call[h].job /\ runner[h][j] # "none" /\ CallFits(h) /\ call[h] \in CallRow
  BY Calling DEF SettleRead, HostInv
<1>1. /\ call[h].op = "settle" /\ UNCHANGED <<store, merge, mode, registry>>
      /\ QuietStep /\ HostShapes /\ TablesInv
  BY Shapes DEF SettleRead, QuietStep
<1>2. /\ runner[h][j] = "merging" /\ call[h].then \in {"final", "finalAgain"}
      /\ call[h].status \in {"succeeded", "partial", "failed"}
      /\ j \in Merges => /\ call[h].status = "succeeded" => Merged(j)
                         /\ call[h].status = "partial" => merge[j] = "blocked"
  BY <1>0, <1>1 DEF CallFits, Starting, Settling
<1>3. CASE /\ job[j].status = "running" /\ heart' = [heart EXCEPT ![h][j] = 0]
           /\ call' = [call EXCEPT ![h] = Terminate(j, call[h].then, call[h].status)]
           /\ UNCHANGED runner
  <2> DEFINE c == Terminate(j, call[h].then, call[h].status)
  <2>1. c \in CallRow
    BY <1>0, <1>1, <1>2, <1>3, CallRows DEF CallStatus, Ended
  <2>2. /\ c.op = "finish" /\ c.job = j /\ c.then = call[h].then /\ c.status = call[h].status
        /\ c.attempt = LastAttempt(j) /\ c.epoch = attempt[LastAttempt(j)].epoch
    BY DEF Terminate
  <2>3. call' = [call EXCEPT ![h] = c]
    BY <1>3
  <2> HIDE DEF c
  <2>4. call'[h] = c
    BY <1>1, <2>1, <2>3, CallMoves
  <2>5. c.attempt \in AttemptId /\ attempt'[c.attempt].job = j /\ attempt'[c.attempt].epoch = c.epoch
    BY <1>1, <1>3, <2>2, RunningAttempt DEF store
  <2>6. CallFits(h)'
    BY <1>1, <1>2, <1>3, <2>2, <2>4, <2>5 DEF CallFits, Starting, Settling, Merged
  <2>7. LeftIsLost(h, j)'
    BY <1>2, <1>3 DEF LeftIsLost, Left
  <2>8. c.op # "refresh"
    BY <2>2
  <2> QED BY <1>0, <1>1, <1>3, <2>1, <2>3, <2>6, <2>7, <2>8, CallGoesOn
<1>4. CASE call' = [call EXCEPT ![h] = Idle] /\ Moves(h, j, "fails") /\ UNCHANGED heart
  <2>0. "fails" \in Step \ {"none", "over"} /\ Idle.op # "refresh"
    BY DEF Step, Idle
  <2>1. call'[h] = Idle
    BY <1>1, <1>4, IdleRow, CallMoves
  <2>2. runner'[h][j] = "fails"
    BY <1>1, <1>4, <2>0, RunnerMoves
  <2>3. CallFits(h)' /\ LeftIsLost(h, j)'
    BY <2>1, <2>2, IdleFits DEF LeftIsLost, Left
  <2> QED BY <1>0, <1>1, <1>4, <2>0, <2>3, IdleRow, CallGoesOn
<1> QED BY <1>0, <1>3, <1>4 DEF SettleRead

LEMMA AcquireTxKeeps ==
  ASSUME HostInv, Remember, NEW h \in Owner, AcquireTx(h) PROVE HostInv' /\ TableStep
<1>0. PICK j \in Job : j = call[h].job /\ runner[h][j] # "none" /\ CallFits(h) /\ call[h] \in CallRow
  BY Calling DEF AcquireTx, HostInv
<1>1. /\ call[h].op = "acquire" /\ UNCHANGED <<merge, mode, registry, heart>>
      /\ HostShapes /\ TablesInv
  BY Shapes DEF AcquireTx
<1>2. job[j].status = "queued"
  BY <1>0, <1>1 DEF CallFits, Starting
<1>3. CASE /\ Store!AcquireLease(h, j) /\ UNCHANGED runner
           /\ call' = [call EXCEPT ![h] = [call[h] EXCEPT !.op = "start", !.epoch = lease'[j].epoch]]
  <2> DEFINE c == [call[h] EXCEPT !.op = "start", !.epoch = lease'[j].epoch]
  <2>1. QuietStep /\ UNCHANGED <<job, attempt>>
    BY <1>2, <1>3 DEF QuietStep, Store!AcquireLease
  <2>2. lease'[j].epoch \in 0 .. MaxEpoch
    <3>1. TablesInv'
      BY <1>1, <2>1, TablesKeep DEF TableStep
    <3>2. lease'[j].epoch \in Nat /\ lease'[j].epoch <= MaxEpoch
      BY <3>1 DEF TablesInv, LeaseOfRun, Store!StoreInv, Store!TypeOK, Store!Lease
    <3> QED BY <3>2, HostAssumption
  <2>3. c \in CallRow
    BY <1>0, <2>2 DEF CallRow, Starting
  <2>4. c.op = "start" /\ c.job = j /\ c.then = call[h].then /\ c.status = call[h].status
    BY <1>0 DEF CallRow
  <2>5. call' = [call EXCEPT ![h] = c]
    BY <1>3
  <2> HIDE DEF c
  <2>6. call'[h] = c
    BY <1>1, <2>3, <2>5, CallMoves
  <2>7. CallFits(h)'
    BY <1>0, <1>1, <1>2, <1>3, <2>1, <2>4, <2>6 DEF CallFits, Starting, Settling, Merged
  <2>8. LeftIsLost(h, j)' /\ c.op # "refresh"
    BY <2>4, <2>6 DEF LeftIsLost
  <2> QED BY <1>0, <1>1, <1>3, <2>1, <2>3, <2>5, <2>7, <2>8, CallGoesOn
<1>4. CASE Thrown(h) /\ UNCHANGED store
  <2>1. QuietStep /\ UNCHANGED attempt
    BY <1>4 DEF QuietStep, store
  <2>2. LeftIsLost(h, j)'
    BY <1>2, <2>1, NotLeft
  <2>3. call[h].op \in Starting \cup Settling
    BY <1>1 DEF Starting
  <2> QED BY <1>0, <1>1, <1>4, <2>1, <2>2, <2>3, ThrownKeeps
<1> QED BY <1>0, <1>3, <1>4 DEF AcquireTx

LEMMA UnstartTxKeeps ==
  ASSUME HostInv, Remember, NEW h \in Owner, UnstartTx(h) PROVE HostInv' /\ TableStep
<1>0. PICK j \in Job : j = call[h].job /\ runner[h][j] # "none" /\ CallFits(h)
  BY Calling DEF UnstartTx, HostInv
<1>1. /\ call[h].op = "unstart" /\ UNCHANGED <<merge, mode, registry, heart>> /\ Thrown(h)
      /\ call[h].op \in Starting \cup Settling
  BY DEF UnstartTx, Starting
<1>2. job[j].status = "queued"
  BY <1>0, <1>1 DEF CallFits, Starting
<1>3. QuietStep /\ UNCHANGED attempt
  <2>1. CASE Store!ReleaseLease(h, j, call[h].epoch)
    BY <2>1, ReleaseIsQuiet
  <2>2. CASE UNCHANGED store
    BY <2>2 DEF QuietStep, store
  <2> QED BY <1>0, <2>1, <2>2 DEF UnstartTx
<1>4. LeftIsLost(h, j)'
  BY <1>2, <1>3, NotLeft
<1> QED BY <1>0, <1>1, <1>3, <1>4, ThrownKeeps

LEMMA RereadKeeps ==
  ASSUME HostInv, Remember, NEW h \in Owner, Reread(h) PROVE HostInv' /\ TableStep
<1>0. PICK j \in Job : j = call[h].job /\ runner[h][j] # "none" /\ CallFits(h) /\ call[h] \in CallRow
  BY Calling DEF Reread, HostInv
<1>1. /\ call[h].op = "reread" /\ UNCHANGED <<store, merge, mode, registry, runner>>
      /\ QuietStep /\ HostShapes /\ TablesInv
  BY Shapes DEF Reread, QuietStep
<1>2. /\ runner[h][j] = "over" /\ call[h].status \in CallStatus
      /\ j \in Merges /\ call[h].status = "completed" => Merged(j)
  BY <1>0, <1>1 DEF CallFits, Starting, Settling, CallRow
<1>3. CASE /\ job[j].status = "running" /\ heart' = [heart EXCEPT ![h][j] = 0]
           /\ call' = [call EXCEPT ![h] = Terminate(j, "end", TerminalStatus(call[h].status))]
  <2> DEFINE c == Terminate(j, "end", TerminalStatus(call[h].status))
  <2>0. /\ TerminalStatus(call[h].status) \in {"succeeded", "failed", "cancelled"}
        /\ TerminalStatus(call[h].status) \in CallStatus
        /\ TerminalStatus(call[h].status) = "succeeded" => call[h].status = "completed"
    BY <1>2 DEF TerminalStatus, CallStatus, Ended
  <2>1. c \in CallRow
    BY <1>1, <1>3, <2>0, CallRows
  <2>2. /\ c.op = "finish" /\ c.job = j /\ c.then = "end" /\ c.status = TerminalStatus(call[h].status)
        /\ c.attempt = LastAttempt(j) /\ c.epoch = attempt[LastAttempt(j)].epoch
    BY DEF Terminate
  <2>3. call' = [call EXCEPT ![h] = c]
    BY <1>3
  <2> HIDE DEF c
  <2>4. call'[h] = c
    BY <1>1, <2>1, <2>3, CallMoves
  <2>5. c.attempt \in AttemptId /\ attempt'[c.attempt].job = j /\ attempt'[c.attempt].epoch = c.epoch
    BY <1>1, <1>3, <2>2, RunningAttempt DEF store
  <2>6. CallFits(h)'
    BY <1>1, <1>2, <1>3, <2>0, <2>2, <2>4, <2>5 DEF CallFits, Starting, Settling, Merged
  <2>7. LeftIsLost(h, j)' /\ c.op # "refresh"
    BY <2>2, <2>4 DEF LeftIsLost
  <2> QED BY <1>0, <1>1, <1>3, <2>1, <2>3, <2>6, <2>7, CallGoesOn
<1>4. CASE job[j].status # "running" /\ call' = [call EXCEPT ![h] = Idle] /\ UNCHANGED heart
  <2>1. CallFits(h)' /\ Idle.op # "refresh"
    BY <1>1, <1>4, IdleRow, CallMoves, IdleFits DEF Idle
  <2>2. LeftIsLost(h, j)'
    BY <1>1, <1>4, NotLeft DEF store
  <2> QED BY <1>0, <1>1, <1>4, <2>1, <2>2, IdleRow, CallGoesOn
<1> QED BY <1>0, <1>3, <1>4 DEF Reread

LEMMA ReleaseTxKeeps ==
  ASSUME HostInv, Remember, NEW h \in Owner, ReleaseTx(h) PROVE HostInv' /\ TableStep
<1>0. PICK j \in Job : j = call[h].job /\ runner[h][j] # "none" /\ CallFits(h)
  BY Calling DEF ReleaseTx, HostInv
<1>1. /\ call[h].op = "release" /\ UNCHANGED <<merge, mode, registry, heart>>
      /\ HostShapes /\ TablesInv /\ call[h].op \in Starting \cup Settling
  BY Shapes DEF ReleaseTx, Settling
<1>2. job[j].status # "running" /\ (call[h].status = "succeeded" /\ j \in Merges => Merged(j))
  BY <1>0, <1>1 DEF CallFits, IsTerminal, Store!Terminal
<1>3. QuietStep /\ UNCHANGED attempt
  <2>1. CASE Store!ReleaseLease(h, j, call[h].epoch)
    BY <2>1, ReleaseIsQuiet
  <2>2. CASE UNCHANGED store
    BY <2>2 DEF QuietStep, store
  <2> QED BY <1>0, <2>1, <2>2 DEF ReleaseTx
<1>4. LeftIsLost(h, j)'
  BY <1>2, <1>3, NotLeft
<1>5. CASE /\ call' = [call EXCEPT ![h] = Idle]
           /\ IF call[h].then \in {"final", "finalAgain"}
                THEN Moves(h, j, IF call[h].status = "succeeded" THEN "completes" ELSE "fails")
                ELSE UNCHANGED runner
  <2>1. CallFits(h)' /\ Idle.op # "refresh"
    BY <1>1, <1>5, IdleRow, CallMoves, IdleFits DEF Idle
  <2>2. \/ runner' = runner
        \/ \E s \in Step \ {"none", "over"} :
             Moves(h, j, s) /\ (s = "completes" /\ j \in Merges => Merged(j))
    BY <1>2, <1>5 DEF Step
  <2> QED BY <1>0, <1>1, <1>3, <1>4, <1>5, <2>1, <2>2, IdleRow, CallGoesOn
<1>6. CASE Thrown(h)
  BY <1>0, <1>1, <1>3, <1>4, <1>6, ThrownKeeps
<1> QED BY <1>0, <1>5, <1>6 DEF ReleaseTx

LEMMA StartTxKeeps ==
  ASSUME HostInv, Remember, NEW h \in Owner, StartTx(h) PROVE HostInv' /\ TableStep
<1>0. PICK j \in Job : j = call[h].job /\ runner[h][j] # "none" /\ CallFits(h) /\ call[h] \in CallRow
  BY Calling DEF StartTx, HostInv
<1>1. /\ call[h].op = "start" /\ UNCHANGED <<merge, mode, registry, runner>> /\ Up(h)
      /\ HostShapes /\ TablesInv /\ History
  BY Shapes, Remembers DEF StartTx
<1>2. /\ job[j].status = "queued" /\ job[j].version = 1
      /\ \/ call[h].then = "end" /\ runner[h][j] = "over"
         \/ call[h].then = "run" /\ runner[h][j] = "running"
  <2>1. /\ job[j].status = "queued"
        /\ \/ call[h].then = "end" /\ runner[h][j] = "over"
           \/ call[h].then = "run" /\ runner[h][j] = "running"
    BY <1>0, <1>1 DEF CallFits, Starting, Settling
  <2>2. job[j].version = 1
    BY <1>1, <2>1 DEF TablesInv, OneRound, IsTerminal, Store!Terminal
  <2> QED BY <2>1, <2>2
<1>3. heart[h][j] = 0
  BY <1>2 DEF HostInv, BeatsForRun
<1>4. ASSUME NEW a \in AttemptId, Store!StartJob(j, a, h, call[h].epoch, call[h].version), Started(h)
      PROVE  HostInv' /\ TableStep
  <2>1. StartStep(h, j)
    <3>1. lease[j].owner = h /\ lease[j].epoch = call[h].epoch /\ lease[j].epoch \in Nat
      BY <1>1, <1>4, TableTypes DEF Store!StartJob, Store!Holds, TablesInv, Store!Lease
    <3>2. call[h].epoch \in 1 .. MaxEpoch /\ call[h].version = 1
      BY <1>1, <1>2, <1>4, <3>1, HostAssumption DEF TablesInv, LeaseOfRun, Store!StartJob
    <3> QED BY <1>4, <3>2 DEF StartStep
  <2>2. /\ TableStep /\ Onward /\ job'[j].status = "running"
        /\ \A k \in Job \ {j} : job'[k] = job[k]
        /\ \A b \in AttemptId : attempt'[b] = attempt[b] \/ (attempt'[b].owner = h /\ attempt'[b].job = j)
    BY <1>1, <2>1, StartKeeps DEF TableStep
  <2>3. /\ heart' \in [Owner -> [Job -> 0 .. MaxEpoch]]
        /\ \A k \in Job \ {j} : heart'[h][k] = heart[h][k]
        /\ \A g \in Owner \ {h} : heart'[g] = heart[g]
        /\ heart'[h][j] = 0 \/ call[h].then = "run"
    <3>1. CASE call[h].then = "run" /\ heart' = [heart EXCEPT ![h][j] = call[h].epoch]
      <4>1. call[h].epoch \in 0 .. MaxEpoch
        BY <1>0 DEF CallRow
      <4> QED BY <1>1, <3>1, <4>1, HeartMoves
    <3>2. CASE heart' = heart
      BY <1>1, <1>3, <3>2 DEF HostShapes
    <3> QED BY <1>0, <1>4, <3>1, <3>2 DEF Started
  <2>4. /\ call' \in [Owner -> CallRow] /\ call'[h].op # "refresh"
        /\ \A g \in Owner \ {h} : call'[g] = call[g]
        /\ CallFits(h)' /\ (call[h].then = "end" => call'[h].op = "reread" /\ call'[h].job = j)
    <3>1. CASE call[h].then = "run" /\ call' = [call EXCEPT ![h] = Idle]
      <4>1. /\ call' \in [Owner -> CallRow] /\ call'[h] = Idle
            /\ \A g \in Owner \ {h} : call'[g] = call[g]
        BY <1>1, <3>1, IdleRow, CallMoves
      <4> QED BY <3>1, <4>1, IdleFits DEF Idle
    <3>2. CASE call[h].then = "end" /\ call' = [call EXCEPT ![h].op = "reread"]
      <4>0. GoesOn(h, "reread")
        BY <3>2 DEF GoesOn, Ops
      <4>1. PICK c \in CallRow : /\ call' = [call EXCEPT ![h] = c] /\ c.op = "reread" /\ c.job = j
                                 /\ c.then = call[h].then /\ c.status = call[h].status
        BY <1>0, <1>1, <4>0, OpMoves
      <4>2. /\ call' \in [Owner -> CallRow] /\ call'[h] = c
            /\ \A g \in Owner \ {h} : call'[g] = call[g]
        BY <1>1, <4>1, CallMoves
      <4>3. CallFits(h)'
        BY <1>0, <1>1, <1>2, <3>2, <4>1, <4>2 DEF CallFits, Starting, Settling, Merged
      <4> QED BY <4>1, <4>2, <4>3
    <3> QED BY <1>0, <1>2, <1>4, <3>1, <3>2 DEF Started
  <2>5. BeatsForRun(h, j)' /\ LeftIsLost(h, j)'
    BY <1>1, <1>2, <2>2, <2>3, <2>4 DEF BeatsForRun, LeftIsLost, Left
  <2>6. HostShapes' /\ mode' = mode
    BY <1>1, <2>3, <2>4 DEF HostShapes
  <2>7. j \in Merges => (runner'[h][j] = "completes" => Merged(j)')
    BY <1>1 DEF HostInv, Merged
  <2>8. \A b \in AttemptId : attempt[b].status = "absent" /\ attempt'[b].status # "absent" =>
          attempt'[b].owner = h /\ attempt'[b].job = j
    BY <2>2
  <2> QED BY <1>0, <1>1, <2>2, <2>3, <2>4, <2>5, <2>6, <2>7, <2>8, Mine, JobKeeps
<1>5. CASE call' = [call EXCEPT ![h].op = "unstart"] /\ UNCHANGED <<store, heart, runner>>
  <2>0. GoesOn(h, "unstart")
    BY <1>5 DEF GoesOn, Ops, Starting
  <2>1. PICK c \in CallRow : /\ call' = [call EXCEPT ![h] = c] /\ c.op = "unstart" /\ c.job = j
                             /\ c.then = call[h].then /\ c.status = call[h].status
    BY <1>0, <1>1, <2>0, OpMoves
  <2>2. call'[h] = c
    BY <1>1, <2>1, CallMoves
  <2>3. QuietStep /\ UNCHANGED job
    BY <1>5 DEF QuietStep, store
  <2>4. CallFits(h)'
    BY <1>0, <1>1, <1>2, <2>1, <2>2, <2>3 DEF CallFits, Starting, Settling, Merged
  <2>5. LeftIsLost(h, j)' /\ c.op # "refresh"
    BY <2>1, <2>2 DEF LeftIsLost
  <2> QED BY <1>0, <1>1, <1>5, <2>1, <2>3, <2>4, <2>5, CallGoesOn
<1> QED BY <1>0, <1>4, <1>5 DEF StartTx

LEMMA FinishTxKeeps ==
  ASSUME HostInv, Remember, NEW h \in Owner, FinishTx(h) PROVE HostInv' /\ TableStep
<1>0. PICK j \in Job : j = call[h].job /\ runner[h][j] # "none" /\ CallFits(h) /\ call[h] \in CallRow
  BY Calling DEF FinishTx, HostInv
<1>1. /\ call[h].op = "finish" /\ UNCHANGED <<merge, mode, registry, heart>> /\ Up(h)
      /\ HostShapes /\ TablesInv /\ History /\ call[h].op \in Starting \cup Settling
  BY Shapes, Remembers DEF FinishTx, Settling
<1> DEFINE a == call[h].attempt
           s == call[h].status
           e == call[h].epoch
<1>2. /\ a \in AttemptId /\ attempt[a].job = j /\ attempt[a].epoch = e /\ s \in Outcomes
      /\ \/ call[h].then = "end" /\ runner[h][j] = "over"
         \/ call[h].then \in {"final", "finalAgain"} /\ runner[h][j] = "merging"
      /\ j \in Merges => /\ s = "succeeded" => Merged(j)
                         /\ s = "partial" => merge[j] = "blocked"
  BY <1>0, <1>1 DEF CallFits, Starting, Settling, Outcomes
<1>3. a \in AttemptsOf(j) /\ attempt[a].number = 1 /\ AttemptsOf(j) = {a}
  BY <1>1, <1>2, OneAttempt DEF AttemptsOf
<1>4. CASE /\ Store!FinishJob(j, a, h, e, s, CompletionOfRun(j, attempt[a].number),
                call[h].version, call[h].attemptVersion, FALSE)
           /\ call' = [call EXCEPT ![h].op = "release"] /\ UNCHANGED runner
  <2>1. /\ e \in 1 .. MaxEpoch
        /\ Store!FinishJob(j, a, h, e, s, CompletionOfRun(j, 1), 2, 1, FALSE)
    <3>1. /\ lease[j].owner = h /\ lease[j].epoch = e /\ lease[j].epoch \in Nat
          /\ job[j].status = "running" /\ attempt[a].status = "running"
          /\ call[h].version = job[j].version /\ call[h].attemptVersion = attempt[a].version
      BY <1>1, <1>4, TableTypes DEF Store!FinishJob, Store!Holds, TablesInv, Store!Lease
    <3>2. e \in 1 .. MaxEpoch /\ attempt[a].version = 1
      BY <1>1, <1>2, <3>1, HostAssumption DEF TablesInv, LeaseOfRun, OneRound
    <3>3. job[j].version = 2
      BY <1>1, <3>1 DEF TablesInv, OneRound, IsTerminal, Store!Terminal
    <3> QED BY <1>3, <1>4, <3>1, <3>2, <3>3
  <2> HIDE DEF a, s, e
  <2>2. SettleStep(h, j)
    BY <1>2, <2>1 DEF SettleStep
  <2>3. TableStep /\ Onward
    BY <1>1, <2>2, TablesKeep DEF TableStep
  <2>4. /\ job'[j].status = s /\ \A k \in Job \ {j} : job'[k] = job[k]
        /\ \A b \in AttemptId : attempt[b].status = "absent" => attempt'[b].status = "absent"
    BY <1>1, <1>2, <2>1, SettleKeeps
  <2>4a. GoesOn(h, "release")
    BY <1>4 DEF GoesOn, Ops, Settling
  <2>5. PICK c \in CallRow : /\ call' = [call EXCEPT ![h] = c] /\ c.op = "release" /\ c.job = j
                             /\ c.then = call[h].then /\ c.status = s
    BY <1>0, <1>1, <2>4a, OpMoves DEF s
  <2>6. /\ call' \in [Owner -> CallRow] /\ call'[h] = c
        /\ \A g \in Owner \ {h} : call'[g] = call[g]
    BY <1>1, <2>5, CallMoves
  <2>7. IsTerminal(j)' /\ job'[j].status \notin {"absent", "running", "queued"}
    BY <1>2, <2>4 DEF IsTerminal, Store!Terminal, Outcomes
  <2>8. CallFits(h)'
    BY <1>1, <1>2, <1>4, <2>5, <2>6, <2>7 DEF CallFits, Starting, Settling, Merged, Outcomes
  <2>9. BeatsForRun(h, j)' /\ LeftIsLost(h, j)'
    BY <2>5, <2>6, <2>7 DEF BeatsForRun, LeftIsLost
  <2>10. HostShapes' /\ mode' = mode
    BY <1>1, <1>4, <2>6 DEF HostShapes
  <2>11. j \in Merges => /\ job'[j].status = "succeeded" => Merged(j)'
                         /\ job'[j].status = "partial" => merge'[j] = "blocked"
                         /\ runner'[h][j] = "completes" => Merged(j)'
    BY <1>1, <1>2, <1>4, <2>4 DEF Merged
  <2> QED BY <1>0, <1>1, <1>4, <2>3, <2>4, <2>5, <2>6, <2>7, <2>8, <2>9, <2>10, <2>11, Mine, JobKeeps
<1>5. CASE Thrown(h) /\ UNCHANGED store
  <2>1. QuietStep /\ UNCHANGED <<lease, job, attempt>>
    BY <1>5 DEF QuietStep, store
  <2>2. ASSUME call[h].then = "end" PROVE LeftIsLost(h, j)'
    <3> SUFFICES ASSUME Left(h, j)' PROVE call'[h].op # "refresh" /\ ~Store!Live(j)'
      BY DEF LeftIsLost
    <3>1. call'[h] = Idle
      BY <1>1, <1>5, <2>2, IdleRow, CallMoves DEF Thrown
    <3>2. PICK b \in AttemptId : attempt[b].status = "running" /\ attempt[b].job = j /\ attempt[b].owner = h
      BY <2>1 DEF Left
    <3>3. b = a
      BY <1>3, <3>2 DEF AttemptsOf
    <3>4. lease[j].owner = h /\ lease[j].epoch = e
      BY <1>1, <1>2, <3>2, <3>3 DEF TablesInv, LeaseOfRun
    <3>5. <<h, j>> \notin unrecorded'
      BY DEF Left
    <3>6. ~Store!Holds(h, j, e)
      BY <1>0, <1>1, <2>2, <3>1, <3>5 DEF Remember, Refused, Idle
    <3>7. ~Store!Live(j)'
      BY <2>1, <3>4, <3>6 DEF Store!Holds, Store!Live
    <3> QED BY <3>1, <3>7 DEF Idle
  <2> QED BY <1>0, <1>1, <1>5, <2>1, <2>2, ThrownKeeps
<1> QED BY <1>0, <1>4, <1>5 DEF FinishTx

\* A host acts on no job.
LEMMA HostKeeps ==
  ASSUME HostInv, Remember, QuietStep, HostShapes', NEW h \in Owner, merge' = merge,
         \A g \in Owner \ {h} : /\ mode'[g] = mode[g] /\ heart'[g] = heart[g]
                                /\ runner'[g] = runner[g] /\ call'[g] = call[g],
         \A k \in Job : /\ runner'[h][k] \in {"none", runner[h][k]}
                        /\ runner'[h][k] # "none" => Up(h)'
                        /\ BeatsForRun(h, k)' /\ LeftIsLost(h, k)',
         RunsItsOwn(h)', CallFits(h)'
  PROVE  HostInv' /\ TableStep
<1>1. History /\ TablesInv /\ Quiet /\ TableStep
  BY Shapes, Remembers, QuietKeeps DEF TableStep
<1>2. /\ NoJob \in Job \cup {NoJob} /\ NoJob \notin Job /\ NoJob \notin Merges
      /\ \A g \in Owner \ {h} : /\ mode'[g] = mode[g] /\ heart'[g] = heart[g]
                                /\ runner'[g] = runner[g] /\ call'[g] = call[g]
                                /\ NoJob \in Job => runner[g][NoJob] = "none"
  BY HostAssumption
<1>3. \A k \in Job \ {NoJob} : /\ merge'[k] = merge[k]
                               /\ job[k].status = "queued" => job'[k].status = "queued"
                               /\ job'[k].status \in {"succeeded", "partial"} => job'[k].status = job[k].status
                               /\ runner'[h][k] \in {"none", runner[h][k]}
  BY <1>1 DEF Quiet
<1>4. \A g \in Owner \ {h}, k \in Job : NoneNew(g, k)
  BY <1>1 DEF Quiet, NoneNew
<1>5. \A k \in Job : BeatsForRun(h, k)' /\ LeftIsLost(h, k)'
  OBVIOUS
<1>6. \A k \in Job : runner'[h][k] # "none" => Up(h)'
  OBVIOUS
<1> QED BY <1>1, <1>2, <1>3, <1>4, <1>5, <1>6, HostActs

LEMMA RefreshKeeps ==
  ASSUME HostInv, Remember, NEW h \in Owner, Refresh(h) PROVE HostInv' /\ TableStep
<1>1. /\ call[h].op = "refresh" /\ Up(h) /\ UNCHANGED <<store, merge, mode, runner>>
      /\ UNCHANGED <<lease, job, attempt>>
      /\ HostShapes /\ TablesInv /\ History /\ QuietStep /\ TableStep
  BY Shapes, Remembers DEF Refresh, QuietStep, TableStep, store
<1>2. /\ call' \in [Owner -> CallRow] /\ call'[h] = Idle /\ CallFits(h)'
      /\ \A g \in Owner \ {h} : call'[g] = call[g]
  BY <1>1, IdleRow, CallMoves, IdleFits DEF Refresh
<1>3. registry' \in [Owner -> [Job -> [status : Shown, version : 0 .. MaxVersion]]]
  <2> DEFINE new == [j \in Job |-> IF job[j].status # "absent" THEN Materialized(j) ELSE registry[h][j]]
  <2>1. ASSUME NEW j \in Job PROVE Materialized(j) \in [status : Shown, version : 0 .. MaxVersion]
    <3>1. job[j].version \in {0, 1, 2, 3}
      BY <1>1, Zenon DEF TablesInv, OneRound
    <3>2. job[j].version \in 0 .. MaxVersion
      BY <3>1, HostAssumption
    <3>3. ShownAs(job[j].status) \in Shown
      BY DEF ShownAs, Shown, Ended
    <3> QED BY <3>2, <3>3 DEF Materialized
  <2>2. new \in [Job -> [status : Shown, version : 0 .. MaxVersion]]
    BY <1>1, <2>1 DEF HostShapes
  <2>3. registry' = [registry EXCEPT ![h] = new]
    BY DEF Refresh
  <2> HIDE DEF new
  <2> QED BY <1>1, <2>2, <2>3 DEF HostShapes
<1>4. /\ heart' \in [Owner -> [Job -> 0 .. MaxEpoch]]
      /\ \A g \in Owner \ {h} : heart'[g] = heart[g]
      /\ \A j \in Job : \/ heart'[h][j] \in {0, heart[h][j]}
                        \/ job[j].status = "running" /\ attempt[LastAttempt(j)].owner = h
  <2> DEFINE new == [j \in Job |-> IF job[j].status # "absent" THEN BeatAfter(h, j) ELSE heart[h][j]]
  <2>1. ASSUME NEW j \in Job
        PROVE  /\ new[j] \in 0 .. MaxEpoch
               /\ \/ new[j] \in {0, heart[h][j]}
                  \/ job[j].status = "running" /\ attempt[LastAttempt(j)].owner = h
    <3>1. 0 \in 0 .. MaxEpoch /\ heart[h][j] \in 0 .. MaxEpoch
      BY <1>1, HostAssumption DEF HostShapes
    <3>2. job[j].status = "running" => attempt[LastAttempt(j)].epoch \in 0 .. MaxEpoch
      BY <1>1, RunningAttempt
    <3>3. new[j] = heart[h][j] \/ new[j] = BeatAfter(h, j)
      OBVIOUS
    <3> HIDE DEF new
    <3> QED BY <3>1, <3>2, <3>3 DEF BeatAfter
  <2>2. new \in [Job -> 0 .. MaxEpoch]
    BY <2>1
  <2>3. heart' = [heart EXCEPT ![h] = new]
    BY DEF Refresh
  <2> HIDE DEF new
  <2> QED BY <1>1, <2>1, <2>2, <2>3 DEF HostShapes
<1>5. HostShapes' /\ Up(h)'
  BY <1>1, <1>2, <1>3, <1>4 DEF HostShapes, Up
<1>6. Onward /\ TablesInv' /\ unrecorded \subseteq unrecorded' /\ \A g \in Owner, k \in Job : NoneNew(g, k)
  BY <1>1, TablesKeep DEF History, NoneNew
<1>7. ASSUME NEW k \in Job PROVE BeatsForRun(h, k)' /\ LeftIsLost(h, k)'
  <2>1. ~Left(h, k) /\ ~Left(h, k)'
    <3>1. ~Left(h, k)
      BY <1>1 DEF HostInv, LeftIsLost
    <3> QED BY <1>1, <1>6, <3>1 DEF Left
  <2>2. CASE heart'[h][k] \in {0, heart[h][k]}
    BY <1>1, <1>6, <2>1, <2>2, BeatStays DEF LeftIsLost
  <2>3. CASE job[k].status = "running" /\ attempt[LastAttempt(k)].owner = h
    <3>1. /\ LastAttempt(k) \in AttemptId /\ attempt[LastAttempt(k)].job = k
          /\ attempt[LastAttempt(k)].status = "running"
      BY <1>1, <2>3, RunningAttempt
    <3>2. runner[h][k] # "none"
      BY <1>1, <2>3, <3>1 DEF HostInv, RunsItsOwn
    <3>3. <<h, k>> \notin unrecorded' => runner[h][k] # "over"
      BY <1>6, <2>1, <2>3, <3>1 DEF Left
    <3> QED BY <1>1, <2>1, <2>3, <3>2, <3>3 DEF BeatsForRun, LeftIsLost
  <2> QED BY <1>4, <2>2, <2>3
<1>8. RunsItsOwn(h)'
  BY <1>1, <1>5, <1>6, OwnStays
<1> QED BY <1>1, <1>2, <1>4, <1>5, <1>7, <1>8, HostKeeps

-----------------------------------------------------------------------------
(* Processes and their timers.                                             *)

\* What interruptExpiredJobs does, or leaves when no owner is lost.
LEMMA InterruptIsQuiet == ASSUME InterruptLost PROVE QuietStep
BY DEF InterruptLost, QuietStep

\* It interrupts every job a host without a call has lost.
LEMMA NothingLeft ==
  ASSUME HostInv, History, InterruptLost, NEW h \in Owner, NEW k \in Job,
         call[h] = Idle, runner' = runner
  PROVE  ~Left(h, k)'
<1> SUFFICES ASSUME Left(h, k)' PROVE FALSE
  OBVIOUS
<1>0. TablesInv /\ TablesInv' /\ Onward /\ Quiet
  BY Shapes, InterruptIsQuiet, QuietKeeps, TablesKeep DEF TableStep
<1>1. PICK a \in AttemptId : attempt'[a].status = "running" /\ attempt'[a].job = k /\ attempt'[a].owner = h
  BY DEF Left
<1>2. attempt[a].status = "running" /\ attempt[a].job = k /\ attempt[a].owner = h
  BY <1>0, <1>1 DEF Onward, Quiet
<1>3. Left(h, k)
  BY <1>2 DEF Left, History
<1>4. ~Store!Live(k)
  BY <1>3, HostAssumption DEF HostInv, LeftIsLost, Idle
<1>5. job[k].status = "running" /\ k \in Store!OwnerLost
  BY <1>0, <1>2, <1>4, TableTypes DEF TablesInv, Store!OwnerLost, Store!RunningOf
<1>6. job'[k].status = "interrupted"
  BY <1>5 DEF InterruptLost, Store!InterruptExpiredJobs, Store!InterruptedJob
<1>7. job'[k].status = "running"
  <2>1. Store!JobAgreesWithAttempts'
    BY <1>0 DEF TablesInv, Store!StoreInv
  <2> QED BY <1>1, <2>1 DEF Store!JobAgreesWithAttempts, Store!RunningOf
<1> QED BY <1>6, <1>7

\* The call that goes on to refresh the registry.
LEMMA RefreshCall ==
  ASSUME HostShapes, NEW h \in Owner, call[h] = Idle, call' = [call EXCEPT ![h].op = "refresh"]
  PROVE  /\ call' \in [Owner -> CallRow] /\ CallFits(h)' /\ call'[h].op = "refresh"
         /\ \A g \in Owner \ {h} : call'[g] = call[g]
<1>1. [Idle EXCEPT !.op = "refresh"] \in CallRow
  BY IdleRow DEF CallRow
<1>2. call' = [call EXCEPT ![h] = [Idle EXCEPT !.op = "refresh"]]
  BY DEF HostShapes
<1>3. [Idle EXCEPT !.op = "refresh"].op = "refresh"
  BY DEF Idle
<1>4. call'[h] = [Idle EXCEPT !.op = "refresh"]
  BY <1>1, <1>2, CallMoves
<1> QED BY <1>1, <1>2, <1>3, <1>4, CallMoves DEF CallFits

LEMMA ReconcilesKeeps ==
  ASSUME HostInv, Remember, NEW h \in Owner, Reconciles(h) PROVE HostInv' /\ TableStep
<1>1. /\ InterruptLost /\ QuietStep /\ HostShapes /\ History /\ Up(h) /\ call[h] = Idle
      /\ UNCHANGED <<merge, mode, registry, heart, runner>>
  BY Shapes, Remembers, InterruptIsQuiet DEF Reconciles, IsIdle
<1>2. /\ call' \in [Owner -> CallRow] /\ CallFits(h)' /\ call'[h].op = "refresh"
      /\ \A g \in Owner \ {h} : call'[g] = call[g]
  BY <1>1, RefreshCall DEF Reconciles
<1>3. HostShapes' /\ Up(h)'
  BY <1>1, <1>2 DEF HostShapes, Up
<1>4. TablesInv' /\ Onward /\ unrecorded \subseteq unrecorded' /\ \A g \in Owner, k \in Job : NoneNew(g, k)
  BY <1>1, Shapes, QuietKeeps, TablesKeep DEF TableStep, History, NoneNew, Quiet
<1>5. ASSUME NEW k \in Job PROVE BeatsForRun(h, k)' /\ LeftIsLost(h, k)'
  BY <1>1, <1>4, BeatStays, NothingLeft DEF LeftIsLost
<1>6. RunsItsOwn(h)'
  BY <1>1, <1>3, <1>4, OwnStays
<1> QED BY <1>1, <1>2, <1>3, <1>5, <1>6, HostKeeps

LEMMA ReconcileTxKeeps ==
  ASSUME HostInv, Remember, NEW h \in Owner, ReconcileTx(h) PROVE HostInv' /\ TableStep
<1>1. CASE UNCHANGED <<store, merge, mode, registry, heart, runner, call>>
  <2>1. History /\ QuietStep /\ HostShapes /\ HostShapes'
    BY <1>1, Shapes, Remembers DEF QuietStep, HostShapes
  <2> QED BY <1>1, <2>1, NobodyActs DEF TableStep
<1> QED BY <1>1, ReconcilesKeeps DEF ReconcileTx

LEMMA BootKeeps ==
  ASSUME HostInv, Remember, NEW h \in Owner, Boot(h) PROVE HostInv' /\ TableStep
<1>1. /\ InterruptLost /\ QuietStep /\ HostShapes /\ History /\ mode[h] = "unborn" /\ ~Up(h)
      /\ UNCHANGED <<merge, registry, heart, runner>> /\ mode' = [mode EXCEPT ![h] = "open"]
  BY Shapes, Remembers, InterruptIsQuiet DEF Boot, Up
<1>2. call[h] = Idle /\ \A k \in Job : runner[h][k] = "none"
  BY <1>1 DEF HostInv, RunsItsOwn, OneRunner
<1>3. /\ call' \in [Owner -> CallRow] /\ CallFits(h)' /\ call'[h].op = "refresh"
      /\ \A g \in Owner \ {h} : call'[g] = call[g]
  BY <1>1, <1>2, RefreshCall DEF Boot
<1>4. HostShapes' /\ Up(h)' /\ \A g \in Owner \ {h} : mode'[g] = mode[g]
  BY <1>1, <1>3 DEF HostShapes, Up
<1>5. /\ TablesInv /\ TablesInv' /\ Onward /\ Quiet /\ unrecorded \subseteq unrecorded'
  BY <1>1, Shapes, QuietKeeps, TablesKeep DEF TableStep, History
<1>6. ASSUME NEW k \in Job PROVE BeatsForRun(h, k)' /\ LeftIsLost(h, k)'
  BY <1>1, <1>2, <1>5, BeatStays DEF LeftIsLost, Left
<1>7. RunsItsOwn(h)'
  <2> SUFFICES ASSUME NEW a \in AttemptId, attempt'[a].status # "absent", attempt'[a].owner = h
               PROVE  FALSE
    BY <1>4 DEF RunsItsOwn
  <2>1. attempt[a].status # "absent" /\ attempt[a].owner = h
    BY <1>5 DEF Quiet, Onward
  <2> QED BY <1>1, <2>1 DEF HostInv, RunsItsOwn
<1> QED BY <1>1, <1>3, <1>4, <1>6, <1>7, HostKeeps

\* A process that is gone has nothing left outside the store.
LEMMA GoneKeeps ==
  ASSUME HostInv, Remember, NEW h \in Owner, Gone(h) PROVE HostInv' /\ TableStep
<1>1. /\ QuietStep /\ HostShapes /\ History /\ merge' = merge
      /\ mode' = [mode EXCEPT ![h] = "dead"]
      /\ registry' = [registry EXCEPT ![h] = [j \in Job |-> Unseen]]
      /\ heart' = [heart EXCEPT ![h] = [j \in Job |-> 0]]
      /\ runner' = [runner EXCEPT ![h] = [j \in Job |-> "none"]]
      /\ call' = [call EXCEPT ![h] = Idle]
  BY Shapes, Remembers DEF Gone, QuietStep
<1>2. /\ call' \in [Owner -> CallRow] /\ CallFits(h)' /\ call'[h] = Idle
      /\ \A g \in Owner \ {h} : call'[g] = call[g]
  BY <1>1, IdleRow, CallMoves, IdleFits
<1>3. /\ [j \in Job |-> Unseen] \in [Job -> [status : Shown, version : 0 .. MaxVersion]]
      /\ [j \in Job |-> 0] \in [Job -> 0 .. MaxEpoch]
      /\ [j \in Job |-> "none"] \in [Job -> Step]
  BY HostAssumption DEF Unseen, Shown, Step
<1>4. /\ registry' \in [Owner -> [Job -> [status : Shown, version : 0 .. MaxVersion]]]
      /\ heart' \in [Owner -> [Job -> 0 .. MaxEpoch]] /\ runner' \in [Owner -> [Job -> Step]]
      /\ mode' \in [Owner -> {"unborn", "open", "closing", "dead"}]
  BY <1>1, <1>3 DEF HostShapes
<1>5. HostShapes'
  BY <1>1, <1>2, <1>4 DEF HostShapes
<1>6. /\ mode'[h] = "dead" /\ \A j \in Job : heart'[h][j] = 0 /\ runner'[h][j] = "none"
      /\ \A g \in Owner \ {h} : /\ mode'[g] = mode[g] /\ heart'[g] = heart[g]
                                /\ runner'[g] = runner[g]
  BY <1>1 DEF HostShapes
<1>7. /\ TablesInv' /\ Onward /\ \A g \in Owner, k \in Job : NoneNew(g, k)
  BY <1>1, Shapes, QuietKeeps, TablesKeep DEF TableStep, NoneNew, Quiet
<1>8. RunsItsOwn(h)'
  BY <1>2, <1>6, <1>7, OwnStays DEF Up
<1>9. \A k \in Job : BeatsForRun(h, k)' /\ LeftIsLost(h, k)'
  BY <1>6 DEF BeatsForRun, LeftIsLost, Left
<1> QED BY <1>1, <1>2, <1>5, <1>6, <1>8, <1>9, HostKeeps

LEMMA CloseKeeps ==
  ASSUME HostInv, Remember, NEW h \in Owner, Close(h) PROVE HostInv' /\ TableStep
<1>1. /\ QuietStep /\ HostShapes /\ History /\ Up(h) /\ UNCHANGED <<merge, registry, heart, runner, call>>
      /\ mode' = [mode EXCEPT ![h] = "closing"]
  BY Shapes, Remembers DEF Close, QuietStep, Up
<1>2. HostShapes' /\ Up(h)' /\ mode'[h] # "unborn" /\ \A g \in Owner \ {h} : mode'[g] = mode[g]
  BY <1>1 DEF HostShapes, Up
<1>3. /\ TablesInv' /\ Onward /\ Quiet /\ unrecorded \subseteq unrecorded'
      /\ \A g \in Owner, k \in Job : NoneNew(g, k)
  BY <1>1, Shapes, QuietKeeps, TablesKeep DEF TableStep, NoneNew, Quiet, History
<1>4. ASSUME NEW k \in Job PROVE BeatsForRun(h, k)' /\ LeftIsLost(h, k)'
  BY <1>1, <1>3, BeatStays, LeftStays
<1>5. CallFits(h)'
  BY <1>1, <1>3, CallStays DEF Quiet
<1>6. RunsItsOwn(h)'
  BY <1>1, <1>2, <1>3, OwnStays
<1> QED BY <1>1, <1>2, <1>4, <1>5, <1>6, HostKeeps

-----------------------------------------------------------------------------
(* The theorems.                                                           *)

LEMMA InitHolds == Init => HostInv
<1> SUFFICES ASSUME Init PROVE HostInv
  OBVIOUS
<1>1. Store!StoreInv
  BY TableAssumption, Tables!StoreInit, SameInit, SameInvariant DEF Init
<1>2. /\ lease = [j \in Job |-> Store!NoLease] /\ job = [j \in Job |-> Store!NoJobRow]
      /\ attempt = [a \in AttemptId |-> Store!NoAttemptRow]
  BY DEF Init, Store!Init
<1>3. \A a \in AttemptId : attempt[a].status = "absent"
  BY <1>2 DEF Store!NoAttemptRow
<1>4. \A j \in Job : job[j].status = "absent" /\ job[j].version = 0
  BY <1>2 DEF Store!NoJobRow
<1>5. \A j \in Job : lease[j].owner = NoOwner /\ lease[j].epoch = 0
  BY <1>2 DEF Store!NoLease
<1>6. OneRound /\ LeaseOfRun
  BY <1>3, <1>4, <1>5, HostAssumption DEF OneRound, LeaseOfRun
<1>7. TypeOK /\ call \in [Owner -> CallRow]
  <2>1. Store!TypeOK
    BY <1>1 DEF Store!StoreInv
  <2>2. Unseen \in [status : Shown, version : 0 .. MaxVersion] /\ 0 \in 0 .. MaxEpoch
    BY HostAssumption DEF Unseen, Shown
  <2>3. registry \in [Owner -> [Job -> [status : Shown, version : 0 .. MaxVersion]]]
    BY <2>2 DEF Init
  <2> QED BY <2>1, <2>2, <2>3, IdleRow DEF Init, TypeOK, Step, Idle
<1>8. SuccessIsMerged /\ OneRunner
  BY <1>4, HostAssumption DEF Init, SuccessIsMerged, OneRunner
<1>9. \A h \in Owner : RunsItsOwn(h) /\ CallFits(h)
  BY <1>3 DEF Init, RunsItsOwn, CallFits, Idle
<1>10. \A h \in Owner, j \in Job : BeatsForRun(h, j) /\ LeftIsLost(h, j)
  BY DEF Init, BeatsForRun, LeftIsLost, Left
<1>11. \A h \in Owner, j \in Merges : runner[h][j] = "completes" => Merged(j)
  BY HostAssumption DEF Init
<1> QED BY <1>1, <1>6, <1>7, <1>8, <1>9, <1>10, <1>11 DEF HostInv

\* Every step of the hosts keeps the invariant, and is a step of the tables.
LEMMA NextKeeps == ASSUME HostInv, [Next]_vars PROVE HostInv' /\ TableStep
<1>1. CASE UNCHANGED vars
  <2>1. UNCHANGED store /\ UNCHANGED <<merge, mode, registry, heart, runner, call, unrecorded>>
    BY <1>1 DEF vars
  <2>2. History /\ QuietStep /\ HostShapes /\ HostShapes'
    BY <2>1, Shapes DEF QuietStep, HostShapes, History, HostInv, TypeOK
  <2> QED BY <2>1, <2>2, NobodyActs DEF TableStep
<1>2. ASSUME Remember, Tick PROVE HostInv' /\ TableStep
  <2>1. History /\ QuietStep /\ HostShapes /\ HostShapes'
    BY <1>2, Shapes, Remembers DEF Tick, QuietStep, HostShapes
  <2> QED BY <1>2, <2>1, NobodyActs DEF Tick, TableStep
<1>3. ASSUME Remember, NEW h \in Owner, CallStep(h) PROVE HostInv' /\ TableStep
  BY <1>3, SettleReadKeeps, AcquireTxKeeps, StartTxKeeps, UnstartTxKeeps, RereadKeeps,
     FinishTxKeeps, ReleaseTxKeeps, RefreshKeeps DEF CallStep
<1>4. ASSUME Remember, NEW h \in Owner,
             ReconcileTx(h) \/ Boot(h) \/ Crash(h) \/ Close(h) \/ Release(h)
      PROVE  HostInv' /\ TableStep
  BY <1>4, ReconcileTxKeeps, BootKeeps, GoneKeeps, CloseKeeps DEF Crash, Release
<1>5. ASSUME Remember, NEW h \in Owner, NEW j \in Job, TaskStep(h, j) PROVE HostInv' /\ TableStep
  BY <1>5, SubmitKeeps, RunTaskKeeps, TaskFailsKeeps, TaskReturnsKeeps, MergeBeginsKeeps,
     MergeEndsKeeps, FinishTaskKeeps, BeatKeeps DEF TaskStep
<1> QED BY <1>1, <1>2, <1>3, <1>4, <1>5 DEF Next

\* What hosts know of the tables stays true, whatever other hosts do.
THEOREM HostInvariant == Spec => []HostInv
<1>1. HostInv /\ [Next]_vars => HostInv'
  BY NextKeeps
<1> QED BY <1>1, InitHolds, PTL DEF Spec

\* The states of the hosts, and the rows they write, keep their shapes.
THEOREM HostTypes == Spec => []TypeOK
<1>1. HostInv => TypeOK
  BY DEF HostInv
<1> QED BY <1>1, HostInvariant, PTL

\* A merge_to_host job that is recorded as succeeded has been merged, and one
\* recorded as partial is blocked, whatever failed or crashed on the way.
THEOREM SuccessMeansMerged == Spec => []SuccessIsMerged
<1>1. HostInv => SuccessIsMerged
  BY DEF HostInv
<1> QED BY <1>1, HostInvariant, PTL

\* No host renews the lease of a task of its own that is over.
THEOREM NoZombies == Spec => []NoZombie
<1>1. HostInv => NoZombie
  BY DEF HostInv, NoZombie, BeatsForRun
<1> QED BY <1>1, HostInvariant, PTL

\* A job has one runner, which is a living process.
THEOREM RunnersAreAlone == Spec => []OneRunner
<1>1. HostInv => OneRunner
  BY DEF HostInv
<1> QED BY <1>1, HostInvariant, PTL

\* The hosts call the tables as JobStore allows, at every step.
THEOREM HostsImplementStore == Spec => ImplementsStore
<1>1. Init => Store!Init
  BY DEF Init
<1>2. HostInv /\ [Next]_vars => [Store!Next]_(Store!vars)
  BY NextKeeps, TableStepIsNext, Shapes
<1> QED BY <1>1, <1>2, HostInvariant, PTL DEF Spec, ImplementsStore, Store!Spec

\* The tables the hosts write agree with each other.
THEOREM HostTables == Spec => []Store!StoreInv
<1>1. HostInv => Store!StoreInv
  BY DEF HostInv
<1> QED BY <1>1, HostInvariant, PTL

\* No host rewrites an attempt that ended or a completion that is published.
THEOREM HostsKeepEnds == Spec => Store!EndedForGood
<1>1. HostInv /\ [Next]_vars => [Store!KeepsWhatEnded]_(Store!vars)
  <2> SUFFICES ASSUME HostInv, [Next]_vars, ~(UNCHANGED Store!vars) PROVE Store!KeepsWhatEnded
    OBVIOUS
  <2>1. Tables!Next /\ Tables!TypeOK
    BY NextKeeps, TableStepIsNext, Shapes, SameSteps, SameInvariant
       DEF TablesInv, Tables!StoreInv
  <2>2. Tables!KeepsWhatEnded
    BY <2>1, TableAssumption, Tables!StepKeepsWhatEnded
  <2> QED BY <2>2 DEF Tables!KeepsWhatEnded, Store!KeepsWhatEnded, Tables!Terminal, Store!Terminal
<1> QED BY <1>1, HostInvariant, PTL DEF Spec, Store!EndedForGood

\* No host settles an attempt but under the live lease of its job.
THEOREM HostsSettleUnderLease == Spec => Store!OnlyLeaseHolderSettles
<1>1. HostInv /\ [Next]_vars => [Store!SettlesByHolder]_(Store!vars)
  <2> SUFFICES ASSUME HostInv, [Next]_vars, ~(UNCHANGED Store!vars) PROVE Store!SettlesByHolder
    OBVIOUS
  <2>1. Tables!Next /\ Tables!TypeOK
    BY NextKeeps, TableStepIsNext, Shapes, SameSteps, SameInvariant
       DEF TablesInv, Tables!StoreInv
  <2>2. Tables!SettlesByHolder
    BY <2>1, TableAssumption, Tables!StepSettlesByHolder
  <2> QED BY <2>2 DEF Tables!SettlesByHolder, Store!SettlesByHolder, Tables!SettlesUnderLease,
        Store!SettlesUnderLease, Tables!Holds, Store!Holds, Tables!Live, Store!Live
<1> QED BY <1>1, HostInvariant, PTL DEF Spec, Store!OnlyLeaseHolderSettles

\* What the hosts do to the tables is a lifecycle of jobs: however they fail, crash and come
\* back, no round of a job ends twice, and its end is told in the step that makes it.
THEOREM HostsImplementLifecycle == Spec => Tables!ImplementsLifecycle
<1>1. Init => Tables!Lifecycle!Init
  BY TableAssumption, SameInit, Tables!InitImplements DEF Init
<1>2. HostInv /\ [Next]_vars => [Tables!Lifecycle!Next]_(Tables!Lifecycle!vars)
  <2> SUFFICES ASSUME HostInv, [Next]_vars PROVE [Tables!Lifecycle!Next]_(Tables!Lifecycle!vars)
    OBVIOUS
  <2>1. [Tables!Next]_(Tables!vars) /\ Tables!StoreInv
    BY NextKeeps, TableStepIsNext, Shapes, SameSteps, SameInvariant
       DEF HostInv, Tables!vars, Store!vars
  <2> QED BY <2>1, TableAssumption, Tables!StepImplements
<1> QED BY <1>1, <1>2, HostInvariant, PTL DEF Spec, Tables!ImplementsLifecycle, Tables!Lifecycle!Spec
=============================================================================
