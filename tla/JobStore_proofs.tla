--------------------------- MODULE JobStore_proofs ---------------------------
(***************************************************************************)
(* Proofs about JobStore, for every set of hosts, jobs and attempts and    *)
(* every value of the bounds.                                              *)
(***************************************************************************)
EXTENDS JobStore, TLAPS

\* The batch of interruptExpiredJobs, row by row.
LEMMA InterruptKeepsTypes ==
  ASSUME StoreAssumption, TypeOK, InterruptExpiredJobs
  PROVE  TypeOK'
<1>1. LostAttempts \subseteq AttemptId /\ \A a \in LostAttempts : attempt[a].job \in Job
  BY DEF LostAttempts, LastRunning, RunningOf, OwnerLost
<1>2. "interrupted" \in Terminal /\ "interrupted" \in AttemptStatus /\ "interrupted" \in JobStatus
  BY DEF Terminal, AttemptStatus, JobStatus
<1>3. ASSUME NEW a \in AttemptId PROVE attempt'[a] \in AttemptRow
  <2>1. attempt'[a] = attempt[a] \/ attempt'[a] = InterruptedAttempt(attempt[a])
    BY DEF InterruptExpiredJobs
  <2>2. attempt[a] \in AttemptRow
    BY DEF TypeOK
  <2> QED BY <1>2, <2>1, <2>2 DEF InterruptedAttempt, AttemptRow
<1>4. ASSUME NEW j \in Job PROVE job'[j] \in JobRow
  <2>1. job'[j] = job[j] \/ job'[j] = InterruptedJob(job[j])
    BY DEF InterruptExpiredJobs
  <2>2. job[j] \in JobRow
    BY DEF TypeOK
  <2> QED BY <1>2, <2>1, <2>2 DEF InterruptedJob, JobRow
<1>5. attempt' \in [AttemptId -> AttemptRow] /\ job' \in [Job -> JobRow]
  BY <1>3, <1>4 DEF InterruptExpiredJobs
<1>6. outbox' \subseteq OutboxRow
  <2>1. ASSUME NEW a \in LostAttempts
        PROVE Row(CompletionOf(a), attempt[a].job, a, "interrupted") \in OutboxRow
    <3>1. CompletionOf(a) \in CompletionId /\ attempt[a].job \in Job /\ a \in AttemptId
      BY <1>1 DEF CompletionId
    <3> QED BY <1>2, <3>1 DEF Row, OutboxRow
  <2>2. outbox' = outbox \cup {Row(CompletionOf(a), attempt[a].job, a, "interrupted") : a \in LostAttempts}
    BY DEF InterruptExpiredJobs
  <2>3. outbox \subseteq OutboxRow
    BY DEF TypeOK
  <2> QED BY <2>1, <2>2, <2>3
<1> QED BY <1>5, <1>6 DEF TypeOK, InterruptExpiredJobs

\* Every operation keeps the shapes of the rows.
LEMMA TypeStep == ASSUME StoreAssumption, TypeOK, [Next]_vars PROVE TypeOK'
<1> USE StoreAssumption DEF TypeOK, Lease, JobRow, AttemptRow, OutboxRow, JobStatus,
      AttemptStatus, RecoverableOutcome, Terminal
<1>1. ASSUME NEW o \in Owner, NEW j \in Job, LeaseStep(o, j) PROVE TypeOK'
  <2>1. CASE AcquireLease(o, j)
    BY <2>1 DEF AcquireLease, NextEpoch, Live
  <2>2. ASSUME NEW e \in 1 .. MaxEpoch, HeartbeatLease(o, j, e) \/ ReleaseLease(o, j, e)
        PROVE TypeOK'
    BY <2>2 DEF HeartbeatLease, ReleaseLease
  <2> QED BY <1>1, <2>1, <2>2 DEF LeaseStep
<1>2. CASE Tick
  <2>1. ASSUME NEW j \in Job PROVE lease'[j] \in Lease
    <3>1. CASE Live(j)
      <4>1. lease[j].ttl - 1 \in 0 .. TTL
        BY <3>1 DEF Live
      <4>2. lease'[j] = [lease[j] EXCEPT !.ttl = lease[j].ttl - 1]
        BY <1>2, <3>1 DEF Tick
      <4> QED BY <4>1, <4>2
    <3>2. CASE ~Live(j)
      <4>1. lease'[j] = [lease[j] EXCEPT !.ttl = 0]
        BY <1>2, <3>2 DEF Tick
      <4> QED BY <4>1
    <3> QED BY <3>1, <3>2
  <2> QED BY <1>2, <2>1 DEF Tick
<1>3. ASSUME NEW j \in Job, QueueStep(j) PROVE TypeOK'
  <2>1. CASE CreateJob(j)
    BY <2>1 DEF CreateJob
  <2>2. ASSUME NEW v \in 1 .. MaxVersion, RetryJob(j, v) PROVE TypeOK'
    BY <2>2 DEF RetryJob
  <2>3. ASSUME NEW v \in 1 .. MaxVersion, NEW c \in CompletionId, CancelQueuedJob(j, c, v)
        PROVE TypeOK'
    <3>1. job' \in [Job -> JobRow]
      BY <2>3 DEF CancelQueuedJob
    <3>2. outbox' \subseteq OutboxRow /\ delivered' \subseteq CompletionId
      BY <2>3 DEF CancelQueuedJob, Publish, Row
    <3> QED BY <2>3, <3>1, <3>2 DEF CancelQueuedJob
  <2> QED BY <1>3, <2>1, <2>2, <2>3 DEF QueueStep
<1>4. ASSUME NEW o \in Owner, NEW j \in Job, NEW a \in AttemptId, NEW e \in 1 .. MaxEpoch,
             RunStep(o, j, a, e)
      PROVE TypeOK'
  <2>1. ASSUME NEW v \in 1 .. MaxVersion, StartJob(j, a, o, e, v) PROVE TypeOK'
    BY <2>1 DEF StartJob, NewAttempt
  <2>2. ASSUME NEW v \in 1 .. MaxVersion, NEW w \in 1 .. MaxVersion, NEW source \in AttemptId,
               StartRecoverableJobSuccessor(j, source, a, o, e, v, w)
        PROVE TypeOK'
    BY <2>2 DEF StartRecoverableJobSuccessor, NewAttempt
  <2> QED BY <1>4, <2>1, <2>2 DEF RunStep
<1>5. ASSUME NEW o \in Owner, NEW j \in Job, NEW a \in AttemptId, NEW e \in 1 .. MaxEpoch,
             NEW s \in Outcome, NEW c \in CompletionId, SettleStep(o, j, a, e, s, c)
      PROVE TypeOK'
  <2>1. ASSUME NEW v \in 1 .. MaxVersion, NEW w \in 1 .. MaxVersion, NEW d \in BOOLEAN,
               FinishJob(j, a, o, e, s, c, v, w, d)
        PROVE TypeOK'
    BY <2>1 DEF FinishJob, Settled, Publish, Row
  <2>2. CASE FinishJobReplay(j, a, o, e, s, c) \/ SettleRecoverableReplay(j, a, s, c)
    BY <2>2 DEF FinishJobReplay, SettleRecoverableReplay, MarkCompletionDelivered
  <2>3. ASSUME NEW d \in BOOLEAN, SettleRecoverableJob(j, a, o, e, s, c, d) PROVE TypeOK'
    BY <2>3 DEF SettleRecoverableJob, Settled, Publish, Row
  <2> QED BY <1>5, <2>1, <2>2, <2>3 DEF SettleStep
<1>6. CASE InterruptExpiredJobs
  BY <1>6, InterruptKeepsTypes
<1>7. ASSUME NEW c \in CompletionId, MarkCompletionDelivered(c) PROVE TypeOK'
  BY <1>7 DEF MarkCompletionDelivered
<1>8. CASE UNCHANGED vars
  BY <1>8 DEF vars
<1> QED BY <1>1, <1>2, <1>3, <1>4, <1>5, <1>6, <1>7, <1>8 DEF Next

\* The rows have the shapes the schema gives them, after any sequence of calls.
THEOREM TypeCorrect == Spec => []TypeOK
<1>1. Init => TypeOK
  BY StoreAssumption DEF Init, NoLease, NoJobRow, NoAttemptRow, TypeOK, Lease, JobRow, AttemptRow,
    JobStatus, AttemptStatus
<1>2. TypeOK /\ [Next]_vars => TypeOK'
  BY StoreAssumption, TypeStep
<1> QED BY <1>1, <1>2, PTL DEF Spec
-----------------------------------------------------------------------------
(* The inductive invariant.  Each lemma takes one kind of step.            *)

\* Only leases move, and an epoch never passes to another owner unchanged.
LEMMA LeaseMoves ==
  ASSUME StoreAssumption, StoreInv, TypeOK', UNCHANGED <<job, attempt, outbox, delivered>>,
         \A j \in Job : \/ lease'[j].epoch > lease[j].epoch
                        \/ lease'[j].epoch = lease[j].epoch /\ lease'[j].owner = lease[j].owner
  PROVE  StoreInv'
<1>1. Unwritten' /\ JobAgreesWithAttempts' /\ AttemptsNumberedApart'
        /\ EachAttemptPublishedOnce' /\ TerminalJobIsPublished'
  BY DEF StoreInv, Unwritten, JobAgreesWithAttempts, AttemptsNumberedApart,
         EachAttemptPublishedOnce, TerminalJobIsPublished, RunningOf
<1>2. EpochFencesOwners'
  <2>1. \A j \in Job : job[j].epoch \in Nat /\ lease[j].epoch \in Nat /\ lease'[j].epoch \in Nat
    BY DEF StoreInv, TypeOK, Lease, JobRow
  <2>2. \A a \in AttemptId : attempt[a].status # "absent" => attempt[a].job \in Job /\ attempt[a].epoch \in Nat
    BY DEF StoreInv, TypeOK, Unwritten, AttemptRow
  <2> QED BY <2>1, <2>2 DEF StoreInv, EpochFencesOwners
<1> QED BY <1>1, <1>2 DEF StoreInv

\* A job that is not running moves between queue states.
LEMMA QueueMoves ==
  ASSUME StoreAssumption, StoreInv, TypeOK', UNCHANGED <<lease, attempt>>,
         NEW j \in Job, job[j].status # "running", job'[j].status \notin {"running", "absent"},
         job'[j].epoch = job[j].epoch, job'[j].count = job[j].count,
         \A k \in Job \ {j} : job'[k] = job[k],
         \/ outbox' = outbox /\ job'[j].status \notin Terminal
         \/ \E c \in CompletionId : /\ Fits(Row(c, j, NoAttempt, "cancelled"))
                                   /\ outbox' = outbox \cup {Row(c, j, NoAttempt, "cancelled")}
                                   /\ job'[j].status = "cancelled"
  PROVE  StoreInv'
<1>1. Unwritten' /\ JobAgreesWithAttempts'
  BY DEF StoreInv, Unwritten, JobAgreesWithAttempts, RunningOf
<1>2. AttemptsNumberedApart' /\ EpochFencesOwners'
  <2>1. \A k \in Job : job'[k].count = job[k].count /\ job'[k].epoch = job[k].epoch
    OBVIOUS
  <2>2. \A a \in AttemptId : attempt[a].status # "absent" => attempt[a].job \in Job
    BY DEF StoreInv, TypeOK, Unwritten, AttemptRow
  <2> QED BY <2>1, <2>2 DEF StoreInv, AttemptsNumberedApart, EpochFencesOwners
<1>3. EachAttemptPublishedOnce'
  BY DEF StoreInv, EachAttemptPublishedOnce, Fits, Row
<1>4. TerminalJobIsPublished'
  <2> SUFFICES ASSUME NEW k \in Job, job'[k].status \in Terminal
               PROVE  \E r \in outbox' : /\ r.job = k /\ r.status = job'[k].status
                        /\ IF r.attempt = NoAttempt THEN r.status = "cancelled"
                             ELSE attempt[r.attempt].number = job'[k].count
    BY DEF TerminalJobIsPublished
  <2>1. CASE k = j
    <3>1. PICK c \in CompletionId : /\ outbox' = outbox \cup {Row(c, j, NoAttempt, "cancelled")}
                                    /\ job'[j].status = "cancelled"
      BY <2>1
    <3>2. Row(c, j, NoAttempt, "cancelled") \in outbox'
      BY <3>1
    <3> QED BY <2>1, <3>1, <3>2 DEF Row
  <2>2. CASE k # j
    <3>1. job'[k] = job[k] /\ outbox \subseteq outbox'
      BY <2>2
    <3>2. TerminalJobIsPublished
      BY DEF StoreInv
    <3> QED BY <3>1, <3>2 DEF TerminalJobIsPublished
  <2> QED BY <2>1, <2>2
<1> QED BY <1>1, <1>2, <1>3, <1>4 DEF StoreInv

\* A job gets a new attempt: it was queued, or its running attempt source was
\* interrupted in the same step.
LEMMA NewAttemptRuns ==
  ASSUME StoreAssumption, StoreInv, TypeOK', UNCHANGED <<lease, outbox>>,
         NEW j \in Job, NEW a \in AttemptId, NEW o \in Owner, NEW e \in Nat,
         NEW gone \in SUBSET AttemptId, gone = RunningOf(j),
         attempt[a].status = "absent", Holds(o, j, e),
         attempt'[a] = NewAttempt(j, job[j].count + 1, o, e),
         \A b \in AttemptId \ {a} :
           /\ attempt'[b].job = attempt[b].job /\ attempt'[b].number = attempt[b].number
           /\ attempt'[b].owner = attempt[b].owner /\ attempt'[b].epoch = attempt[b].epoch
           /\ attempt'[b].status = IF b \in gone THEN "interrupted" ELSE attempt[b].status,
         gone # {} => j \in Recoverable,
         job'[j].status = "running", job'[j].count = job[j].count + 1, job'[j].epoch = e,
         \A k \in Job \ {j} : job'[k] = job[k]
  PROVE  StoreInv'
<1>0. /\ \A b \in AttemptId : attempt[b].status # "absent" =>
           attempt[b].job \in Job /\ attempt[b].epoch \in Nat /\ attempt[b].number \in Nat
      /\ \A k \in Job : job[k].count \in Nat /\ job[k].epoch \in Nat /\ lease[k].epoch \in Nat
      /\ NoJob \notin Job /\ attempt[a].job = NoJob
  BY DEF StoreInv, TypeOK, Unwritten, AttemptRow, JobRow, Lease, StoreAssumption
<1>1. Unwritten'
  BY <1>0 DEF StoreInv, Unwritten, NewAttempt, RunningOf
<1>2. JobAgreesWithAttempts'
  BY <1>0 DEF StoreInv, JobAgreesWithAttempts, NewAttempt, RunningOf
<1>3. AttemptsNumberedApart'
  <2>1. attempt'[a].job = j /\ attempt'[a].number = job[j].count + 1
    BY DEF NewAttempt
  <2>2. ASSUME NEW b \in AttemptId \ {a}, attempt'[b].status # "absent"
        PROVE  /\ attempt[b].status # "absent"
               /\ attempt'[b].job = attempt[b].job /\ attempt'[b].number = attempt[b].number
               /\ attempt[b].number \in 1 .. job[attempt[b].job].count
    BY <2>2 DEF StoreInv, AttemptsNumberedApart, RunningOf
  <2>3. ASSUME NEW b \in AttemptId, NEW g \in AttemptId, attempt'[b].status # "absent",
               attempt'[g].job = attempt'[b].job, attempt'[g].number = attempt'[b].number
        PROVE  b = g
    <3>1. attempt'[g].status # "absent"
      BY <1>0, <1>1, <2>3 DEF Unwritten, StoreInv, NewAttempt
    <3> QED BY <1>0, <2>1, <2>2, <2>3, <3>1 DEF StoreInv, AttemptsNumberedApart
  <2>4. ASSUME NEW b \in AttemptId, attempt'[b].status # "absent"
        PROVE  attempt'[b].number \in 1 .. job'[attempt'[b].job].count
    <3>1. CASE b = a
      BY <1>0, <2>1, <3>1
    <3>2. CASE b # a
      <4>1. attempt[b].job \in Job /\ attempt[b].number \in Nat
        BY <1>0, <2>2, <2>4, <3>2
      <4>2. job[attempt[b].job].count <= job'[attempt[b].job].count
        BY <1>0, <4>1
      <4>3. attempt[b].number >= 1 /\ attempt[b].number <= job[attempt[b].job].count
        BY <1>0, <2>2, <2>4, <3>2, <4>1
      <4>4. job'[attempt[b].job].count \in Nat
        BY <1>0, <4>1
      <4> QED BY <1>0, <2>2, <2>4, <3>2, <4>1, <4>2, <4>3, <4>4
    <3> QED BY <3>1, <3>2
  <2> QED BY <2>3, <2>4 DEF AttemptsNumberedApart
<1>4. EpochFencesOwners'
  <2>1. /\ attempt'[a].job = j /\ attempt'[a].epoch = lease[j].epoch
        /\ attempt'[a].owner = lease[j].owner
    BY DEF NewAttempt, Holds
  <2>2. ASSUME NEW b \in AttemptId \ {a}
        PROVE  /\ attempt'[b].status # "absent" <=> attempt[b].status # "absent"
               /\ attempt'[b].job = attempt[b].job /\ attempt'[b].epoch = attempt[b].epoch
               /\ attempt'[b].owner = attempt[b].owner
    BY DEF RunningOf
  <2>3. \A k \in Job : job'[k].epoch <= lease'[k].epoch
    BY <1>0 DEF Holds, StoreInv, EpochFencesOwners
  <2>4. ASSUME NEW b \in AttemptId, attempt'[b].status # "absent"
        PROVE  /\ attempt'[b].epoch <= lease'[attempt'[b].job].epoch
               /\ attempt'[b].epoch = lease'[attempt'[b].job].epoch
                    => attempt'[b].owner = lease'[attempt'[b].job].owner
    BY <1>0, <2>1, <2>2, <2>4 DEF StoreInv, EpochFencesOwners
  <2>5. ASSUME NEW b \in AttemptId, NEW g \in AttemptId, attempt'[b].status # "absent",
               attempt'[b].job = attempt'[g].job, attempt'[b].epoch = attempt'[g].epoch
        PROVE  attempt'[b].owner = attempt'[g].owner
    <3>1. attempt'[g].status # "absent"
      BY <1>0, <1>1, <2>5 DEF Unwritten, StoreInv, NewAttempt
    <3>2. CASE b = a \/ g = a
      BY <2>1, <2>4, <2>5, <3>1, <3>2
    <3>3. CASE b # a /\ g # a
      BY <2>2, <2>5, <3>3 DEF StoreInv, EpochFencesOwners
    <3> QED BY <3>2, <3>3
  <2> QED BY <2>3, <2>4, <2>5 DEF EpochFencesOwners
<1>5. EachAttemptPublishedOnce'
  BY <1>0 DEF StoreInv, EachAttemptPublishedOnce, NewAttempt, RunningOf, TypeOK, OutboxRow, Terminal
<1>6. TerminalJobIsPublished'
  BY <1>0 DEF StoreInv, TerminalJobIsPublished, EachAttemptPublishedOnce, NewAttempt, RunningOf,
         TypeOK, OutboxRow, Terminal
<1> QED BY <1>1, <1>2, <1>3, <1>4, <1>5, <1>6 DEF StoreInv

\* The running attempt of a job ends and is published in the same step.
LEMMA AttemptSettles ==
  ASSUME StoreAssumption, StoreInv, TypeOK', UNCHANGED lease,
         NEW j \in Job, NEW a \in AttemptId, NEW o \in Owner, NEW e \in Nat,
         NEW s \in Terminal, NEW c \in CompletionId, NEW d \in BOOLEAN,
         a \in RunningOf(j), Holds(o, j, e), Settled(j, a, o, e, s), Publish(c, j, a, s, d)
  PROVE  StoreInv'
<1>0. /\ \A b \in AttemptId : attempt[b].status # "absent" =>
           attempt[b].job \in Job /\ attempt[b].epoch \in Nat /\ attempt[b].number \in Nat
      /\ \A k \in Job : job[k].count \in Nat /\ job[k].epoch \in Nat /\ lease[k].epoch \in Nat
      /\ attempt[a].job = j /\ attempt[a].status = "running"
      /\ attempt[a].number = job[j].count /\ RunningOf(j) = {a}
      /\ NoJob \notin Job /\ NoAttempt \notin AttemptId
  BY DEF StoreInv, TypeOK, Unwritten, AttemptRow, JobRow, Lease, StoreAssumption,
         JobAgreesWithAttempts, AttemptsNumberedApart, RunningOf
<1>1. /\ attempt'[a].job = j /\ attempt'[a].number = attempt[a].number /\ attempt'[a].status = s
      /\ attempt'[a].owner = o /\ attempt'[a].epoch = e
      /\ \A b \in AttemptId \ {a} : attempt'[b] = attempt[b]
      /\ job'[j].status = s /\ job'[j].epoch = e /\ job'[j].count = job[j].count
      /\ \A k \in Job \ {j} : job'[k] = job[k]
      /\ outbox' = outbox \cup {Row(c, j, a, s)}
  BY <1>0 DEF Settled, Publish, StoreInv, TypeOK, AttemptRow, JobRow
<1>2. s \notin {"running", "absent"}
  BY DEF Terminal
<1>3. Unwritten'
  BY <1>0, <1>1, <1>2 DEF StoreInv, Unwritten
<1>4. JobAgreesWithAttempts'
  BY <1>0, <1>1, <1>2 DEF StoreInv, JobAgreesWithAttempts, RunningOf
<1>5. AttemptsNumberedApart'
  BY <1>0, <1>1, <1>2 DEF StoreInv, AttemptsNumberedApart
<1>6. EpochFencesOwners'
  <2>1. /\ attempt'[a].epoch = lease[j].epoch /\ attempt'[a].owner = lease[j].owner
    BY <1>1 DEF Holds
  <2>2. \A k \in Job : job'[k].epoch <= lease'[k].epoch
    BY <1>0, <1>1 DEF Holds, StoreInv, EpochFencesOwners
  <2>3. ASSUME NEW b \in AttemptId, attempt'[b].status # "absent"
        PROVE  /\ attempt'[b].epoch <= lease'[attempt'[b].job].epoch
               /\ attempt'[b].epoch = lease'[attempt'[b].job].epoch
                    => attempt'[b].owner = lease'[attempt'[b].job].owner
    BY <1>0, <1>1, <2>1, <2>3 DEF StoreInv, EpochFencesOwners
  <2>4. ASSUME NEW b \in AttemptId, NEW g \in AttemptId, attempt'[b].status # "absent",
               attempt'[b].job = attempt'[g].job, attempt'[b].epoch = attempt'[g].epoch
        PROVE  attempt'[b].owner = attempt'[g].owner
    <3>1. attempt'[g].status # "absent"
      BY <1>0, <1>1, <1>3, <2>4 DEF Unwritten, StoreInv
    <3>2. CASE b = a \/ g = a
      BY <1>1, <2>1, <2>3, <2>4, <3>1, <3>2
    <3>3. CASE b # a /\ g # a
      BY <1>1, <2>4, <3>3 DEF StoreInv, EpochFencesOwners
    <3> QED BY <3>2, <3>3
  <2> QED BY <2>2, <2>3, <2>4 DEF EpochFencesOwners
<1>7. EachAttemptPublishedOnce'
  <2>1. \A r \in outbox : r.attempt # a
    BY <1>0, <1>2 DEF StoreInv, EachAttemptPublishedOnce, TypeOK, OutboxRow, Terminal
  <2>2. \A r \in outbox : r.attempt # NoAttempt => r.attempt \in AttemptId \ {a}
    BY <2>1 DEF StoreInv, TypeOK, OutboxRow
  <2>3. \A r \in outbox' : r.attempt # NoAttempt =>
          attempt'[r.attempt].job = r.job /\ attempt'[r.attempt].status = r.status
    BY <1>1, <2>2 DEF StoreInv, EachAttemptPublishedOnce, Row
  <2>4. Row(c, j, a, s).attempt = a /\ Row(c, j, a, s).id = c
    BY DEF Row
  <2>5. \A r, t \in outbox' : (r.id = t.id \/ (r.attempt = t.attempt /\ r.attempt # NoAttempt)) => r = t
    BY <1>1, <2>1, <2>4 DEF StoreInv, EachAttemptPublishedOnce, Publish, Fits
  <2>6. \A b \in AttemptId : attempt'[b].status \in Terminal /\ attempt'[b].job \notin Recoverable
          => \E r \in outbox' : r.attempt = b
    BY <1>1, <2>4 DEF StoreInv, EachAttemptPublishedOnce
  <2> QED BY <2>3, <2>5, <2>6 DEF EachAttemptPublishedOnce
<1>8. TerminalJobIsPublished'
  <2> SUFFICES ASSUME NEW k \in Job, job'[k].status \in Terminal
               PROVE  \E r \in outbox' : /\ r.job = k /\ r.status = job'[k].status
                        /\ IF r.attempt = NoAttempt THEN r.status = "cancelled"
                             ELSE attempt'[r.attempt].number = job'[k].count
    BY DEF TerminalJobIsPublished
  <2>1. CASE k = j
    <3>1. Row(c, j, a, s) \in outbox'
      BY <1>1
    <3> QED BY <1>0, <1>1, <2>1, <3>1 DEF Row
  <2>2. CASE k # j
    <3>1. PICK r \in outbox : /\ r.job = k /\ r.status = job[k].status
                        /\ IF r.attempt = NoAttempt THEN r.status = "cancelled"
                             ELSE attempt[r.attempt].number = job[k].count
      BY <1>1, <2>2 DEF StoreInv, TerminalJobIsPublished
    <3>2. r.attempt # NoAttempt => r.attempt \in AttemptId \ {a}
      BY <1>0, <2>2, <3>1 DEF StoreInv, TypeOK, OutboxRow, EachAttemptPublishedOnce
    <3> QED BY <1>1, <2>2, <3>1, <3>2
  <2> QED BY <2>1, <2>2
<1> QED BY <1>3, <1>4, <1>5, <1>6, <1>7, <1>8 DEF StoreInv
\* interruptExpiredJobs ends every lost attempt, publishing each.
LEMMA ExpiredJobsEnd ==
  ASSUME StoreAssumption, StoreInv, TypeOK', InterruptExpiredJobs
  PROVE  StoreInv'
<1> DEFINE Told(a) == Row(CompletionOf(a), attempt[a].job, a, "interrupted")
<1>0. /\ \A b \in AttemptId : attempt[b].status # "absent" => attempt[b].job \in Job
      /\ NoJob \notin Job /\ NoAttempt \notin AttemptId
  BY DEF StoreInv, TypeOK, Unwritten, AttemptRow, StoreAssumption
<1>1. \A a \in AttemptId : a \in LostAttempts <=>
        attempt[a].status = "running" /\ attempt[a].job \in OwnerLost
  BY DEF LostAttempts, LastRunning, RunningOf, OwnerLost, StoreInv, JobAgreesWithAttempts,
         AttemptsNumberedApart, TypeOK, AttemptRow, JobRow
<1>2. /\ \A a \in AttemptId :
           /\ attempt'[a].job = attempt[a].job /\ attempt'[a].number = attempt[a].number
           /\ attempt'[a].owner = attempt[a].owner /\ attempt'[a].epoch = attempt[a].epoch
           /\ attempt'[a].status = IF a \in LostAttempts THEN "interrupted" ELSE attempt[a].status
      /\ \A j \in Job :
           /\ job'[j].epoch = job[j].epoch /\ job'[j].count = job[j].count
           /\ job'[j].status = IF j \in OwnerLost THEN "interrupted" ELSE job[j].status
      /\ lease' = lease
  BY DEF InterruptExpiredJobs, InterruptedAttempt, InterruptedJob
<1>3. LostAttempts \subseteq AttemptId /\ OwnerLost \subseteq Job
  BY DEF LostAttempts, LastRunning, RunningOf, OwnerLost
<1>4. /\ outbox' = outbox \cup {Told(a) : a \in LostAttempts}
      /\ \A a \in LostAttempts : Fits(Told(a))
  BY DEF InterruptExpiredJobs
<1>5. Unwritten'
  BY <1>0, <1>1, <1>2 DEF StoreInv, Unwritten, OwnerLost
<1>6. JobAgreesWithAttempts'
  <2> SUFFICES ASSUME NEW j \in Job
               PROVE  /\ job'[j].status = "running" <=> RunningOf(j)' # {}
                      /\ \A a \in RunningOf(j)' : attempt'[a].number = job'[j].count
                                                  /\ attempt'[a].epoch = job'[j].epoch
    BY DEF JobAgreesWithAttempts
  <2>1. CASE j \in OwnerLost
    BY <1>1, <1>2, <2>1 DEF RunningOf
  <2>2. CASE j \notin OwnerLost
    <3>1. RunningOf(j)' = RunningOf(j)
      BY <1>1, <1>2, <2>2 DEF RunningOf
    <3> QED BY <1>2, <2>2, <3>1 DEF RunningOf, StoreInv, JobAgreesWithAttempts
  <2> QED BY <2>1, <2>2
<1>7. AttemptsNumberedApart' /\ EpochFencesOwners'
  BY <1>0, <1>1, <1>2 DEF StoreInv, AttemptsNumberedApart, EpochFencesOwners
<1>8. EachAttemptPublishedOnce'
  <2>1. \A r \in outbox : r.attempt # NoAttempt => r.attempt \in AttemptId \ LostAttempts
    BY <1>1 DEF StoreInv, TypeOK, OutboxRow, EachAttemptPublishedOnce, Terminal
  <2>2. \A a \in LostAttempts : /\ Told(a).attempt = a /\ Told(a).job = attempt[a].job
                                /\ Told(a).status = "interrupted" /\ a # NoAttempt
    BY <1>0, <1>3 DEF Row
  <2>3. \A r \in outbox' : r.attempt # NoAttempt =>
          attempt'[r.attempt].job = r.job /\ attempt'[r.attempt].status = r.status
    BY <1>2, <1>3, <1>4, <2>1, <2>2 DEF StoreInv, EachAttemptPublishedOnce
  <2>4. \A r \in outbox, a \in LostAttempts :
          r.attempt # Told(a).attempt /\ (r.id = Told(a).id => r = Told(a))
    BY <1>4, <2>1, <2>2 DEF Fits
  <2>5. \A a, b \in LostAttempts : Told(a).id = Told(b).id => a = b
    BY DEF Row, CompletionOf
  <2>6. \A r, t \in outbox' : (r.id = t.id \/ (r.attempt = t.attempt /\ r.attempt # NoAttempt)) => r = t
    <3>0. \A u \in outbox' : u \in outbox \/ \E a \in LostAttempts : u = Told(a)
      BY <1>4
    <3> HIDE DEF Told
    <3> SUFFICES ASSUME NEW r \in outbox', NEW t \in outbox',
                        r.id = t.id \/ (r.attempt = t.attempt /\ r.attempt # NoAttempt)
                 PROVE  r = t
      OBVIOUS
    <3>1. CASE r \in outbox /\ t \in outbox
      BY <3>1 DEF StoreInv, EachAttemptPublishedOnce
    <3>2. ASSUME NEW a \in LostAttempts, NEW b \in LostAttempts, r = Told(a), t = Told(b)
          PROVE  r = t
      BY <2>2, <2>5, <3>2
    <3>3. ASSUME NEW a \in LostAttempts,
                 (r = Told(a) /\ t \in outbox) \/ (t = Told(a) /\ r \in outbox)
          PROVE  r = t
      BY <2>4, <3>3
    <3>4. CASE r \notin outbox
      <4>1. PICK a \in LostAttempts : r = Told(a)
        BY <3>0, <3>4
      <4>2. CASE t \in outbox
        BY <2>4, <4>1, <4>2
      <4>3. CASE t \notin outbox
        <5>1. PICK b \in LostAttempts : t = Told(b)
          BY <3>0, <4>3
        <5> QED BY <3>2, <4>1, <5>1
      <4> QED BY <4>2, <4>3
    <3>5. CASE r \in outbox /\ t \notin outbox
      <4>1. PICK a \in LostAttempts : t = Told(a)
        BY <3>0, <3>5
      <4> QED BY <3>3, <3>5, <4>1
    <3> QED BY <3>1, <3>4, <3>5
  <2>7. \A b \in AttemptId : attempt'[b].status \in Terminal /\ attempt'[b].job \notin Recoverable
          => \E r \in outbox' : r.attempt = b
    <3>1. \A a \in LostAttempts : Told(a) \in outbox' /\ Told(a).attempt = a
      BY <1>4, <2>2
    <3>2. outbox \subseteq outbox'
      BY <1>4
    <3> HIDE DEF Told
    <3> QED BY <1>2, <3>1, <3>2 DEF StoreInv, EachAttemptPublishedOnce
  <2> QED BY <2>3, <2>6, <2>7 DEF EachAttemptPublishedOnce
<1>9. TerminalJobIsPublished'
  <2> SUFFICES ASSUME NEW k \in Job, job'[k].status \in Terminal
               PROVE  \E r \in outbox' : /\ r.job = k /\ r.status = job'[k].status
                        /\ IF r.attempt = NoAttempt THEN r.status = "cancelled"
                             ELSE attempt'[r.attempt].number = job'[k].count
    BY DEF TerminalJobIsPublished
  <2>1. CASE k \in OwnerLost
    <3>1. PICK a \in AttemptId : attempt[a].job = k /\ attempt[a].status = "running"
      BY <2>1 DEF OwnerLost, RunningOf
    <3>2. a \in LostAttempts
      BY <1>1, <2>1, <3>1
    <3>3. Told(a) \in outbox' /\ Told(a).attempt = a /\ Told(a).job = k /\ Told(a).status = "interrupted"
      BY <1>4, <3>1, <3>2 DEF Row
    <3>4. attempt[a].number = job[k].count
      BY <3>1 DEF StoreInv, JobAgreesWithAttempts, RunningOf
    <3>5. a # NoAttempt
      BY <1>0
    <3> QED BY <1>2, <2>1, <3>3, <3>4, <3>5
  <2>2. CASE k \notin OwnerLost
    <3>1. PICK r \in outbox : /\ r.job = k /\ r.status = job[k].status
                        /\ IF r.attempt = NoAttempt THEN r.status = "cancelled"
                             ELSE attempt[r.attempt].number = job[k].count
      BY <1>2, <2>2 DEF StoreInv, TerminalJobIsPublished
    <3>2. r.attempt # NoAttempt => r.attempt \in AttemptId
      BY DEF StoreInv, TypeOK, OutboxRow
    <3> QED BY <1>2, <1>4, <2>2, <3>1, <3>2
  <2> QED BY <2>1, <2>2
<1> QED BY <1>5, <1>6, <1>7, <1>8, <1>9 DEF StoreInv

\* A new job starts with an empty row.
LEMMA NewJobQueues ==
  ASSUME StoreAssumption, StoreInv, TypeOK', NEW j \in Job, CreateJob(j)
  PROVE  StoreInv'
<1>1. /\ job'[j].status = "queued" /\ job'[j].epoch = 0 /\ job'[j].count = 0
      /\ job[j].status = "absent" /\ job[j].epoch = 0 /\ job[j].count = 0
      /\ \A k \in Job \ {j} : job'[k] = job[k]
      /\ UNCHANGED <<lease, attempt, outbox, delivered>>
  BY DEF CreateJob, StoreInv, TypeOK, Unwritten
<1>2. \A a \in AttemptId : attempt[a].status # "absent" => attempt[a].job \in Job
  BY DEF StoreInv, TypeOK, Unwritten, AttemptRow
<1>3. Unwritten' /\ JobAgreesWithAttempts' /\ EachAttemptPublishedOnce'
  BY <1>1 DEF StoreInv, Unwritten, JobAgreesWithAttempts, EachAttemptPublishedOnce, RunningOf
<1>4. AttemptsNumberedApart' /\ EpochFencesOwners'
  <2>1. \A k \in Job : job'[k].count = job[k].count /\ job'[k].epoch = job[k].epoch
    BY <1>1
  <2> QED BY <1>1, <1>2, <2>1 DEF StoreInv, AttemptsNumberedApart, EpochFencesOwners
<1>5. TerminalJobIsPublished'
  <2>1. \A k \in Job : job'[k].status \in Terminal => k # j
    BY <1>1 DEF Terminal
  <2> QED BY <1>1, <2>1 DEF StoreInv, TerminalJobIsPublished
<1> QED BY <1>3, <1>4, <1>5 DEF StoreInv

\* Every operation keeps the invariant.
LEMMA StoreStep == ASSUME StoreAssumption, StoreInv, [Next]_vars PROVE StoreInv'
<1>0. TypeOK /\ TypeOK'
  BY TypeStep DEF StoreInv
<1>1. ASSUME NEW o \in Owner, NEW j \in Job, LeaseStep(o, j) PROVE StoreInv'
  <2>1. UNCHANGED <<job, attempt, outbox, delivered>>
    BY <1>1 DEF LeaseStep, AcquireLease, HeartbeatLease, ReleaseLease
  <2>2. ASSUME NEW k \in Job
        PROVE  \/ lease'[k].epoch > lease[k].epoch
               \/ lease'[k].epoch = lease[k].epoch /\ lease'[k].owner = lease[k].owner
    <3>1. lease[k].epoch \in Nat /\ lease \in [Job -> Lease]
      BY <1>0 DEF TypeOK, Lease
    <3>2. CASE AcquireLease(o, j)
      BY <3>1, <3>2 DEF AcquireLease, NextEpoch
    <3>3. ASSUME NEW e \in 1 .. MaxEpoch, HeartbeatLease(o, j, e) \/ ReleaseLease(o, j, e)
          PROVE  lease'[k].epoch = lease[k].epoch /\ lease'[k].owner = lease[k].owner
      BY <3>1, <3>3 DEF HeartbeatLease, ReleaseLease, Lease
    <3> QED BY <1>1, <3>2, <3>3 DEF LeaseStep
  <2> QED BY <1>0, <2>1, <2>2, LeaseMoves
<1>2. CASE Tick
  <2>1. ASSUME NEW k \in Job
        PROVE  lease'[k].epoch = lease[k].epoch /\ lease'[k].owner = lease[k].owner
    BY <1>0, <1>2 DEF Tick, TypeOK, Lease
  <2> QED BY <1>0, <1>2, <2>1, LeaseMoves DEF Tick
<1>3. ASSUME NEW j \in Job, QueueStep(j) PROVE StoreInv'
  <2>1. CASE CreateJob(j)
    BY <1>0, <2>1, NewJobQueues
  <2>2. ASSUME NEW v \in 1 .. MaxVersion, RetryJob(j, v) PROVE StoreInv'
    <3>1. /\ job[j].status # "running" /\ job'[j].status = "queued"
          /\ job'[j].epoch = job[j].epoch /\ job'[j].count = job[j].count
          /\ \A k \in Job \ {j} : job'[k] = job[k]
          /\ UNCHANGED <<lease, attempt>> /\ outbox' = outbox
      BY <1>0, <2>2 DEF RetryJob, Terminal, TypeOK, JobRow
    <3>2. "queued" \notin Terminal
      BY DEF Terminal
    <3> QED BY <1>0, <3>1, <3>2, QueueMoves
  <2>3. ASSUME NEW v \in 1 .. MaxVersion, NEW c \in CompletionId, CancelQueuedJob(j, c, v)
        PROVE StoreInv'
    <3>1. /\ job[j].status # "running" /\ job'[j].status = "cancelled"
          /\ job'[j].epoch = job[j].epoch /\ job'[j].count = job[j].count
          /\ \A k \in Job \ {j} : job'[k] = job[k]
          /\ UNCHANGED <<lease, attempt>>
          /\ Fits(Row(c, j, NoAttempt, "cancelled"))
          /\ outbox' = outbox \cup {Row(c, j, NoAttempt, "cancelled")}
      BY <1>0, <2>3 DEF CancelQueuedJob, Publish, TypeOK, JobRow
    <3> QED BY <1>0, <3>1, QueueMoves
  <2> QED BY <1>3, <2>1, <2>2, <2>3 DEF QueueStep
<1>4. ASSUME NEW o \in Owner, NEW j \in Job, NEW a \in AttemptId, NEW e \in 1 .. MaxEpoch,
             RunStep(o, j, a, e)
      PROVE StoreInv'
  <2>0. /\ attempt \in [AttemptId -> AttemptRow] /\ job \in [Job -> JobRow]
        /\ e \in Nat
    BY <1>0 DEF TypeOK
  <2>1. ASSUME NEW v \in 1 .. MaxVersion, StartJob(j, a, o, e, v) PROVE StoreInv'
    <3>1. RunningOf(j) = {} /\ {} \in SUBSET AttemptId
      BY <2>1 DEF StartJob, StoreInv, JobAgreesWithAttempts
    <3>2. /\ attempt[a].status = "absent" /\ Holds(o, j, e) /\ UNCHANGED <<lease, outbox>>
          /\ attempt'[a] = NewAttempt(j, job[j].count + 1, o, e)
          /\ \A b \in AttemptId \ {a} : attempt'[b] = attempt[b]
          /\ job'[j].status = "running" /\ job'[j].count = job[j].count + 1 /\ job'[j].epoch = e
          /\ \A k \in Job \ {j} : job'[k] = job[k]
      BY <2>0, <2>1 DEF StartJob
    <3> QED BY <1>0, <2>0, <3>1, <3>2, NewAttemptRuns
  <2>2. ASSUME NEW v \in 1 .. MaxVersion, NEW w \in 1 .. MaxVersion, NEW source \in AttemptId,
               StartRecoverableJobSuccessor(j, source, a, o, e, v, w)
        PROVE StoreInv'
    <3>1. /\ attempt[a].status = "absent" /\ attempt[source].status = "running" /\ source # a
          /\ attempt[source].job = j /\ job[j].count = attempt[source].number
          /\ j \in Recoverable /\ Holds(o, j, e) /\ UNCHANGED <<lease, outbox>>
          /\ job[j].status = "running"
      BY <2>2 DEF StartRecoverableJobSuccessor
    <3>2. RunningOf(j) = {source} /\ {source} \in SUBSET AttemptId
      BY <3>1 DEF RunningOf, StoreInv, JobAgreesWithAttempts, AttemptsNumberedApart
    <3>3. /\ attempt'[a] = NewAttempt(j, job[j].count + 1, o, e)
          /\ \A b \in AttemptId \ {a, source} : attempt'[b] = attempt[b]
      BY <2>0, <2>2, <3>1 DEF StartRecoverableJobSuccessor
    <3>4. /\ attempt'[source].job = j /\ attempt'[source].number = attempt[source].number
          /\ attempt'[source].owner = attempt[source].owner
          /\ attempt'[source].epoch = attempt[source].epoch
          /\ attempt'[source].status = "interrupted"
      BY <2>0, <2>2, <3>1 DEF StartRecoverableJobSuccessor, AttemptRow
    <3>5. /\ job'[j].status = "running" /\ job'[j].count = job[j].count + 1 /\ job'[j].epoch = e
          /\ \A k \in Job \ {j} : job'[k] = job[k]
      BY <2>0, <2>2, <3>1 DEF StartRecoverableJobSuccessor, JobRow
    <3>6. \A b \in AttemptId \ {a} :
           /\ attempt'[b].job = attempt[b].job /\ attempt'[b].number = attempt[b].number
           /\ attempt'[b].owner = attempt[b].owner /\ attempt'[b].epoch = attempt[b].epoch
           /\ attempt'[b].status = IF b \in {source} THEN "interrupted" ELSE attempt[b].status
      BY <3>1, <3>3, <3>4
    <3> QED BY <1>0, <2>0, <3>1, <3>2, <3>3, <3>5, <3>6, NewAttemptRuns
  <2> QED BY <1>4, <2>1, <2>2 DEF RunStep
<1>5. ASSUME NEW o \in Owner, NEW j \in Job, NEW a \in AttemptId, NEW e \in 1 .. MaxEpoch,
             NEW s \in Outcome, NEW c \in CompletionId, SettleStep(o, j, a, e, s, c)
      PROVE StoreInv'
  <2>0. s \in Terminal /\ e \in Nat
    BY DEF StoreAssumption
  <2>1. ASSUME NEW v \in 1 .. MaxVersion, NEW w \in 1 .. MaxVersion, NEW d \in BOOLEAN,
               FinishJob(j, a, o, e, s, c, v, w, d)
        PROVE StoreInv'
    <3>1. /\ a \in RunningOf(j) /\ Holds(o, j, e) /\ UNCHANGED lease
          /\ Settled(j, a, o, e, s) /\ Publish(c, j, a, s, d)
      BY <2>1 DEF FinishJob, RunningOf
    <3> QED BY <1>0, <2>0, <3>1, AttemptSettles
  <2>2. ASSUME NEW d \in BOOLEAN, SettleRecoverableJob(j, a, o, e, s, c, d) PROVE StoreInv'
    <3>1. /\ a \in RunningOf(j) /\ Holds(o, j, e) /\ UNCHANGED lease
          /\ Settled(j, a, o, e, s) /\ Publish(c, j, a, s, d)
      BY <2>2 DEF SettleRecoverableJob, RunningOf
    <3> QED BY <1>0, <2>0, <3>1, AttemptSettles
  <2>3. CASE FinishJobReplay(j, a, o, e, s, c) \/ SettleRecoverableReplay(j, a, s, c)
    <3>1. UNCHANGED <<lease, job, attempt, outbox>>
      BY <2>3 DEF FinishJobReplay, SettleRecoverableReplay, MarkCompletionDelivered
    <3> QED BY <1>0, <3>1 DEF StoreInv, Unwritten, JobAgreesWithAttempts, AttemptsNumberedApart,
          EpochFencesOwners, EachAttemptPublishedOnce, TerminalJobIsPublished, RunningOf
  <2> QED BY <1>5, <2>1, <2>2, <2>3 DEF SettleStep
<1>6. CASE InterruptExpiredJobs
  BY <1>0, <1>6, ExpiredJobsEnd
<1>7. CASE UNCHANGED vars \/ \E c \in CompletionId : MarkCompletionDelivered(c)
  <2>1. UNCHANGED <<lease, job, attempt, outbox>>
    BY <1>7 DEF vars, MarkCompletionDelivered
  <2> QED BY <1>0, <2>1 DEF StoreInv, Unwritten, JobAgreesWithAttempts, AttemptsNumberedApart,
        EpochFencesOwners, EachAttemptPublishedOnce, TerminalJobIsPublished, RunningOf
<1> QED BY <1>1, <1>2, <1>3, <1>4, <1>5, <1>6, <1>7 DEF Next

\* The empty tables agree with each other.
LEMMA StoreInit == StoreAssumption /\ Init => StoreInv
<1> SUFFICES ASSUME StoreAssumption, Init PROVE StoreInv
  OBVIOUS
<1>1. TypeOK
  BY DEF StoreAssumption, Init, NoLease, NoJobRow, NoAttemptRow, TypeOK, Lease, JobRow,
    AttemptRow, JobStatus, AttemptStatus
<1> QED BY <1>1 DEF StoreAssumption, Init, NoLease, NoJobRow, NoAttemptRow, StoreInv, Unwritten,
      JobAgreesWithAttempts, AttemptsNumberedApart, EpochFencesOwners,
      EachAttemptPublishedOnce, TerminalJobIsPublished, RunningOf, Terminal

\* The tables agree with each other after any sequence of calls by any hosts.
THEOREM StoreInvariant == Spec => []StoreInv
<1>1. Init => StoreInv
  BY StoreAssumption, StoreInit
<1>2. StoreInv /\ [Next]_vars => StoreInv'
  BY StoreAssumption, StoreStep
<1> QED BY <1>1, <1>2, PTL DEF Spec

\* No owner ever acts under the epoch of another.
THEOREM EpochsFence == Spec => []EpochFencesOwners
<1>1. StoreInv => EpochFencesOwners
  BY DEF StoreInv
<1> QED BY <1>1, StoreInvariant, PTL

\* Every end of a host-bound attempt is told of once, and truly.
THEOREM PublishedOnce == Spec => []EachAttemptPublishedOnce
<1>1. StoreInv => EachAttemptPublishedOnce
  BY DEF StoreInv
<1> QED BY <1>1, StoreInvariant, PTL

\* The jobs and job_attempts tables never disagree.
THEOREM TablesAgree == Spec => []JobAgreesWithAttempts
<1>1. StoreInv => JobAgreesWithAttempts
  BY DEF StoreInv
<1> QED BY <1>1, StoreInvariant, PTL

\* The attempts of a job are numbered apart and within attempt_count.
THEOREM NumberedApart == Spec => []AttemptsNumberedApart
<1>1. StoreInv => AttemptsNumberedApart
  BY DEF StoreInv
<1> QED BY <1>1, StoreInvariant, PTL

\* A terminal job has its completion in the outbox.
THEOREM TerminalIsTold == Spec => []TerminalJobIsPublished
<1>1. StoreInv => TerminalJobIsPublished
  BY DEF StoreInv
<1> QED BY <1>1, StoreInvariant, PTL

\* An operation touches only unwritten and running attempts, and adds to the outbox.
LEMMA StepKeepsWhatEnded == ASSUME StoreAssumption, TypeOK, Next PROVE KeepsWhatEnded
<1>0. "absent" \notin Terminal /\ "running" \notin Terminal
  BY DEF Terminal
<1>1. ASSUME NEW o \in Owner, NEW j \in Job, LeaseStep(o, j) PROVE KeepsWhatEnded
  BY <1>1 DEF LeaseStep, AcquireLease, HeartbeatLease, ReleaseLease, KeepsWhatEnded
<1>2. CASE Tick
  BY <1>2 DEF Tick, KeepsWhatEnded
<1>3. ASSUME NEW j \in Job, QueueStep(j) PROVE KeepsWhatEnded
  BY <1>3 DEF QueueStep, CreateJob, RetryJob, CancelQueuedJob, Publish, KeepsWhatEnded
<1>4. ASSUME NEW o \in Owner, NEW j \in Job, NEW a \in AttemptId, NEW e \in 1 .. MaxEpoch,
             RunStep(o, j, a, e)
      PROVE KeepsWhatEnded
  <2>1. ASSUME NEW v \in 1 .. MaxVersion, StartJob(j, a, o, e, v) PROVE KeepsWhatEnded
    BY <1>0, <2>1 DEF StartJob, KeepsWhatEnded, TypeOK
  <2>2. ASSUME NEW v \in 1 .. MaxVersion, NEW w \in 1 .. MaxVersion, NEW source \in AttemptId,
               StartRecoverableJobSuccessor(j, source, a, o, e, v, w)
        PROVE KeepsWhatEnded
    BY <1>0, <2>2 DEF StartRecoverableJobSuccessor, KeepsWhatEnded, TypeOK
  <2> QED BY <1>4, <2>1, <2>2 DEF RunStep
<1>5. ASSUME NEW o \in Owner, NEW j \in Job, NEW a \in AttemptId, NEW e \in 1 .. MaxEpoch,
             NEW s \in Outcome, NEW c \in CompletionId, SettleStep(o, j, a, e, s, c)
      PROVE KeepsWhatEnded
  <2>1. CASE FinishJobReplay(j, a, o, e, s, c) \/ SettleRecoverableReplay(j, a, s, c)
    BY <2>1 DEF FinishJobReplay, SettleRecoverableReplay, MarkCompletionDelivered, KeepsWhatEnded
  <2>2. ASSUME NEW d \in BOOLEAN, attempt[a].status = "running",
               Settled(j, a, o, e, s), Publish(c, j, a, s, d)
        PROVE  KeepsWhatEnded
    BY <1>0, <2>2 DEF Settled, Publish, KeepsWhatEnded, TypeOK
  <2> QED BY <1>5, <2>1, <2>2 DEF SettleStep, FinishJob, SettleRecoverableJob
<1>6. CASE InterruptExpiredJobs
  <2>1. \A a \in LostAttempts : attempt[a].status = "running"
    BY DEF LostAttempts, LastRunning, RunningOf
  <2> QED BY <1>0, <1>6, <2>1 DEF InterruptExpiredJobs, KeepsWhatEnded
<1>7. ASSUME NEW c \in CompletionId, MarkCompletionDelivered(c) PROVE KeepsWhatEnded
  BY <1>7 DEF MarkCompletionDelivered, KeepsWhatEnded
<1> QED BY <1>1, <1>2, <1>3, <1>4, <1>5, <1>6, <1>7 DEF Next

\* No late caller rewrites what has ended or what was published.
THEOREM EndedStaysEnded == Spec => EndedForGood
<1>1. TypeOK /\ [Next]_vars => [KeepsWhatEnded]_vars
  BY StoreAssumption, StepKeepsWhatEnded
<1> QED BY <1>1, TypeCorrect, PTL DEF Spec, EndedForGood

\* The operations that end an attempt ask for the live lease, or for its absence.
LEMMA StepSettlesByHolder == ASSUME StoreAssumption, TypeOK, Next PROVE SettlesByHolder
<1> SUFFICES ASSUME NEW b \in AttemptId,
                    attempt[b].status = "running", attempt'[b].status # "running"
             PROVE  SettlesUnderLease(b)
  BY DEF SettlesByHolder
<1>0. attempt \in [AttemptId -> AttemptRow]
  BY DEF TypeOK
<1>1. CASE UNCHANGED attempt
  BY <1>1
<1>2. ASSUME NEW o \in Owner, NEW j \in Job, NEW a \in AttemptId, NEW e \in 1 .. MaxEpoch,
             RunStep(o, j, a, e)
      PROVE SettlesUnderLease(b)
  <2>1. ASSUME NEW v \in 1 .. MaxVersion, StartJob(j, a, o, e, v) PROVE SettlesUnderLease(b)
    BY <1>0, <2>1 DEF StartJob, NewAttempt
  <2>2. ASSUME NEW v \in 1 .. MaxVersion, NEW w \in 1 .. MaxVersion, NEW source \in AttemptId,
               StartRecoverableJobSuccessor(j, source, a, o, e, v, w)
        PROVE SettlesUnderLease(b)
    <3>0. source # a /\ b # a
      BY <2>2 DEF StartRecoverableJobSuccessor
    <3>1. b = source /\ attempt'[source].status = "interrupted"
      BY <1>0, <2>2, <3>0 DEF StartRecoverableJobSuccessor, AttemptRow
    <3> QED BY <2>2, <3>1 DEF StartRecoverableJobSuccessor, SettlesUnderLease, Holds, Live
  <2> QED BY <1>2, <2>1, <2>2 DEF RunStep
<1>3. ASSUME NEW o \in Owner, NEW j \in Job, NEW a \in AttemptId, NEW e \in 1 .. MaxEpoch,
             NEW s \in Outcome, NEW c \in CompletionId, SettleStep(o, j, a, e, s, c)
      PROVE SettlesUnderLease(b)
  <2>1. CASE FinishJobReplay(j, a, o, e, s, c) \/ SettleRecoverableReplay(j, a, s, c)
    BY <2>1 DEF FinishJobReplay, SettleRecoverableReplay, MarkCompletionDelivered
  <2>2. ASSUME attempt[a].job = j, Holds(o, j, e), Settled(j, a, o, e, s)
        PROVE  SettlesUnderLease(b)
    <3>1. b = a /\ attempt'[b].owner = o /\ attempt'[b].epoch = e
      BY <1>0, <2>2 DEF Settled, AttemptRow
    <3> QED BY <2>2, <3>1 DEF SettlesUnderLease
  <2> QED BY <1>3, <2>1, <2>2 DEF SettleStep, FinishJob, SettleRecoverableJob
<1>4. CASE InterruptExpiredJobs
  <2>1. b \in LostAttempts
    BY <1>4 DEF InterruptExpiredJobs
  <2>2. attempt[b].job \in OwnerLost /\ attempt'[b].status = "interrupted"
    BY <1>4, <2>1 DEF InterruptExpiredJobs, InterruptedAttempt, LostAttempts, LastRunning, RunningOf
  <2> QED BY <2>2 DEF SettlesUnderLease, OwnerLost
<1>5. CASE \/ \E o \in Owner, j \in Job : LeaseStep(o, j)
           \/ Tick
           \/ \E j \in Job : QueueStep(j)
           \/ \E c \in CompletionId : MarkCompletionDelivered(c)
  BY <1>1, <1>5 DEF LeaseStep, AcquireLease, HeartbeatLease, ReleaseLease, Tick, QueueStep,
    CreateJob, RetryJob, CancelQueuedJob, MarkCompletionDelivered
<1> QED BY <1>2, <1>3, <1>4, <1>5 DEF Next

\* A host that lost its lease settles nothing.
THEOREM HolderSettles == Spec => OnlyLeaseHolderSettles
<1>1. TypeOK /\ [Next]_vars => [SettlesByHolder]_vars
  BY StoreAssumption, StepSettlesByHolder
<1> QED BY <1>1, TypeCorrect, PTL DEF Spec, OnlyLeaseHolderSettles
=============================================================================
