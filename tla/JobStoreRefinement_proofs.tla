---------------------- MODULE JobStoreRefinement_proofs ----------------------
(***************************************************************************)
(* JobStore implements JobLifecycle, for every set of hosts, jobs and      *)
(* attempts and every value of the bounds: each write transaction is one   *)
(* step of the lifecycle, or none that it can see.                         *)
(***************************************************************************)
EXTENDS JobStoreRefinement, JobStore_proofs

-----------------------------------------------------------------------------
(* The mapping, when one row moves.                                        *)

\* One row of jobs moves: so do its phase and its round.
LEMMA JobMoves ==
  ASSUME NEW j \in Job, \A k \in Job \ {j} : job'[k] = job[k]
  PROVE  /\ Phases' = [Phases EXCEPT ![j] = PhaseOf(job'[j].status)]
         /\ Rounds' = [Rounds EXCEPT ![j] = job'[j].count]
BY DEF Phases, Rounds

\* The attempts that end are the rounds that end.
LEMMA RoundsEnd ==
  ASSUME NEW S \in SUBSET AttemptId,
         \A a \in AttemptId : attempt[a].status \in Terminal => attempt'[a] = attempt[a],
         \A a \in AttemptId :
           attempt'[a].status \in Terminal <=> attempt[a].status \in Terminal \/ a \in S
  PROVE  EndedRounds' = EndedRounds \cup {EndOf(a)' : a \in S}
<1>1. EndedAttempts' = EndedAttempts \cup S
  BY DEF EndedAttempts
<1>2. \A a \in EndedAttempts : EndOf(a)' = EndOf(a)
  BY DEF EndedAttempts, EndOf
<1>3. EndedRounds' = {EndOf(a)' : a \in EndedAttempts'}
  BY DEF EndedRounds
<1> QED BY <1>1, <1>2, <1>3 DEF EndedRounds

\* A published attempt keeps its number, so that a notice goes on to say the same.
LEMMA NoticesCome ==
  ASSUME NEW R, StoreInv, outbox' = outbox \cup R,
         \A a \in AttemptId : attempt[a].status \in Terminal => attempt'[a] = attempt[a]
  PROVE  Notices' = Notices \cup {NoticeOf(r)' : r \in R}
<1>1. \A r \in outbox : NoticeOf(r)' = NoticeOf(r)
  BY DEF NoticeOf, RoundOf, StoreInv, TypeOK, OutboxRow, EachAttemptPublishedOnce
<1>2. Notices' = {NoticeOf(r)' : r \in outbox'}
  BY DEF Notices
<1> QED BY <1>1, <1>2 DEF Notices

\* Neither attempts nor completions move.
LEMMA NothingTold ==
  ASSUME UNCHANGED <<attempt, outbox>> PROVE UNCHANGED <<EndedRounds, Notices>>
BY DEF EndedRounds, EndedAttempts, EndOf, Notices, NoticeOf, RoundOf
-----------------------------------------------------------------------------
(* The transactions.                                                       *)

\* CreateJob, RetryJob and CancelQueuedJob.
LEMMA QueueImplements ==
  ASSUME StoreAssumption, StoreInv, NEW j \in Job, QueueStep(j)
  PROVE  Lifecycle!Next
<1>0. job \in [Job -> JobRow] /\ Phases[j] = PhaseOf(job[j].status) /\ Rounds[j] = job[j].count
  BY DEF StoreInv, TypeOK, Phases, Rounds
<1>1. CASE CreateJob(j)
  <2>1. job'[j].status = "queued" /\ job'[j].count = 0 /\ \A k \in Job \ {j} : job'[k] = job[k]
    BY <1>0, <1>1 DEF CreateJob
  <2>2. /\ Phases' = [Phases EXCEPT ![j] = PhaseOf("queued")]
        /\ Rounds' = [Rounds EXCEPT ![j] = 0]
    BY <2>1, JobMoves
  <2>3. UNCHANGED <<Rounds, EndedRounds, Notices>>
    BY <1>0, <1>1, <2>2, NothingTold DEF CreateJob, StoreInv, Unwritten, Rounds
  <2>4. Lifecycle!Create(j)
    BY <1>0, <1>1, <2>2, <2>3 DEF CreateJob, PhaseOf, Terminal, Lifecycle!Create
  <2> QED BY <2>4 DEF Lifecycle!Next
<1>2. ASSUME NEW v \in 1 .. MaxVersion, RetryJob(j, v) PROVE Lifecycle!Next
  <2>1. /\ job'[j].status = "queued" /\ job'[j].count = job[j].count
        /\ \A k \in Job \ {j} : job'[k] = job[k]
    BY <1>0, <1>2 DEF RetryJob, JobRow
  <2>2. Phases' = [Phases EXCEPT ![j] = PhaseOf("queued")] /\ Rounds' = Rounds
    <3>1. Rounds' = Rounds
      BY <2>1 DEF Rounds
    <3> QED BY <2>1, <3>1, JobMoves
  <2>3. UNCHANGED <<EndedRounds, Notices>>
    BY <1>2, NothingTold DEF RetryJob
  <2>4. Lifecycle!Again(j)
    BY <1>0, <1>2, <2>2, <2>3 DEF RetryJob, PhaseOf, Terminal, Lifecycle!Again
  <2> QED BY <2>4 DEF Lifecycle!Next
<1>3. ASSUME NEW v \in 1 .. MaxVersion, NEW c \in CompletionId, CancelQueuedJob(j, c, v)
      PROVE  Lifecycle!Next
  <2> DEFINE told == Row(c, j, NoAttempt, "cancelled")
  <2>1. /\ job'[j].status = "cancelled" /\ job'[j].count = job[j].count
        /\ \A k \in Job \ {j} : job'[k] = job[k]
    BY <1>0, <1>3 DEF CancelQueuedJob, JobRow
  <2>2. Phases' = [Phases EXCEPT ![j] = PhaseOf("cancelled")] /\ Rounds' = Rounds
    <3>1. Rounds' = Rounds
      BY <2>1 DEF Rounds
    <3> QED BY <2>1, <3>1, JobMoves
  <2>3. NoticeOf(told)' = <<j, 0, "cancelled">>
    BY DEF NoticeOf, RoundOf, Row
  <2>4. outbox' = outbox \cup {told} /\ attempt' = attempt
    BY <1>3 DEF CancelQueuedJob, Publish
  <2> HIDE DEF told
  <2>5. Notices' = Notices \cup {NoticeOf(r)' : r \in {told}}
    BY <2>4, NoticesCome
  <2>6. Notices' = Notices \cup {<<j, 0, "cancelled">>}
    BY <2>3, <2>5
  <2>7. UNCHANGED EndedRounds
    BY <2>4 DEF EndedRounds, EndedAttempts, EndOf
  <2>8. Lifecycle!Cancel(j)
    BY <1>0, <1>3, <2>2, <2>6, <2>7 DEF CancelQueuedJob, PhaseOf, Terminal, Lifecycle!Cancel
  <2> QED BY <2>8 DEF Lifecycle!Next
<1> QED BY <1>1, <1>2, <1>3 DEF QueueStep

\* StartJob and StartRecoverableJobSuccessor.
LEMMA RunImplements ==
  ASSUME StoreAssumption, StoreInv, NEW o \in Owner, NEW j \in Job, NEW a \in AttemptId,
         NEW e \in 1 .. MaxEpoch, RunStep(o, j, a, e)
  PROVE  Lifecycle!Next
<1>0. /\ job \in [Job -> JobRow] /\ attempt \in [AttemptId -> AttemptRow]
      /\ Phases[j] = PhaseOf(job[j].status) /\ Rounds[j] = job[j].count
  BY DEF StoreInv, TypeOK, Phases, Rounds
<1>1. ASSUME NEW v \in 1 .. MaxVersion, StartJob(j, a, o, e, v) PROVE Lifecycle!Next
  <2>1. /\ job'[j].status = "running" /\ job'[j].count = job[j].count + 1
        /\ \A k \in Job \ {j} : job'[k] = job[k]
    BY <1>0, <1>1 DEF StartJob, JobRow
  <2>2. /\ Phases' = [Phases EXCEPT ![j] = PhaseOf("running")]
        /\ Rounds' = [Rounds EXCEPT ![j] = job[j].count + 1]
    BY <2>1, JobMoves
  <2>3. /\ attempt[a].status = "absent" /\ attempt'[a].status = "running" /\ outbox' = outbox
        /\ \A b \in AttemptId \ {a} : attempt'[b] = attempt[b]
    BY <1>0, <1>1 DEF StartJob, NewAttempt
  <2>4. \A b \in AttemptId : attempt[b].status \in Terminal => attempt'[b] = attempt[b]
    BY <2>3 DEF Terminal
  <2>5. EndedRounds' = EndedRounds \cup {EndOf(b)' : b \in {}}
    BY <2>3, <2>4, RoundsEnd DEF Terminal
  <2>6. Notices' = Notices \cup {NoticeOf(r)' : r \in {}}
    BY <2>3, <2>4, NoticesCome
  <2>7. Lifecycle!Begin(j)
    BY <1>0, <1>1, <2>2, <2>5, <2>6 DEF StartJob, PhaseOf, Terminal, Lifecycle!Begin
  <2> QED BY <2>7 DEF Lifecycle!Next
<1>2. ASSUME NEW v \in 1 .. MaxVersion, NEW w \in 1 .. MaxVersion, NEW source \in AttemptId,
             StartRecoverableJobSuccessor(j, source, a, o, e, v, w)
      PROVE  Lifecycle!Next
  <2>1. /\ job[j].status = "running" /\ j \in Recoverable /\ attempt[source].job = j
        /\ job[j].count = attempt[source].number /\ outbox' = outbox
        /\ attempt[source].status = "running" /\ attempt[a].status = "absent" /\ source # a
    BY <1>2 DEF StartRecoverableJobSuccessor
  <2>2. /\ job'[j].status = "running" /\ job'[j].count = job[j].count + 1
        /\ \A k \in Job \ {j} : job'[k] = job[k]
    BY <1>0, <1>2, <2>1 DEF StartRecoverableJobSuccessor, JobRow
  <2>3. Rounds' = [Rounds EXCEPT ![j] = job[j].count + 1]
    BY <2>2, JobMoves
  <2>3a. Phases' = Phases
    BY <2>1, <2>2 DEF Phases
  <2>4. /\ attempt'[a].status = "running" /\ attempt'[source].status = "interrupted"
        /\ attempt'[source].job = j /\ attempt'[source].number = job[j].count
        /\ \A b \in AttemptId \ {a, source} : attempt'[b] = attempt[b]
    BY <1>0, <1>2, <2>1 DEF StartRecoverableJobSuccessor, NewAttempt, AttemptRow
  <2>5. \A b \in AttemptId : attempt[b].status \in Terminal => attempt'[b] = attempt[b]
    BY <2>1, <2>4 DEF Terminal
  <2>6. EndedRounds' = EndedRounds \cup {EndOf(b)' : b \in {source}}
    BY <2>1, <2>4, <2>5, RoundsEnd DEF Terminal
  <2>7. EndOf(source)' = <<j, job[j].count, "interrupted">>
    BY <2>4 DEF EndOf
  <2>8. Notices' = Notices \cup {NoticeOf(r)' : r \in {}}
    BY <2>1, <2>5, NoticesCome
  <2>9. Lifecycle!Continue(j)
    BY <1>0, <2>1, <2>3, <2>3a, <2>6, <2>7, <2>8 DEF PhaseOf, Terminal, Lifecycle!Continue
  <2> QED BY <2>9 DEF Lifecycle!Next
<1> QED BY <1>1, <1>2 DEF RunStep

\* A running attempt that is published as it ends, by finishJob or by settleRecoverableJob.
LEMMA EndImplements ==
  ASSUME StoreAssumption, StoreInv, NEW o, NEW j \in Job, NEW a \in AttemptId, NEW e,
         NEW s \in Terminal, NEW c, NEW d \in BOOLEAN,
         job[j].status = "running", attempt[a].status = "running", attempt[a].job = j,
         Settled(j, a, o, e, s), Publish(c, j, a, s, d)
  PROVE  Lifecycle!Next
<1> DEFINE told == Row(c, j, a, s)
<1>0. /\ job \in [Job -> JobRow] /\ attempt \in [AttemptId -> AttemptRow]
      /\ Phases[j] = PhaseOf(job[j].status) /\ Rounds[j] = job[j].count
  BY DEF StoreInv, TypeOK, Phases, Rounds
<1>1. attempt[a].number = job[j].count
  BY DEF StoreInv, JobAgreesWithAttempts, RunningOf
<1>2. /\ job'[j].status = s /\ job'[j].count = job[j].count
      /\ \A k \in Job \ {j} : job'[k] = job[k]
  BY <1>0 DEF Settled, JobRow
<1>3. Phases' = [Phases EXCEPT ![j] = PhaseOf(s)]
  BY <1>2, JobMoves
<1>3a. Rounds' = Rounds
  BY <1>2 DEF Rounds
<1>4. /\ attempt'[a].status = s /\ attempt'[a].job = j /\ attempt'[a].number = job[j].count
      /\ \A b \in AttemptId \ {a} : attempt'[b] = attempt[b]
  BY <1>0, <1>1 DEF Settled, AttemptRow
<1>5. \A b \in AttemptId : attempt[b].status \in Terminal => attempt'[b] = attempt[b]
  BY <1>4 DEF Terminal
<1>6. EndedRounds' = EndedRounds \cup {EndOf(b)' : b \in {a}}
  BY <1>4, <1>5, RoundsEnd
<1>7. EndOf(a)' = <<j, job[j].count, s>>
  BY <1>4 DEF EndOf
<1>8. NoticeOf(told)' = <<j, job[j].count, s>>
  BY <1>4 DEF NoticeOf, RoundOf, Row, StoreAssumption
<1>9. outbox' = outbox \cup {told}
  BY DEF Publish
<1> HIDE DEF told
<1>10. Notices' = Notices \cup {NoticeOf(r)' : r \in {told}}
  BY <1>5, <1>9, NoticesCome
<1>11. Notices' = Notices \cup {<<j, job[j].count, s>>}
  BY <1>8, <1>10
<1>12. Lifecycle!End(j, s)
  BY <1>0, <1>3, <1>3a, <1>6, <1>7, <1>11 DEF PhaseOf, Terminal, Lifecycle!End
<1> QED BY <1>12 DEF Lifecycle!Next

\* interruptExpiredJobs, the batch.
LEMMA InterruptImplements ==
  ASSUME StoreAssumption, StoreInv, InterruptExpiredJobs PROVE Lifecycle!LoseOwners(OwnerLost)
<1> DEFINE Told(a) == Row(CompletionOf(a), attempt[a].job, a, "interrupted")
           Over == {<<j, Rounds[j], "interrupted">> : j \in OwnerLost}
<1>1. \A a \in AttemptId : a \in LostAttempts <=>
        attempt[a].status = "running" /\ attempt[a].job \in OwnerLost
  BY DEF LostAttempts, LastRunning, RunningOf, OwnerLost, StoreInv, JobAgreesWithAttempts,
         TypeOK, AttemptRow, JobRow
<1>2. LostAttempts \subseteq AttemptId /\ OwnerLost \subseteq Job \ Recoverable
  BY DEF LostAttempts, LastRunning, RunningOf, OwnerLost
<1>3. /\ \A j \in OwnerLost : Phases[j] = "running" /\ Rounds[j] = job[j].count
      /\ \A j \in OwnerLost : \E a \in LostAttempts : attempt[a].job = j
      /\ \A a \in LostAttempts : attempt[a].number = job[attempt[a].job].count
  BY <1>1, <1>2 DEF OwnerLost, Phases, Rounds, PhaseOf, Terminal, RunningOf, StoreInv,
     JobAgreesWithAttempts
<1>4. Phases' = [j \in Job |-> IF j \in OwnerLost THEN "done" ELSE Phases[j]] /\ Rounds' = Rounds
  <2>1. \A j \in Job : /\ job'[j].count = job[j].count
                        /\ job'[j].status = IF j \in OwnerLost THEN "interrupted" ELSE job[j].status
    BY DEF InterruptExpiredJobs, InterruptedJob
  <2>2. \A j \in Job : PhaseOf(job'[j].status) =
          IF j \in OwnerLost THEN "done" ELSE PhaseOf(job[j].status)
    BY <2>1 DEF PhaseOf, Terminal
  <2> QED BY <2>1, <2>2 DEF Phases, Rounds
<1>5. \A a \in AttemptId :
        /\ a \notin LostAttempts => attempt'[a] = attempt[a]
        /\ a \in LostAttempts => /\ attempt'[a].status = "interrupted"
                                 /\ attempt'[a].number = attempt[a].number
                                 /\ attempt'[a].job = attempt[a].job
  BY DEF InterruptExpiredJobs, InterruptedAttempt
<1>6. \A a \in AttemptId : attempt[a].status \in Terminal => attempt'[a] = attempt[a]
  BY <1>1, <1>5 DEF Terminal
<1>7. EndedRounds' = EndedRounds \cup {EndOf(a)' : a \in LostAttempts}
  BY <1>2, <1>5, <1>6, RoundsEnd DEF Terminal
<1>8. \A a \in LostAttempts : EndOf(a)' = <<attempt[a].job, Rounds[attempt[a].job], "interrupted">>
  BY <1>1, <1>2, <1>3, <1>5 DEF EndOf
<1>9. {EndOf(a)' : a \in LostAttempts} = Over
  BY <1>1, <1>2, <1>3, <1>8
<1>10. outbox' = outbox \cup {Told(a) : a \in LostAttempts}
  BY DEF InterruptExpiredJobs
<1>11. \A a \in LostAttempts : \A r :
         r = Told(a) => NoticeOf(r)' = <<attempt[a].job, Rounds[attempt[a].job], "interrupted">>
  BY <1>1, <1>2, <1>3, <1>5 DEF NoticeOf, RoundOf, Row, StoreAssumption
<1> HIDE DEF Told
<1>12. Notices' = Notices \cup {NoticeOf(r)' : r \in {Told(a) : a \in LostAttempts}}
  BY <1>6, <1>10, NoticesCome
<1>13. {NoticeOf(r)' : r \in {Told(a) : a \in LostAttempts}} = Over
  <2>1. ASSUME NEW r \in {Told(a) : a \in LostAttempts} PROVE NoticeOf(r)' \in Over
    BY <1>1, <1>2, <1>11
  <2>2. ASSUME NEW j \in OwnerLost
        PROVE  \E r \in {Told(a) : a \in LostAttempts} : NoticeOf(r)' = <<j, Rounds[j], "interrupted">>
    BY <1>1, <1>2, <1>3, <1>11
  <2> QED BY <2>1, <2>2
<1>14. OwnerLost # {}
  BY DEF InterruptExpiredJobs
<1> QED BY <1>2, <1>3, <1>4, <1>7, <1>9, <1>12, <1>13, <1>14 DEF Lifecycle!LoseOwners

\* Every transaction is a step of the lifecycle, or none that it can see.
LEMMA StepImplements ==
  ASSUME StoreAssumption, StoreInv, [Next]_vars PROVE [Lifecycle!Next]_(Lifecycle!vars)
<1> SUFFICES ASSUME ~UNCHANGED <<job, attempt, outbox>> PROVE Lifecycle!Next
  BY NothingTold DEF Lifecycle!vars, Phases, Rounds
<1>1. ASSUME NEW o \in Owner, NEW j \in Job, LeaseStep(o, j) PROVE FALSE
  BY <1>1 DEF LeaseStep, AcquireLease, HeartbeatLease, ReleaseLease
<1>2. ASSUME NEW o \in Owner, NEW j \in Job, NEW a \in AttemptId, NEW e \in 1 .. MaxEpoch,
             NEW s \in Outcome, NEW c \in CompletionId, SettleStep(o, j, a, e, s, c)
      PROVE  Lifecycle!Next
  <2>1. ASSUME NEW v \in 1 .. MaxVersion, NEW w \in 1 .. MaxVersion, NEW d \in BOOLEAN,
               FinishJob(j, a, o, e, s, c, v, w, d)
        PROVE  Lifecycle!Next
    <3>1. /\ job[j].status = "running" /\ attempt[a].status = "running" /\ attempt[a].job = j
          /\ Settled(j, a, o, e, s) /\ Publish(c, j, a, s, d) /\ s \in Terminal
      BY <2>1 DEF FinishJob, StoreAssumption
    <3> QED BY <3>1, EndImplements
  <2>2. ASSUME NEW d \in BOOLEAN, SettleRecoverableJob(j, a, o, e, s, c, d)
        PROVE  Lifecycle!Next
    <3>1. /\ job[j].status = "running" /\ attempt[a].status = "running" /\ attempt[a].job = j
          /\ Settled(j, a, o, e, s) /\ Publish(c, j, a, s, d) /\ s \in Terminal
      BY <2>2 DEF SettleRecoverableJob, StoreAssumption
    <3> QED BY <3>1, EndImplements
  <2>3. CASE FinishJobReplay(j, a, o, e, s, c) \/ SettleRecoverableReplay(j, a, s, c)
    BY <2>3 DEF FinishJobReplay, SettleRecoverableReplay, MarkCompletionDelivered
  <2> QED BY <1>2, <2>1, <2>2, <2>3 DEF SettleStep
<1>3. CASE InterruptExpiredJobs
  <2>1. OwnerLost \in SUBSET Job
    BY DEF OwnerLost
  <2> QED BY <1>3, <2>1, InterruptImplements DEF Lifecycle!Next
<1>4. CASE Tick \/ \E c \in CompletionId : MarkCompletionDelivered(c)
  BY <1>4 DEF Tick, MarkCompletionDelivered
<1>5. CASE UNCHANGED vars
  BY <1>5 DEF vars
<1> QED BY <1>1, <1>2, <1>3, <1>4, <1>5, QueueImplements, RunImplements DEF Next

\* Nothing has been asked for.
LEMMA InitImplements == ASSUME Init PROVE Lifecycle!Init
BY DEF Init, NoJobRow, NoAttemptRow, Lifecycle!Init, Phases, Rounds, EndedRounds, EndedAttempts,
       EndOf, Notices, NoticeOf, PhaseOf, Terminal

\* JobStore implements JobLifecycle: however hosts call it, no round ends twice, the notice of
\* an end appears in the transaction that makes it, and only a recoverable job goes from a
\* round to the next without one.
THEOREM StoreImplementsLifecycle == Spec => ImplementsLifecycle
<1>1. Init => Lifecycle!Init
  BY InitImplements
<1>2. StoreInv /\ [Next]_vars => [Lifecycle!Next]_(Lifecycle!vars)
  BY StoreAssumption, StepImplements
<1> QED BY <1>1, <1>2, StoreInvariant, PTL DEF Spec, ImplementsLifecycle, Lifecycle!Spec
=============================================================================
