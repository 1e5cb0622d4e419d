------------------------- MODULE JobStoreRefinement -------------------------
(***************************************************************************)
(* JobStore implements JobLifecycle: the rows of jobs, job_attempts and    *)
(* completion_outbox are read as phases, ended rounds and notices.         *)
(***************************************************************************)
EXTENDS JobStore

PhaseOf(status) == IF status \in Terminal THEN "done" ELSE status

\* A completion without attempt is that of a cancelled queue entry, round 0.
RoundOf(r) == IF r.attempt = NoAttempt THEN 0 ELSE attempt[r.attempt].number

EndedAttempts == {a \in AttemptId : attempt[a].status \in Terminal}

\* What the tables say of jobs, rounds, ends and notices.
Phases == [j \in Job |-> PhaseOf(job[j].status)]
Rounds == [j \in Job |-> job[j].count]
EndOf(a) == <<attempt[a].job, attempt[a].number, attempt[a].status>>
EndedRounds == {EndOf(a) : a \in EndedAttempts}
NoticeOf(r) == <<r.job, RoundOf(r), r.status>>
Notices == {NoticeOf(r) : r \in outbox}

Lifecycle == INSTANCE JobLifecycle WITH
  phase <- Phases, rounds <- Rounds, ended <- EndedRounds, notices <- Notices

\* Every behaviour of the tables is a behaviour of the lifecycle: no round ends
\* twice, none is told of before it ends or differently from how it ended, and
\* only a recoverable job moves on without a notice.
ImplementsLifecycle == Lifecycle!Spec
=============================================================================
