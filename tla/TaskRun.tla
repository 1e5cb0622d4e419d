------------------------------- MODULE TaskRun -------------------------------
(***************************************************************************)
(* The ledger of one recoverable task                                      *)
(* (packages/storage/src/sqlite/sqlite-task-run-store.ts): the projection  *)
(* applyTaskRunEvent builds from the events of a TaskRun, and the events   *)
(* appendBatch admits.  A batch is one write transaction; it is refused as *)
(* a whole, a stuttering step here, when one of its events is.             *)
(*                                                                         *)
(* assertResumeBatchPairs keeps the start of an attempt in one batch with  *)
(* the claim of its execution, and the start of a successor also with the  *)
(* resume claim and the launch claim: Begin and Resume are those batches.  *)
(* Every other event is a step of its own; a longer batch is a sequence of *)
(* steps during which no time passes.  The callers are arbitrary.          *)
(*                                                                         *)
(* expiresAt > committedAt is ttl > 0: times are the ticks a lease has     *)
(* left.  A resume claim always names the attempt that started with it, so *)
(* the claims are read off the sources of the attempts.                    *)
(***************************************************************************)
EXTENDS Naturals, FiniteSets

CONSTANTS
  Owner,        \* hosts
  Attempt,      \* attempt ids callers draw from
  NoOwner, NoAttempt,
  MaxAttempts,  \* header.maxAttempts
  TTL,          \* bound: the longest lease a caller asks for, in ticks
  MaxEpoch      \* bound: epochs callers use

ASSUME TaskRunAssumption ==
  /\ NoOwner \notin Owner /\ NoAttempt \notin Attempt
  /\ MaxAttempts \in Nat \ {0} /\ TTL \in Nat \ {0} /\ MaxEpoch \in Nat

TaskTerminal == {"succeeded", "failed", "cancelled"}
AttemptTerminal == TaskTerminal \cup {"interrupted"}

Row == [number : Nat, source : Attempt \cup {NoAttempt},
        status : {"absent", "running"} \cup AttemptTerminal, boundary : BOOLEAN]
Execution == [owner : Owner \cup {NoOwner}, epoch : Nat, ttl : 0 .. TTL]
Launch == [status : {"none", "claimed", "succeeded", "failed"}, owner : Owner \cup {NoOwner},
           epoch : Nat, fence : Nat, ttl : 0 .. TTL]

VARIABLES
  attempt,    \* attempts, in the order of their numbers; boundary: it has a Runtime safe boundary
  execution,  \* the execution lease of each attempt
  launch,     \* the launch of each successor; fence is executionLeaseEpoch
  task        \* status of the TaskRun

vars == <<attempt, execution, launch, task>>

NoRow == [number |-> 0, source |-> NoAttempt, status |-> "absent", boundary |-> FALSE]
NoExecution == [owner |-> NoOwner, epoch |-> 0, ttl |-> 0]
NoLaunch == [status |-> "none", owner |-> NoOwner, epoch |-> 0, fence |-> 0, ttl |-> 0]

Init ==
  /\ attempt = [a \in Attempt |-> NoRow]
  /\ execution = [a \in Attempt |-> NoExecution]
  /\ launch = [a \in Attempt |-> NoLaunch]
  /\ task = "queued"

Begun == {a \in Attempt : attempt[a].status # "absent"}
Running == {a \in Attempt : attempt[a].status = "running"}
IsSuccessor(a) == attempt[a].source # NoAttempt
Last == {a \in Begun : \A b \in Begun : attempt[b].number <= attempt[a].number}

\* requireOwnedRunningAttempt: o holds the live execution lease at epoch e.
Owns(o, a, e) ==
  /\ attempt[a].status = "running"
  /\ execution[a].owner = o /\ execution[a].epoch = e /\ execution[a].ttl > 0

-----------------------------------------------------------------------------
(* Attempts begin.                                                         *)

Begins(a, number, source) ==
  attempt' = [attempt EXCEPT ![a] =
    [number |-> number, source |-> source, status |-> "running", boundary |-> FALSE]]
Executes(a, o, e, n) ==
  execution' = [execution EXCEPT ![a] = [owner |-> o, epoch |-> e, ttl |-> n]]

\* attempt.started of the first attempt, with its execution claim.
Begin(a, o, e, n) ==
  /\ task \notin TaskTerminal
  /\ Begun = {}
  /\ Begins(a, 1, NoAttempt)
  /\ Executes(a, o, e, n)
  /\ task' = "running"
  /\ UNCHANGED launch

\* Mutants: the source may be any interrupted attempt; the epoch starts anew.
ResumeAnyInterrupted(source, a, o, n, m) ==
  /\ task \notin TaskTerminal
  /\ attempt[source].status = "interrupted" /\ Running = {}
  /\ attempt[a].status = "absent" /\ attempt[source].number < MaxAttempts
  /\ Begins(a, attempt[source].number + 1, source)
  /\ Executes(a, o, execution[source].epoch + 1, n)
  /\ launch' = [launch EXCEPT ![a] = [status |-> "claimed", owner |-> o, epoch |-> 1,
                                      fence |-> execution[source].epoch + 1, ttl |-> m]]
  /\ task' = "running"
ResumeSameEpoch(source, a, o, n, m) ==
  /\ task \notin TaskTerminal
  /\ attempt[source].status = "interrupted" /\ source \in Last /\ Running = {}
  /\ attempt[a].status = "absent" /\ attempt[source].number < MaxAttempts
  /\ Begins(a, attempt[source].number + 1, source)
  /\ Executes(a, o, execution[source].epoch, n)
  /\ launch' = [launch EXCEPT ![a] = [status |-> "claimed", owner |-> o, epoch |-> 1,
                                      fence |-> execution[source].epoch, ttl |-> m]]
  /\ task' = "running"

\* task.resume.claimed, attempt.started, attempt.execution.claimed and
\* attempt.launch.claimed: the successor of the last attempt, one epoch on.
\* attempts.length is the number of the last attempt (see NumbersCount).
Resume(source, a, o, n, m) ==
  /\ task \notin TaskTerminal
  /\ attempt[source].status = "interrupted" /\ source \in Last
  /\ \A b \in Attempt : attempt[b].source # source
  /\ Running = {}
  /\ attempt[a].status = "absent"
  /\ attempt[source].number < MaxAttempts
  /\ Begins(a, attempt[source].number + 1, source)
  /\ Executes(a, o, execution[source].epoch + 1, n)
  /\ launch' = [launch EXCEPT ![a] = [status |-> "claimed", owner |-> o, epoch |-> 1,
                                      fence |-> execution[source].epoch + 1, ttl |-> m]]
  /\ task' = "running"

-----------------------------------------------------------------------------
(* The execution lease.                                                    *)

\* Mutant: the lease changes hands under the epoch it has.
TakeOverSameEpoch(a, o, n) ==
  /\ attempt[a].status = "running" /\ execution[a].ttl = 0
  /\ Executes(a, o, execution[a].epoch, n)
  /\ UNCHANGED <<attempt, launch, task>>

\* attempt.execution.claimed of an attempt whose lease has run out.
TakeOver(a, o, n) ==
  /\ attempt[a].status = "running" /\ execution[a].ttl = 0
  /\ Executes(a, o, execution[a].epoch + 1, n)
  /\ UNCHANGED <<attempt, launch, task>>

Renew(a, o, e, n) ==
  /\ Owns(o, a, e) /\ n > execution[a].ttl
  /\ Executes(a, o, e, n)
  /\ UNCHANGED <<attempt, launch, task>>

Release(a, o, e) ==
  /\ Owns(o, a, e)
  /\ Executes(a, o, e, 0)
  /\ UNCHANGED <<attempt, launch, task>>

-----------------------------------------------------------------------------
(* What an attempt reports.                                                *)

WasLaunched(a) == IsSuccessor(a) => launch[a].status = "succeeded"
\* Mutant: a successor whose launch failed may end as anything.
CanFinishUnlaunched(a, s) == WasLaunched(a) \/ launch[a].status = "failed"
CanFinish(a, s) == WasLaunched(a) \/ (s = "interrupted" /\ launch[a].status = "failed")

Checkpoint(a, o, e, hasRuntime) ==
  /\ Owns(o, a, e) /\ WasLaunched(a)
  /\ attempt' = [attempt EXCEPT ![a].boundary = hasRuntime]
  /\ UNCHANGED <<execution, launch, task>>

Finish(a, o, e, s) ==
  /\ Owns(o, a, e) /\ CanFinish(a, s)
  /\ attempt' = [attempt EXCEPT ![a].status = s]
  /\ task' = "queued"
  /\ UNCHANGED <<execution, launch>>

-----------------------------------------------------------------------------
(* The launch of a successor.                                              *)

\* Mutant: a launch that succeeded can be claimed again.
ClaimLaunchAgain(a, o, n, m) ==
  /\ attempt[a].status = "running" /\ IsSuccessor(a)
  /\ execution[a].owner = o /\ execution[a].ttl > 0
  /\ n > launch[a].epoch
  /\ ~(launch[a].status = "claimed" /\ launch[a].ttl > 0)
  /\ launch' = [launch EXCEPT ![a] = [status |-> "claimed", owner |-> o, epoch |-> n,
                                      fence |-> execution[a].epoch, ttl |-> m]]
  /\ UNCHANGED <<attempt, execution, task>>

ClaimLaunch(a, o, n, m) ==
  /\ attempt[a].status = "running" /\ IsSuccessor(a)
  /\ execution[a].owner = o /\ execution[a].ttl > 0
  /\ n > launch[a].epoch
  /\ launch[a].status # "succeeded"
  /\ ~(launch[a].status = "claimed" /\ launch[a].ttl > 0)
  /\ launch' = [launch EXCEPT ![a] = [status |-> "claimed", owner |-> o, epoch |-> n,
                                      fence |-> execution[a].epoch, ttl |-> m]]
  /\ UNCHANGED <<attempt, execution, task>>

\* Mutant: settling looks at the launch lease alone.
LaunchLeaseOnly(a, o, n) ==
  /\ attempt[a].status = "running"
  /\ launch[a].status = "claimed" /\ launch[a].owner = o /\ launch[a].epoch = n /\ launch[a].ttl > 0

\* requireCurrentLaunch: both leases are live and the execution is still that
\* of the launch.
HoldsLaunch(a, o, n) ==
  /\ attempt[a].status = "running"
  /\ launch[a].status = "claimed" /\ launch[a].owner = o /\ launch[a].epoch = n /\ launch[a].ttl > 0
  /\ execution[a].owner = o /\ execution[a].epoch = launch[a].fence /\ execution[a].ttl > 0

\* The receipt has to match the Runtime boundary of the source.
LaunchSucceeds(a, o, n) ==
  /\ HoldsLaunch(a, o, n) /\ IsSuccessor(a) /\ attempt[attempt[a].source].boundary
  /\ launch' = [launch EXCEPT ![a].status = "succeeded"]
  /\ UNCHANGED <<attempt, execution, task>>

LaunchFails(a, o, n) ==
  /\ HoldsLaunch(a, o, n)
  /\ launch' = [launch EXCEPT ![a].status = "failed"]
  /\ UNCHANGED <<attempt, execution, task>>

-----------------------------------------------------------------------------
(* The task.                                                               *)

Park ==
  /\ task \notin TaskTerminal /\ Running = {}
  /\ task' = "parked"
  /\ UNCHANGED <<attempt, execution, launch>>

\* task.finished; the attempt it may name has to have ended the same way, which
\* a fact that names none need not show.
FinishTask(s) ==
  /\ task \notin TaskTerminal /\ Running = {}
  /\ task' = s
  /\ UNCHANGED <<attempt, execution, launch>>

Tick ==
  /\ \E a \in Attempt : execution[a].ttl > 0 \/ launch[a].ttl > 0
  /\ execution' = [a \in Attempt |-> [owner |-> execution[a].owner, epoch |-> execution[a].epoch,
       ttl |-> IF execution[a].ttl > 0 THEN execution[a].ttl - 1 ELSE 0]]
  /\ launch' = [a \in Attempt |-> [status |-> launch[a].status, owner |-> launch[a].owner,
       epoch |-> launch[a].epoch, fence |-> launch[a].fence,
       ttl |-> IF launch[a].ttl > 0 THEN launch[a].ttl - 1 ELSE 0]]
  /\ UNCHANGED <<attempt, task>>

-----------------------------------------------------------------------------
Lease == 1 .. TTL
Epoch == 1 .. MaxEpoch

ExecutionStep(o, a) ==
  \/ \E n \in Lease : TakeOver(a, o, n) /\ execution[a].epoch < MaxEpoch
  \/ \E e \in Epoch, n \in Lease : Begin(a, o, e, n) \/ Renew(a, o, e, n)
  \/ \E e \in Epoch : Release(a, o, e)

LaunchStep(o, a) ==
  \/ \E source \in Attempt, n, m \in Lease :
       Resume(source, a, o, n, m) /\ execution[source].epoch < MaxEpoch
  \/ \E n \in Epoch, m \in Lease : ClaimLaunch(a, o, n, m)
  \/ \E n \in Epoch : LaunchSucceeds(a, o, n) \/ LaunchFails(a, o, n)

ReportStep(o, a) ==
  \E e \in Epoch :
    \/ \E hasRuntime \in BOOLEAN : Checkpoint(a, o, e, hasRuntime)
    \/ \E s \in AttemptTerminal : Finish(a, o, e, s)

Next ==
  \/ \E o \in Owner, a \in Attempt : ExecutionStep(o, a) \/ LaunchStep(o, a) \/ ReportStep(o, a)
  \/ Park
  \/ \E s \in TaskTerminal : FinishTask(s)
  \/ Tick

Spec == Init /\ [][Next]_vars
-----------------------------------------------------------------------------
(* What the ledger promises.                                               *)

\* The projection has the shapes task-run-contract.ts gives it.
TypeOK ==
  /\ attempt \in [Attempt -> Row]
  /\ execution \in [Attempt -> Execution]
  /\ launch \in [Attempt -> Launch]
  /\ task \in {"queued", "running", "parked"} \cup TaskTerminal

\* The task runs exactly while an attempt does, one attempt at a time, and the
\* running attempt is the last: the status column and the attempts are written
\* by different events.
OneAtATime ==
  /\ task = "running" <=> Running # {}
  /\ \A a \in Running, b \in Begun : attempt[b].number <= attempt[a].number
  /\ \A a, b \in Running : a = b

\* The attempts are a chain: each but the first continues the interrupted one
\* numbered just before it, none has two successors, and there are no more than
\* maxAttempts.
AttemptsFormChain ==
  /\ \A a \in Begun :
       /\ attempt[a].number \in 1 .. MaxAttempts
       /\ IF IsSuccessor(a)
            THEN /\ attempt[attempt[a].source].status = "interrupted"
                 /\ attempt[a].number = attempt[attempt[a].source].number + 1
            ELSE attempt[a].number = 1
  /\ \A a, b \in Begun : attempt[a].number = attempt[b].number => a = b

\* Epochs fence along the whole chain, not only within an attempt: a later
\* attempt runs under a greater epoch, and a launch belongs to the owner its
\* fence names, or to one that has been fenced off since.
ChainFences ==
  /\ \A a, b \in Begun :
       attempt[a].number < attempt[b].number => execution[a].epoch < execution[b].epoch
  /\ \A a \in Attempt : launch[a].status # "none" =>
       /\ launch[a].fence <= execution[a].epoch
       /\ launch[a].fence = execution[a].epoch => launch[a].owner = execution[a].owner

\* A successor has nothing to report before its launch succeeded, and a launch
\* succeeds only from a Runtime boundary its source left behind.
NothingBeforeLaunch ==
  \A a \in Begun : IsSuccessor(a) =>
    /\ launch[a].status = "succeeded" => attempt[attempt[a].source].boundary
    /\ attempt[a].boundary \/ attempt[a].status \in TaskTerminal => launch[a].status = "succeeded"
    /\ attempt[a].status = "interrupted" => launch[a].status \in {"succeeded", "failed"}

\* Rows nobody has written carry nothing.
Blank ==
  \A a \in Attempt :
    attempt[a].status = "absent" => attempt[a] = NoRow /\ launch[a].status = "none"

\* The inductive invariant.
LedgerInv ==
  TypeOK /\ Blank /\ OneAtATime /\ AttemptsFormChain /\ ChainFences /\ NothingBeforeLaunch

\* attempts.length, which attemptNumber is compared with, is the number of the
\* last attempt, as Resume assumes.
NumbersCount == \A a \in Last : attempt[a].number = Cardinality(Begun)

\* Facts stand: a terminal task, an attempt that has ended and a launch that
\* succeeded are never rewritten, and no epoch goes back.
KeepsFacts ==
  /\ task \in TaskTerminal => task' = task /\ attempt' = attempt
  /\ \A a \in Attempt :
       /\ attempt[a].status \in AttemptTerminal =>
            /\ attempt'[a] = attempt[a]
            /\ execution'[a].owner = execution[a].owner /\ execution'[a].epoch = execution[a].epoch
            /\ launch'[a].status = launch[a].status
       /\ launch[a].status = "succeeded" => launch'[a].status = "succeeded"
       /\ attempt[a].status # "absent" => execution[a].epoch <= execution'[a].epoch
FactsStand == [][KeepsFacts]_vars

\* A launch is settled only by a host that still holds the execution lease under
\* which it claimed the launch, however long the launch itself took.
SettlesLaunchUnderLease ==
  \A a \in Attempt :
    launch[a].status = "claimed" /\ launch'[a].status \in {"succeeded", "failed"} =>
      /\ execution[a].ttl > 0 /\ launch[a].ttl > 0
      /\ execution[a].owner = launch[a].owner /\ execution[a].epoch = launch[a].fence
LaunchSettledByHolder == [][SettlesLaunchUnderLease]_vars
=============================================================================
