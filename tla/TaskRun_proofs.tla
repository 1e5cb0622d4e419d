---------------------------- MODULE TaskRun_proofs ----------------------------
(***************************************************************************)
(* Proofs about TaskRun, for every set of hosts and attempt ids, every     *)
(* maxAttempts and every length of lease.                                  *)
(***************************************************************************)
EXTENDS TaskRun, FiniteSetTheorems, TLAPS

\* Every event keeps the shapes of the projection.
LEMMA TypeStep == ASSUME TaskRunAssumption, TypeOK, [Next]_vars PROVE TypeOK'
<1> USE TaskRunAssumption DEF TypeOK, Row, Execution, Launch, Lease, Epoch
<1>0. "running" \notin TaskTerminal /\ "succeeded" \in AttemptTerminal /\ TaskTerminal \subseteq AttemptTerminal
  BY DEF TaskTerminal, AttemptTerminal
<1>1. ASSUME NEW o \in Owner, NEW a \in Attempt, ExecutionStep(o, a) PROVE TypeOK'
  <2>1. ASSUME NEW n \in Lease, TakeOver(a, o, n) PROVE TypeOK'
    BY <2>1 DEF TakeOver, Executes
  <2>2. ASSUME NEW e \in Epoch, NEW n \in Lease, Begin(a, o, e, n) PROVE TypeOK'
    BY <2>2 DEF Begin, Begins, Executes
  <2>3. ASSUME NEW e \in Epoch, NEW n \in Lease, Renew(a, o, e, n) PROVE TypeOK'
    BY <2>3 DEF Renew, Executes
  <2>4. ASSUME NEW e \in Epoch, Release(a, o, e) PROVE TypeOK'
    BY <2>4 DEF Release, Executes
  <2> QED BY <1>1, <2>1, <2>2, <2>3, <2>4 DEF ExecutionStep
<1>2. ASSUME NEW o \in Owner, NEW a \in Attempt, LaunchStep(o, a) PROVE TypeOK'
  <2>1. ASSUME NEW source \in Attempt, NEW n \in Lease, NEW m \in Lease, Resume(source, a, o, n, m)
        PROVE TypeOK'
    BY <2>1 DEF Resume, Begins, Executes
  <2>2. ASSUME NEW n \in Epoch, NEW m \in Lease, ClaimLaunch(a, o, n, m) PROVE TypeOK'
    BY <2>2 DEF ClaimLaunch
  <2>3. ASSUME NEW n \in Epoch, LaunchSucceeds(a, o, n) \/ LaunchFails(a, o, n) PROVE TypeOK'
    <3>1. /\ \/ launch' = [launch EXCEPT ![a].status = "succeeded"]
             \/ launch' = [launch EXCEPT ![a].status = "failed"]
          /\ UNCHANGED <<attempt, execution, task>>
      BY <2>3 DEF LaunchSucceeds, LaunchFails
    <3>2. launch'[a] \in Launch /\ \A b \in Attempt \ {a} : launch'[b] = launch[b]
      BY <3>1
    <3> QED BY <3>1, <3>2
  <2> QED BY <1>2, <2>1, <2>2, <2>3 DEF LaunchStep
<1>3. ASSUME NEW o \in Owner, NEW a \in Attempt, ReportStep(o, a) PROVE TypeOK'
  <2>1. ASSUME NEW row \in Row, attempt' = [attempt EXCEPT ![a] = row]
        PROVE  attempt' \in [Attempt -> Row]
    BY <2>1
  <2>2. ASSUME NEW e \in Epoch, NEW b \in BOOLEAN, Checkpoint(a, o, e, b) PROVE TypeOK'
    <3>1. [attempt[a] EXCEPT !.boundary = b] \in Row
      BY DEF TypeOK, Row
    <3>2. attempt' = [attempt EXCEPT ![a] = [attempt[a] EXCEPT !.boundary = b]]
      BY <2>2 DEF Checkpoint
    <3>3. attempt' \in [Attempt -> Row]
      BY <2>1, <3>1, <3>2
    <3> QED BY <2>2, <3>3 DEF Checkpoint
  <2>3. ASSUME NEW e \in Epoch, NEW s \in AttemptTerminal, Finish(a, o, e, s) PROVE TypeOK'
    <3>1. [attempt[a] EXCEPT !.status = s] \in Row
      BY DEF TypeOK, Row
    <3>2. attempt' = [attempt EXCEPT ![a] = [attempt[a] EXCEPT !.status = s]]
      BY <2>3 DEF Finish
    <3>3. attempt' \in [Attempt -> Row]
      BY <2>1, <3>1, <3>2
    <3> QED BY <2>3, <3>3 DEF Finish
  <2> QED BY <1>3, <2>2, <2>3 DEF ReportStep
<1>4. CASE Park \/ \E s \in TaskTerminal : FinishTask(s)
  BY <1>4 DEF Park, FinishTask
<1>5. CASE Tick
  <2>1. ASSUME NEW a \in Attempt PROVE execution'[a] \in Execution /\ launch'[a] \in Launch
    BY <1>5, <2>1 DEF Tick
  <2> QED BY <1>5, <2>1 DEF Tick
<1>6. CASE UNCHANGED vars
  BY <1>6 DEF vars
<1> QED BY <1>1, <1>2, <1>3, <1>4, <1>5, <1>6 DEF Next
-----------------------------------------------------------------------------
(* The inductive invariant.  Each lemma takes one kind of event.           *)

\* Only leases move, and an epoch only that of a running attempt.
LEMMA LeasesMove ==
  ASSUME LedgerInv, TypeOK', UNCHANGED <<attempt, task>>,
         \A a \in Attempt :
           /\ launch'[a].status = launch[a].status /\ launch'[a].owner = launch[a].owner
           /\ launch'[a].fence = launch[a].fence,
         \A a \in Attempt :
           \/ execution'[a].owner = execution[a].owner /\ execution'[a].epoch = execution[a].epoch
           \/ execution'[a].epoch > execution[a].epoch /\ a \in Running
  PROVE  LedgerInv'
<1>1. Blank' /\ OneAtATime' /\ AttemptsFormChain' /\ NothingBeforeLaunch'
  BY DEF LedgerInv, Blank, OneAtATime, AttemptsFormChain, NothingBeforeLaunch, Begun, Running,
    IsSuccessor
<1>2. ChainFences'
  <2>1. \A a \in Attempt :
          /\ attempt[a].number \in Nat /\ launch[a].fence \in Nat
          /\ execution[a].epoch \in Nat /\ execution'[a].epoch \in Nat
    BY DEF LedgerInv, TypeOK, Row, Execution, Launch
  <2>2. ASSUME NEW a \in Begun, NEW b \in Begun, attempt[a].number < attempt[b].number
        PROVE  execution'[a].epoch < execution'[b].epoch
    <3>1. a \in Attempt /\ b \in Attempt
      BY DEF Begun
    <3>2. a \notin Running
      BY <2>1, <2>2, <3>1 DEF LedgerInv, OneAtATime
    <3>3. execution[a].epoch < execution[b].epoch
      BY <2>2 DEF LedgerInv, ChainFences
    <3> QED BY <2>1, <3>1, <3>2, <3>3
  <2>3. ASSUME NEW a \in Attempt, launch'[a].status # "none"
        PROVE  /\ launch'[a].fence <= execution'[a].epoch
               /\ launch'[a].fence = execution'[a].epoch => launch'[a].owner = execution'[a].owner
    BY <2>1, <2>3 DEF LedgerInv, ChainFences
  <2> QED BY <2>2, <2>3 DEF ChainFences, Begun
<1> QED BY <1>1, <1>2 DEF LedgerInv

\* A new attempt is the last, and runs under the greatest epoch.
LEMMA AttemptBegins ==
  ASSUME TaskRunAssumption, LedgerInv, TypeOK', Running = {}, task' = "running",
         NEW a \in Attempt, attempt[a].status = "absent",
         NEW n \in 1 .. MaxAttempts, NEW source \in Attempt \cup {NoAttempt},
         attempt'[a] = [number |-> n, source |-> source, status |-> "running", boundary |-> FALSE],
         IF source = NoAttempt THEN n = 1
           ELSE attempt[source].status = "interrupted" /\ n = attempt[source].number + 1,
         \A b \in Begun : attempt[b].number < n /\ execution[b].epoch < execution'[a].epoch,
         \A b \in Attempt \ {a} :
           attempt'[b] = attempt[b] /\ execution'[b] = execution[b] /\ launch'[b] = launch[b],
         \/ launch'[a].status = "none"
         \/ /\ launch'[a].status = "claimed"
            /\ launch'[a].fence = execution'[a].epoch /\ launch'[a].owner = execution'[a].owner
  PROVE  LedgerInv'
<1>0. /\ \A b \in Attempt : attempt[b].number \in Nat /\ execution[b].epoch \in Nat
      /\ execution'[a].epoch \in Nat /\ n \in Nat
      /\ Begun' = Begun \cup {a} /\ Running' = {a} /\ a \notin Begun /\ Begun \subseteq Attempt
      /\ \A b \in Begun : b # a /\ attempt'[b] = attempt[b] /\ attempt[b].status # "running"
      /\ NoAttempt \notin Attempt /\ source # a
  BY DEF LedgerInv, TypeOK, Row, Execution, Begun, Running, TaskRunAssumption
<1>1. Blank'
  BY DEF LedgerInv, Blank
<1>2. OneAtATime'
  BY <1>0 DEF OneAtATime
<1>3. AttemptsFormChain'
  <2>1. ASSUME NEW b \in Begun'
        PROVE  /\ attempt'[b].number \in 1 .. MaxAttempts
               /\ IF attempt'[b].source # NoAttempt
                    THEN /\ attempt'[attempt'[b].source].status = "interrupted"
                         /\ attempt'[b].number = attempt'[attempt'[b].source].number + 1
                    ELSE attempt'[b].number = 1
    <3>1. CASE b = a
      BY <1>0, <3>1
    <3>2. CASE b # a
      <4>1. /\ attempt[b].number \in 1 .. MaxAttempts
            /\ IF attempt[b].source # NoAttempt
                 THEN /\ attempt[attempt[b].source].status = "interrupted"
                      /\ attempt[b].number = attempt[attempt[b].source].number + 1
                 ELSE attempt[b].number = 1
        BY <1>0, <3>2 DEF LedgerInv, AttemptsFormChain, IsSuccessor
      <4>2. attempt[b].source \in Attempt \cup {NoAttempt}
        BY <1>0, <3>2 DEF LedgerInv, TypeOK, Row
      <4> QED BY <1>0, <3>2, <4>1, <4>2
    <3> QED BY <3>1, <3>2
  <2>2. \A b, c \in Begun' : attempt'[b].number = attempt'[c].number => b = c
    BY <1>0 DEF LedgerInv, AttemptsFormChain
  <2> QED BY <2>1, <2>2 DEF AttemptsFormChain, IsSuccessor
<1>4. ChainFences'
  <2>1. \A b, c \in Begun' :
          attempt'[b].number < attempt'[c].number => execution'[b].epoch < execution'[c].epoch
    BY <1>0 DEF LedgerInv, ChainFences
  <2>2. \A b \in Attempt : launch'[b].status # "none" =>
          /\ launch'[b].fence <= execution'[b].epoch
          /\ launch'[b].fence = execution'[b].epoch => launch'[b].owner = execution'[b].owner
    BY <1>0 DEF LedgerInv, ChainFences
  <2> QED BY <2>1, <2>2 DEF ChainFences
<1>5. NothingBeforeLaunch'
  <2> SUFFICES ASSUME NEW b \in Begun', attempt'[b].source # NoAttempt
        PROVE  /\ launch'[b].status = "succeeded" => attempt'[attempt'[b].source].boundary
               /\ attempt'[b].boundary \/ attempt'[b].status \in TaskTerminal
                    => launch'[b].status = "succeeded"
               /\ attempt'[b].status = "interrupted" => launch'[b].status \in {"succeeded", "failed"}
    BY DEF NothingBeforeLaunch, IsSuccessor
  <2>1. CASE b = a
    BY <2>1 DEF TaskTerminal
  <2>2. CASE b # a
    <3>1. b \in Begun /\ attempt[b].source # a /\ attempt[b].source \in Attempt
      BY <1>0, <2>2 DEF LedgerInv, AttemptsFormChain, IsSuccessor, TypeOK, Row
    <3> QED BY <1>0, <2>2, <3>1 DEF LedgerInv, NothingBeforeLaunch, IsSuccessor
  <2> QED BY <2>1, <2>2
<1> QED BY <1>1, <1>2, <1>3, <1>4, <1>5 DEF LedgerInv

\* A running attempt leaves a boundary or ends, once it may.
LEMMA AttemptReports ==
  ASSUME TaskRunAssumption, LedgerInv, TypeOK', UNCHANGED <<execution, launch>>,
         NEW a \in Running, \A b \in Attempt \ {a} : attempt'[b] = attempt[b],
         attempt'[a].number = attempt[a].number, attempt'[a].source = attempt[a].source,
         attempt'[a].status # "absent",
         task' = "running" <=> attempt'[a].status = "running",
         IsSuccessor(a) =>
           \/ launch[a].status = "succeeded"
           \/ /\ launch[a].status = "failed" /\ attempt'[a].status = "interrupted"
              /\ attempt'[a].boundary = attempt[a].boundary
  PROVE  LedgerInv'
<1>0. /\ Begun' = Begun /\ a \in Begun /\ a \in Attempt /\ Begun \subseteq Attempt
      /\ Running \subseteq Begun /\ Running' \subseteq Running
      /\ a \in Running' <=> attempt'[a].status = "running"
      /\ \A b \in Attempt : attempt'[b].number = attempt[b].number /\ attempt'[b].source = attempt[b].source
  BY DEF Begun, Running
<1>1. \A b \in Begun : IsSuccessor(b) => attempt[b].source # a /\ attempt[b].source \in Attempt
  BY <1>0 DEF LedgerInv, AttemptsFormChain, IsSuccessor, Running, TypeOK, Row
<1>2. Blank'
  BY <1>0 DEF LedgerInv, Blank
<1>3. OneAtATime'
  <2>1. \A b \in Running' : b = a
    BY <1>0 DEF LedgerInv, OneAtATime
  <2> QED BY <1>0, <2>1 DEF LedgerInv, OneAtATime
<1>4. AttemptsFormChain'
  BY <1>0, <1>1 DEF LedgerInv, AttemptsFormChain, IsSuccessor
<1>5. ChainFences'
  BY <1>0 DEF LedgerInv, ChainFences
<1>6. NothingBeforeLaunch'
  <2> SUFFICES ASSUME NEW b \in Begun, attempt[b].source # NoAttempt
        PROVE  /\ launch[b].status = "succeeded" => attempt'[attempt[b].source].boundary
               /\ attempt'[b].boundary \/ attempt'[b].status \in TaskTerminal
                    => launch[b].status = "succeeded"
               /\ attempt'[b].status = "interrupted" => launch[b].status \in {"succeeded", "failed"}
    BY <1>0 DEF NothingBeforeLaunch, IsSuccessor
  <2>1. attempt'[attempt[b].source] = attempt[attempt[b].source]
    BY <1>1 DEF IsSuccessor
  <2>2. CASE b = a
    BY <2>1, <2>2 DEF LedgerInv, NothingBeforeLaunch, IsSuccessor, TaskTerminal
  <2>3. CASE b # a
    BY <1>0, <2>1, <2>3 DEF LedgerInv, NothingBeforeLaunch, IsSuccessor
  <2> QED BY <2>2, <2>3
<1> QED BY <1>2, <1>3, <1>4, <1>5, <1>6 DEF LedgerInv

\* The launch of a running attempt moves on, unless it has succeeded.
LEMMA LaunchMoves ==
  ASSUME LedgerInv, TypeOK', UNCHANGED <<attempt, execution, task>>,
         NEW a \in Running, launch[a].status # "succeeded",
         \A b \in Attempt \ {a} : launch'[b] = launch[b],
         launch'[a].fence = execution[a].epoch, launch'[a].owner = execution[a].owner,
         launch'[a].status = "succeeded" => attempt[attempt[a].source].boundary
  PROVE  LedgerInv'
<1>0. a \in Attempt /\ a \in Begun /\ attempt[a].status = "running" /\ execution[a].epoch \in Nat
  BY DEF Running, Begun, LedgerInv, TypeOK, Execution
<1>1. Blank' /\ OneAtATime' /\ AttemptsFormChain'
  BY <1>0 DEF LedgerInv, Blank, OneAtATime, AttemptsFormChain, Begun, Running, IsSuccessor
<1>2. ChainFences'
  BY <1>0 DEF LedgerInv, ChainFences, Begun
<1>3. NothingBeforeLaunch'
  BY <1>0 DEF LedgerInv, NothingBeforeLaunch, Begun, IsSuccessor, TaskTerminal
<1> QED BY <1>1, <1>2, <1>3 DEF LedgerInv

\* Every event keeps the invariant.
LEMMA LedgerStep == ASSUME TaskRunAssumption, LedgerInv, [Next]_vars PROVE LedgerInv'
<1>0. TypeOK /\ TypeOK'
  BY TypeStep DEF LedgerInv
<1>1. /\ attempt \in [Attempt -> Row] /\ execution \in [Attempt -> Execution]
      /\ launch \in [Attempt -> Launch] /\ MaxAttempts \in Nat /\ MaxEpoch \in Nat
      /\ \A b \in Attempt : attempt[b].number \in Nat /\ execution[b].epoch \in Nat
  BY <1>0 DEF TypeOK, TaskRunAssumption, Row, Execution
<1>2. ASSUME NEW o \in Owner, NEW a \in Attempt, ExecutionStep(o, a) PROVE LedgerInv'
  <2>1. ASSUME NEW n \in Lease, TakeOver(a, o, n) PROVE LedgerInv'
    <3>1. a \in Running /\ UNCHANGED <<attempt, launch, task>>
      BY <2>1 DEF TakeOver, Running
    <3>2. execution'[a].epoch > execution[a].epoch /\ \A b \in Attempt \ {a} : execution'[b] = execution[b]
      BY <1>1, <2>1 DEF TakeOver, Executes
    <3> QED BY <1>0, <3>1, <3>2, LeasesMove
  <2>2. ASSUME NEW e \in Epoch, Release(a, o, e) \/ \E n \in Lease : Renew(a, o, e, n)
        PROVE  LedgerInv'
    <3>1. UNCHANGED <<attempt, launch, task>>
      BY <2>2 DEF Renew, Release
    <3>2. \A b \in Attempt : execution'[b].owner = execution[b].owner /\ execution'[b].epoch = execution[b].epoch
      BY <1>1, <2>2 DEF Renew, Release, Executes, Owns
    <3> QED BY <1>0, <3>1, <3>2, LeasesMove
  <2>3. ASSUME NEW e \in Epoch, NEW n \in Lease, Begin(a, o, e, n) PROVE LedgerInv'
    <3>1. Begun = {} /\ Running = {} /\ attempt[a].status = "absent" /\ launch[a].status = "none"
          /\ task' = "running" /\ launch' = launch
      BY <2>3 DEF Begin, Begun, Running, LedgerInv, Blank
    <3>2. /\ attempt'[a] = [number |-> 1, source |-> NoAttempt, status |-> "running", boundary |-> FALSE]
          /\ \A b \in Attempt \ {a} : attempt'[b] = attempt[b] /\ execution'[b] = execution[b]
      BY <1>1, <2>3 DEF Begin, Begins, Executes
    <3>3. 1 \in 1 .. MaxAttempts
      BY DEF TaskRunAssumption
    <3> QED BY <1>0, <3>1, <3>2, <3>3, AttemptBegins
  <2> QED BY <1>2, <2>1, <2>2, <2>3 DEF ExecutionStep
<1>3. ASSUME NEW o \in Owner, NEW a \in Attempt, LaunchStep(o, a) PROVE LedgerInv'
  <2>1. ASSUME NEW source \in Attempt, NEW n \in Lease, NEW m \in Lease, Resume(source, a, o, n, m)
        PROVE LedgerInv'
    <3>1. /\ Running = {} /\ attempt[a].status = "absent" /\ task' = "running"
          /\ attempt[source].status = "interrupted" /\ source # NoAttempt
          /\ attempt[source].number + 1 \in 1 .. MaxAttempts
      BY <1>1, <2>1 DEF Resume, TaskRunAssumption
    <3>2. /\ attempt'[a] = [number |-> attempt[source].number + 1, source |-> source,
                            status |-> "running", boundary |-> FALSE]
          /\ execution'[a].epoch = execution[source].epoch + 1
          /\ launch'[a].status = "claimed" /\ launch'[a].fence = execution'[a].epoch
          /\ launch'[a].owner = execution'[a].owner
          /\ \A b \in Attempt \ {a} :
               attempt'[b] = attempt[b] /\ execution'[b] = execution[b] /\ launch'[b] = launch[b]
      BY <1>1, <2>1 DEF Resume, Begins, Executes
    <3>3. ASSUME NEW b \in Begun
          PROVE  attempt[b].number < attempt[source].number + 1 /\ execution[b].epoch < execution'[a].epoch
      <4>1. b \in Attempt /\ source \in Begun /\ attempt[b].number <= attempt[source].number
        BY <2>1 DEF Resume, Last, Begun
      <4>2. execution[b].epoch <= execution[source].epoch
        <5>1. CASE attempt[b].number < attempt[source].number
          BY <1>1, <4>1, <5>1 DEF LedgerInv, ChainFences
        <5>2. CASE attempt[b].number = attempt[source].number
          <6>1. b = source
            BY <4>1, <5>2 DEF LedgerInv, AttemptsFormChain
          <6> QED BY <1>1, <6>1
        <5> QED BY <1>1, <4>1, <5>1, <5>2
      <4> QED BY <1>1, <3>2, <4>1, <4>2
    <3> QED BY <1>0, <3>1, <3>2, <3>3, AttemptBegins
  <2>2. ASSUME NEW n \in Epoch, NEW m \in Lease, ClaimLaunch(a, o, n, m) PROVE LedgerInv'
    <3>1. /\ a \in Running /\ launch[a].status # "succeeded" /\ UNCHANGED <<attempt, execution, task>>
          /\ execution[a].owner = o
      BY <2>2 DEF ClaimLaunch, Running
    <3>2. /\ launch'[a].fence = execution[a].epoch /\ launch'[a].owner = o /\ launch'[a].status = "claimed"
          /\ \A b \in Attempt \ {a} : launch'[b] = launch[b]
      BY <1>1, <2>2 DEF ClaimLaunch
    <3> QED BY <1>0, <3>1, <3>2, LaunchMoves
  <2>3. ASSUME NEW n \in Epoch, LaunchSucceeds(a, o, n) \/ LaunchFails(a, o, n) PROVE LedgerInv'
    <3>1. /\ a \in Running /\ launch[a].status = "claimed" /\ UNCHANGED <<attempt, execution, task>>
          /\ launch[a].owner = o /\ execution[a].owner = o /\ execution[a].epoch = launch[a].fence
      BY <2>3 DEF LaunchSucceeds, LaunchFails, HoldsLaunch, Running
    <3>2. /\ launch'[a].fence = launch[a].fence /\ launch'[a].owner = launch[a].owner
          /\ \A b \in Attempt \ {a} : launch'[b] = launch[b]
          /\ launch'[a].status = "succeeded" => attempt[attempt[a].source].boundary
      BY <1>1, <2>3 DEF LaunchSucceeds, LaunchFails, Launch
    <3> QED BY <1>0, <3>1, <3>2, LaunchMoves
  <2> QED BY <1>3, <2>1, <2>2, <2>3 DEF LaunchStep
<1>4. ASSUME NEW o \in Owner, NEW a \in Attempt, ReportStep(o, a) PROVE LedgerInv'
  <2>1. ASSUME NEW e \in Epoch, NEW b \in BOOLEAN, Checkpoint(a, o, e, b) PROVE LedgerInv'
    <3>1. /\ a \in Running /\ UNCHANGED <<execution, launch, task>> /\ task = "running"
          /\ IsSuccessor(a) => launch[a].status = "succeeded"
      BY <2>1 DEF Checkpoint, Owns, Running, WasLaunched, LedgerInv, OneAtATime
    <3>2. /\ attempt'[a].number = attempt[a].number /\ attempt'[a].source = attempt[a].source
          /\ attempt'[a].status = "running" /\ \A c \in Attempt \ {a} : attempt'[c] = attempt[c]
      BY <1>1, <2>1 DEF Checkpoint, Owns, Row
    <3> QED BY <1>0, <3>1, <3>2, AttemptReports
  <2>2. ASSUME NEW e \in Epoch, NEW s \in AttemptTerminal, Finish(a, o, e, s) PROVE LedgerInv'
    <3>1. /\ a \in Running /\ UNCHANGED <<execution, launch>> /\ task' = "queued"
          /\ IsSuccessor(a) => \/ launch[a].status = "succeeded"
                               \/ launch[a].status = "failed" /\ s = "interrupted"
      BY <2>2 DEF Finish, Owns, Running, CanFinish, WasLaunched
    <3>2. /\ attempt'[a].number = attempt[a].number /\ attempt'[a].source = attempt[a].source
          /\ attempt'[a].status = s /\ attempt'[a].boundary = attempt[a].boundary
          /\ \A c \in Attempt \ {a} : attempt'[c] = attempt[c]
      BY <1>1, <2>2 DEF Finish, Row
    <3>3. s \notin {"running", "absent"}
      BY DEF AttemptTerminal, TaskTerminal
    <3> QED BY <1>0, <3>1, <3>2, <3>3, AttemptReports
  <2> QED BY <1>4, <2>1, <2>2 DEF ReportStep
<1>5. CASE Park \/ \E s \in TaskTerminal : FinishTask(s)
  <2>1. Running = {} /\ task # "running" /\ task' # "running" /\ UNCHANGED <<attempt, execution, launch>>
    BY <1>5 DEF Park, FinishTask, TaskTerminal, LedgerInv, OneAtATime
  <2> QED BY <1>0, <2>1 DEF LedgerInv, Blank, OneAtATime, AttemptsFormChain, ChainFences,
        NothingBeforeLaunch, Begun, Running, IsSuccessor
<1>6. CASE Tick
  <2>1. UNCHANGED <<attempt, task>> /\ \A a \in Attempt :
          /\ launch'[a].status = launch[a].status /\ launch'[a].owner = launch[a].owner
          /\ launch'[a].fence = launch[a].fence
          /\ execution'[a].owner = execution[a].owner /\ execution'[a].epoch = execution[a].epoch
    BY <1>6 DEF Tick
  <2> QED BY <1>0, <2>1, LeasesMove
<1>7. CASE UNCHANGED vars
  BY <1>0, <1>7 DEF vars, LedgerInv, Blank, OneAtATime, AttemptsFormChain, ChainFences,
    NothingBeforeLaunch, Begun, Running, IsSuccessor
<1> QED BY <1>2, <1>3, <1>4, <1>5, <1>6, <1>7 DEF Next

\* The projection stays coherent whatever events any hosts append.
THEOREM LedgerInvariant == Spec => []LedgerInv
<1>1. Init => LedgerInv
  BY TaskRunAssumption DEF Init, NoRow, NoExecution, NoLaunch, LedgerInv, TypeOK, Row, Execution,
    Launch, Blank, OneAtATime, AttemptsFormChain, ChainFences, NothingBeforeLaunch, Begun, Running,
    AttemptTerminal, TaskTerminal
<1>2. LedgerInv /\ [Next]_vars => LedgerInv'
  BY TaskRunAssumption, LedgerStep
<1> QED BY <1>1, <1>2, PTL DEF Spec

\* The task and its attempts agree on what runs, and only the last attempt runs.
THEOREM RunsOneAttempt == Spec => []OneAtATime
<1>1. LedgerInv => OneAtATime
  BY DEF LedgerInv
<1> QED BY <1>1, LedgerInvariant, PTL

\* Two hosts that resume the same task never fork its attempts.
THEOREM NeverForks == Spec => []AttemptsFormChain
<1>1. LedgerInv => AttemptsFormChain
  BY DEF LedgerInv
<1> QED BY <1>1, LedgerInvariant, PTL

\* A later attempt fences every earlier one.
THEOREM LaterFencesEarlier == Spec => []ChainFences
<1>1. LedgerInv => ChainFences
  BY DEF LedgerInv
<1> QED BY <1>1, LedgerInvariant, PTL

\* Nothing is reported of a successor that was never launched.
THEOREM LaunchComesFirst == Spec => []NothingBeforeLaunch
<1>1. LedgerInv => NothingBeforeLaunch
  BY DEF LedgerInv
<1> QED BY <1>1, LedgerInvariant, PTL
-----------------------------------------------------------------------------
(* What a step may not do.                                                 *)

\* No event touches what is settled.
LEMMA StepKeepsFacts == ASSUME TaskRunAssumption, LedgerInv, Next PROVE KeepsFacts
<1>0. /\ attempt \in [Attempt -> Row] /\ execution \in [Attempt -> Execution]
      /\ launch \in [Attempt -> Launch] /\ \A b \in Attempt : execution[b].epoch \in Nat
      /\ \A b \in Running : task \notin TaskTerminal
      /\ \A b \in Attempt : attempt[b].status = "absent" => launch[b].status = "none"
      /\ "absent" \notin AttemptTerminal /\ "running" \notin AttemptTerminal
  BY DEF LedgerInv, TypeOK, Execution, OneAtATime, Blank, TaskTerminal, AttemptTerminal
<1>1. ASSUME NEW o \in Owner, NEW a \in Attempt, ExecutionStep(o, a) PROVE KeepsFacts
  <2>1. ASSUME NEW n \in Lease, TakeOver(a, o, n) PROVE KeepsFacts
    BY <1>0, <2>1 DEF TakeOver, Executes, KeepsFacts
  <2>2. ASSUME NEW e \in Epoch, NEW n \in Lease, Begin(a, o, e, n) PROVE KeepsFacts
    BY <1>0, <2>2 DEF Begin, Begins, Begun, Executes, KeepsFacts
  <2>3. ASSUME NEW e \in Epoch, Release(a, o, e) \/ \E n \in Lease : Renew(a, o, e, n)
        PROVE  KeepsFacts
    BY <1>0, <2>3 DEF Renew, Release, Owns, Executes, KeepsFacts
  <2> QED BY <1>1, <2>1, <2>2, <2>3 DEF ExecutionStep
<1>2. ASSUME NEW o \in Owner, NEW a \in Attempt, LaunchStep(o, a) PROVE KeepsFacts
  <2>1. ASSUME NEW source \in Attempt, NEW n \in Lease, NEW m \in Lease, Resume(source, a, o, n, m)
        PROVE KeepsFacts
    BY <1>0, <2>1 DEF Resume, Begins, Executes, KeepsFacts
  <2>2. ASSUME NEW n \in Epoch, NEW m \in Lease, ClaimLaunch(a, o, n, m) PROVE KeepsFacts
    BY <1>0, <2>2 DEF ClaimLaunch, KeepsFacts
  <2>3. ASSUME NEW n \in Epoch, LaunchSucceeds(a, o, n) \/ LaunchFails(a, o, n) PROVE KeepsFacts
    BY <1>0, <2>3 DEF LaunchSucceeds, LaunchFails, HoldsLaunch, KeepsFacts
  <2> QED BY <1>2, <2>1, <2>2, <2>3 DEF LaunchStep
<1>3. ASSUME NEW o \in Owner, NEW a \in Attempt, ReportStep(o, a) PROVE KeepsFacts
  <2>1. a \in Running /\ UNCHANGED <<execution, launch>>
          /\ \A b \in Attempt \ {a} : attempt'[b] = attempt[b]
    BY <1>0, <1>3 DEF ReportStep, Checkpoint, Finish, Owns, Running
  <2> QED BY <1>0, <2>1 DEF KeepsFacts, Running
<1>4. CASE Park \/ \E s \in TaskTerminal : FinishTask(s)
  BY <1>0, <1>4 DEF Park, FinishTask, KeepsFacts
<1>5. CASE Tick
  BY <1>0, <1>5 DEF Tick, KeepsFacts
<1> QED BY <1>1, <1>2, <1>3, <1>4, <1>5 DEF Next

\* A late event rewrites nothing that has ended, and no epoch goes back.
THEOREM SettledStands == Spec => FactsStand
<1>1. LedgerInv /\ [Next]_vars => [KeepsFacts]_vars
  BY TaskRunAssumption, StepKeepsFacts
<1> QED BY <1>1, LedgerInvariant, PTL DEF Spec, FactsStand

\* Only the two launch events settle a launch, and they ask for both leases.
LEMMA StepSettlesLaunchUnderLease ==
  ASSUME TaskRunAssumption, TypeOK, Next PROVE SettlesLaunchUnderLease
<1> SUFFICES ASSUME NEW b \in Attempt,
                    launch[b].status = "claimed", launch'[b].status \in {"succeeded", "failed"}
             PROVE  /\ execution[b].ttl > 0 /\ launch[b].ttl > 0
                    /\ execution[b].owner = launch[b].owner /\ execution[b].epoch = launch[b].fence
  BY DEF SettlesLaunchUnderLease
<1>0. launch \in [Attempt -> Launch]
  BY DEF TypeOK
<1>1. CASE UNCHANGED launch
  BY <1>1
<1>2. ASSUME NEW o \in Owner, NEW a \in Attempt, LaunchStep(o, a)
      PROVE  /\ execution[b].ttl > 0 /\ launch[b].ttl > 0
             /\ execution[b].owner = launch[b].owner /\ execution[b].epoch = launch[b].fence
  <2>1. ASSUME NEW n \in Epoch, LaunchSucceeds(a, o, n) \/ LaunchFails(a, o, n)
        PROVE  /\ execution[b].ttl > 0 /\ launch[b].ttl > 0
               /\ execution[b].owner = launch[b].owner /\ execution[b].epoch = launch[b].fence
    <3>1. a = b
      BY <1>0, <2>1 DEF LaunchSucceeds, LaunchFails
    <3> QED BY <2>1, <3>1 DEF LaunchSucceeds, LaunchFails, HoldsLaunch
  <2>2. ASSUME NEW n \in Epoch, NEW m \in Lease, ClaimLaunch(a, o, n, m) PROVE FALSE
    BY <1>0, <2>2 DEF ClaimLaunch
  <2>3. ASSUME NEW source \in Attempt, NEW n \in Lease, NEW m \in Lease, Resume(source, a, o, n, m)
        PROVE  FALSE
    BY <1>0, <2>3 DEF Resume
  <2> QED BY <1>2, <2>1, <2>2, <2>3 DEF LaunchStep
<1>3. CASE \/ \E o \in Owner, a \in Attempt : ExecutionStep(o, a) \/ ReportStep(o, a)
           \/ Park
           \/ \E s \in TaskTerminal : FinishTask(s)
  BY <1>1, <1>3 DEF ExecutionStep, TakeOver, Begin, Renew, Release, ReportStep, Checkpoint, Finish,
    Park, FinishTask
<1>4. CASE Tick
  BY <1>4 DEF Tick
<1> QED BY <1>2, <1>3, <1>4 DEF Next

\* A host whose lease was taken over while it launched settles nothing.
THEOREM HolderSettlesLaunch == Spec => LaunchSettledByHolder
<1>1. Init => TypeOK
  BY TaskRunAssumption DEF Init, NoRow, NoExecution, NoLaunch, TypeOK, Row, Execution, Launch,
    AttemptTerminal, TaskTerminal
<1>2. TypeOK /\ [Next]_vars => TypeOK' /\ [SettlesLaunchUnderLease]_vars
  BY TaskRunAssumption, TypeStep, StepSettlesLaunchUnderLease
<1> QED BY <1>1, <1>2, PTL DEF Spec, LaunchSettledByHolder
-----------------------------------------------------------------------------
(* attempts.length and attemptNumber.                                      *)

Counted == IsFiniteSet(Begun) /\ NumbersCount

\* An event begins no attempt, or one, which is numbered after the last.
LEMMA BegunGrows ==
  ASSUME TaskRunAssumption, TypeOK, [Next]_vars
  PROVE  \/ Begun' = Begun /\ \A b \in Attempt : attempt'[b].number = attempt[b].number
         \/ \E a \in Attempt \ Begun :
              /\ Begun' = Begun \cup {a}
              /\ \A b \in Begun : attempt'[b] = attempt[b]
              /\ \/ Begun = {} /\ attempt'[a].number = 1
                 \/ \E s \in Last : attempt'[a].number = attempt[s].number + 1
<1>1. attempt \in [Attempt -> Row] /\ "absent" \notin AttemptTerminal
  BY DEF TypeOK, AttemptTerminal, TaskTerminal
<1>2. CASE UNCHANGED attempt
  BY <1>2 DEF Begun
<1>3. ASSUME NEW a \in Attempt, NEW n, NEW s, Begins(a, n, s), attempt[a].status = "absent"
      PROVE  /\ a \in Attempt \ Begun /\ Begun' = Begun \cup {a} /\ attempt'[a].number = n
             /\ \A b \in Begun : attempt'[b] = attempt[b]
  BY <1>1, <1>3 DEF Begins, Begun
<1>4. ASSUME NEW o \in Owner, NEW a \in Attempt, NEW e \in Epoch, NEW n \in Lease, Begin(a, o, e, n)
      PROVE  \E c \in Attempt \ Begun :
               /\ Begun' = Begun \cup {c}
               /\ \A b \in Begun : attempt'[b] = attempt[b]
               /\ Begun = {} /\ attempt'[c].number = 1
  <2>1. Begins(a, 1, NoAttempt) /\ attempt[a].status = "absent" /\ Begun = {}
    BY <1>4 DEF Begin, Begun
  <2> QED BY <1>3, <2>1
<1>5. ASSUME NEW o \in Owner, NEW a \in Attempt, NEW s \in Attempt, NEW n \in Lease, NEW m \in Lease,
             Resume(s, a, o, n, m)
      PROVE  \E c \in Attempt \ Begun :
               /\ Begun' = Begun \cup {c}
               /\ \A b \in Begun : attempt'[b] = attempt[b]
               /\ \E l \in Last : attempt'[c].number = attempt[l].number + 1
  <2>1. Begins(a, attempt[s].number + 1, s) /\ attempt[a].status = "absent" /\ s \in Last
    BY <1>5 DEF Resume
  <2> QED BY <1>3, <2>1
<1>6. ASSUME NEW o \in Owner, NEW a \in Attempt, ReportStep(o, a)
      PROVE  Begun' = Begun /\ \A b \in Attempt : attempt'[b].number = attempt[b].number
  <2>1. ASSUME NEW e \in Epoch, NEW h \in BOOLEAN, Checkpoint(a, o, e, h)
        PROVE  \A b \in Attempt : /\ attempt'[b].status = attempt[b].status
                                  /\ attempt'[b].number = attempt[b].number
    <3>1. /\ \A b \in Attempt \ {a} : attempt'[b] = attempt[b]
          /\ attempt'[a] = [attempt[a] EXCEPT !.boundary = h] /\ attempt[a] \in Row
      BY <1>1, <2>1 DEF Checkpoint
    <3>2. attempt'[a].status = attempt[a].status /\ attempt'[a].number = attempt[a].number
      BY <3>1 DEF Row
    <3> QED BY <3>1, <3>2
  <2>2. ASSUME NEW e \in Epoch, NEW s \in AttemptTerminal, Finish(a, o, e, s)
        PROVE  \A b \in Attempt : /\ attempt'[b].status = "absent" <=> attempt[b].status = "absent"
                                  /\ attempt'[b].number = attempt[b].number
    <3>1. /\ \A b \in Attempt \ {a} : attempt'[b] = attempt[b]
          /\ attempt'[a] = [attempt[a] EXCEPT !.status = s] /\ attempt[a] \in Row
          /\ attempt[a].status = "running"
      BY <1>1, <2>2 DEF Finish, Owns
    <3>2. attempt'[a].status = s /\ attempt'[a].number = attempt[a].number
      BY <3>1 DEF Row
    <3> QED BY <1>1, <3>1, <3>2
  <2> QED BY <1>6, <2>1, <2>2 DEF ReportStep, Begun
<1>7. CASE Park \/ Tick \/ (\E s \in TaskTerminal : FinishTask(s)) \/ UNCHANGED vars
  BY <1>2, <1>7 DEF Park, Tick, FinishTask, vars
<1>8. ASSUME NEW o \in Owner, NEW a \in Attempt, ExecutionStep(o, a) \/ LaunchStep(o, a),
             ~UNCHANGED attempt
      PROVE  \/ \E e \in Epoch, n \in Lease : Begin(a, o, e, n)
             \/ \E s \in Attempt, n, m \in Lease : Resume(s, a, o, n, m)
  BY <1>8 DEF ExecutionStep, LaunchStep, TakeOver, Renew, Release, ClaimLaunch, LaunchSucceeds,
    LaunchFails
<1> QED BY <1>2, <1>4, <1>5, <1>6, <1>7, <1>8 DEF Next

LEMMA CountStep ==
  ASSUME TaskRunAssumption, TypeOK, Counted, [Next]_vars PROVE Counted'
<1>1. \A b \in Attempt : attempt[b].number \in Nat
  BY DEF TypeOK, Row, TaskRunAssumption
<1>2. CASE Begun' = Begun /\ \A b \in Attempt : attempt'[b].number = attempt[b].number
  <2>1. Last' = Last
    BY <1>2 DEF Last, Begun
  <2> QED BY <1>2, <2>1 DEF Counted, NumbersCount, Last, Begun
<1>3. ASSUME NEW a \in Attempt \ Begun, Begun' = Begun \cup {a},
             \A b \in Begun : attempt'[b] = attempt[b],
             \/ Begun = {} /\ attempt'[a].number = 1
             \/ \E s \in Last : attempt'[a].number = attempt[s].number + 1
      PROVE  Counted'
  <2>1. IsFiniteSet(Begun') /\ Cardinality(Begun') = Cardinality(Begun) + 1
    BY <1>3, FS_AddElement DEF Counted
  <2>2. attempt'[a].number = Cardinality(Begun')
    <3>1. CASE Begun = {} /\ attempt'[a].number = 1
      BY <2>1, <3>1, FS_EmptySet
    <3>2. CASE \E s \in Last : attempt'[a].number = attempt[s].number + 1
      BY <2>1, <3>2 DEF Counted, NumbersCount
    <3> QED BY <1>3, <3>1, <3>2
  <2>3. ASSUME NEW b \in Begun PROVE attempt'[b].number < attempt'[a].number
    <3>1. b \in Attempt /\ attempt'[b] = attempt[b]
      BY <1>3 DEF Begun
    <3>2. PICK s \in Last : attempt'[a].number = attempt[s].number + 1
      BY <1>3, <2>3
    <3>3. s \in Attempt /\ attempt[b].number <= attempt[s].number
      BY DEF Last, Begun
    <3> QED BY <1>1, <3>1, <3>2, <3>3
  <2>4. ASSUME NEW c \in Last' PROVE c = a
    <3>1. c \in Begun' /\ attempt'[a].number <= attempt'[c].number
      BY <1>3 DEF Last
    <3>2. CASE c \in Begun
      <4>1. /\ attempt'[c].number < attempt'[a].number /\ attempt'[c].number \in Nat
            /\ attempt'[a].number \in Nat
        BY <1>1, <1>3, <2>3, <3>2 DEF Last, Begun
      <4> QED BY <3>1, <4>1
    <3> QED BY <1>3, <3>1, <3>2
  <2> QED BY <2>1, <2>2, <2>4 DEF Counted, NumbersCount
<1> QED BY <1>2, <1>3, BegunGrows

\* attempts.length is the number of the last attempt, whoever began it.
THEOREM LengthIsNumber == Spec => []NumbersCount
<1>1. Init => TypeOK /\ Counted
  <2> SUFFICES ASSUME Init PROVE TypeOK /\ Counted
    OBVIOUS
  <2>1. TypeOK
    BY TaskRunAssumption DEF Init, NoRow, NoExecution, NoLaunch, TypeOK, Row, Execution, Launch,
      AttemptTerminal, TaskTerminal
  <2>2. Begun = {}
    BY DEF Init, NoRow, Begun
  <2> QED BY <2>1, <2>2, FS_EmptySet DEF Counted, NumbersCount, Last
<1>2. TypeOK /\ Counted /\ [Next]_vars => TypeOK' /\ Counted'
  BY TaskRunAssumption, TypeStep, CountStep
<1>3. Counted => NumbersCount
  BY DEF Counted
<1> QED BY <1>1, <1>2, <1>3, PTL DEF Spec
=============================================================================
