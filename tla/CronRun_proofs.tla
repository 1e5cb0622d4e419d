---------------------------- MODULE CronRun_proofs ----------------------------
(***************************************************************************)
(* Proofs about CronRun, for every set of daemons and jobs, every number   *)
(* of runs and minutes and every length of lease.                          *)
(***************************************************************************)
EXTENDS CronRun, TLAPS

\* The next status of a row, everything else left alone.
Sets(r, status) == run' = [run EXCEPT ![r].status = status]

\* The shapes of the changes of an action.
LEMMA StageShape ==
  ASSUME TypeOK, NEW d \in Daemon, NEW r \in Run, NEW s \in Stage, Goes(d, r, s)
  PROVE  /\ stage' \in [Daemon -> [Run -> Stage]]
         /\ stage'[d][r] = s
         /\ \A e \in Daemon, q \in Run : e # d \/ q # r => stage'[e][q] = stage[e][q]
BY DEF TypeOK, Goes

LEMMA RowShape ==
  ASSUME TypeOK, NEW r \in Run, NEW s \in RunStatus, Sets(r, s)
  PROVE  /\ run' \in [Run -> Row]
         /\ run'[r].status = s
         /\ \A q \in Run : run'[q].job = run[q].job /\ run'[q].slot = run[q].slot
                           /\ run'[q].owner = run[q].owner
         /\ \A q \in Run \ {r} : run'[q] = run[q]
<1>1. run \in [Run -> Row] /\ run' = [run EXCEPT ![r].status = s]
  BY DEF TypeOK, Sets
<1>2. [run[r] EXCEPT !.status = s] \in Row
  <2>1. run[r] \in Row
    BY <1>1
  <2> QED BY <2>1 DEF Row
<1>3. \A q \in Run \ {r} : run'[q] = run[q]
  BY <1>1
<1>4. run'[r] = [run[r] EXCEPT !.status = s]
  BY <1>1
<1>5. /\ run'[r].status = s /\ run'[r].job = run[r].job
      /\ run'[r].slot = run[r].slot /\ run'[r].owner = run[r].owner
  <2>1. run[r] \in Row
    BY <1>1
  <2> QED BY <1>4, <2>1 DEF Row
<1> QED BY <1>1, <1>2, <1>3, <1>4, <1>5

LEMMA LeaseShape ==
  ASSUME CronAssumption, TypeOK, NEW r \in Run, NEW n \in 0 .. TTL,
         lease' = [lease EXCEPT ![r].ttl = n]
  PROVE  /\ lease' \in [Run -> [owner : Daemon \cup {NoDaemon}, ttl : 0 .. TTL]]
         /\ \A q \in Run : lease'[q].owner = lease[q].owner
         /\ \A q \in Run \ {r} : lease'[q] = lease[q]
         /\ lease'[r].ttl = n
BY DEF TypeOK

\* Recovery fails the active rows that no lease protects, and nothing else.
LEMMA RecoveredShape ==
  ASSUME TypeOK, run' = Recovered
  PROVE  /\ run' \in [Run -> Row]
         /\ \A q \in Run : /\ run'[q].job = run[q].job /\ run'[q].slot = run[q].slot
                           /\ run'[q].owner = run[q].owner
                           /\ run'[q].status = IF run[q].status \in Active /\ ~Live(q)
                                               THEN "failed" ELSE run[q].status
<1>1. "failed" \in RunStatus
  BY DEF RunStatus, Ending
<1>2. ASSUME NEW q \in Run PROVE Recovered[q] \in Row
  <2>1. run[q] \in Row
    BY DEF TypeOK
  <2> QED BY <1>1, <2>1 DEF Row, Recovered
<1>3. run' \in [Run -> Row]
  BY <1>2 DEF Recovered
<1>4. ASSUME NEW q \in Run
      PROVE  /\ run'[q].job = run[q].job /\ run'[q].slot = run[q].slot
             /\ run'[q].owner = run[q].owner
             /\ run'[q].status = IF run[q].status \in Active /\ ~Live(q)
                                 THEN "failed" ELSE run[q].status
  <2>1. run[q] \in Row
    BY DEF TypeOK
  <2> QED BY <2>1 DEF Row, Recovered
<1> QED BY <1>3, <1>4

-----------------------------------------------------------------------------
(* How stages and rows may move.                                           *)

\* A dispatch goes on without starting anything, or its execution ends.
StageMoves(e, q) ==
  \/ stage'[e][q] \in {stage[e][q], "none"}
  \/ stage[e][q] # "none" /\ stage'[e][q] \notin {"start", "executing"} \cup Ending
  \/ Executing(e, q) /\ stage'[e][q] = "failed"
  \/ stage[e][q] = "executing" /\ stage'[e][q] \in Ending

\* A row is closed while it is queued, recovered without a lease, deleted when it does
\* not run, or finished by the one that executed it.
RowMoves(q) ==
  \/ run'[q].status = run[q].status
  \/ run[q].status = "queued" /\ run'[q].status \in Closed
  \/ run[q].status \in Active /\ ~Live(q) /\ run'[q].status = "failed"
  \/ run[q].status # "running" /\ run'[q].status = "deleted"
  \/ /\ run[q].status = "running" /\ run'[q].status \in Ending
     /\ run'[q].status \in {"succeeded", "cancelled"} => fired[q] = 1
     /\ \A e \in Daemon : ~Executing(e, q)'

LeasesShrink == \A e \in Daemon, q \in Run : Holds(e, q)' => Holds(e, q)

\* A step that fires nothing and makes no row keeps the invariant when its stages and rows
\* move like that.
LEMMA MovesKeepInvariant ==
  ASSUME CronInv, TypeOK', UNCHANGED fired, LeasesShrink,
         \A e \in Daemon, q \in Run : StageMoves(e, q),
         \A q \in Run : /\ run'[q].job = run[q].job /\ run'[q].slot = run[q].slot
                        /\ run'[q].owner = run[q].owner
                        /\ RowMoves(q)
  PROVE  CronInv'
<1> USE DEF Active, Closed, Ending
<1>1. OneActive'
  BY DEF CronInv, OneActive, RowMoves
<1>2. OneRowPerTrigger'
  BY DEF CronInv, OneRowPerTrigger, RowMoves
<1>3. FiredAsRecorded'
  BY DEF CronInv, FiredAsRecorded, RowMoves
<1>4. Dispatching'
  <2> SUFFICES ASSUME NEW e \in Daemon, NEW q \in Run
               PROVE  /\ stage'[e][q] # "none" => run'[q].status # "absent" /\ run'[q].owner = e
                      /\ Executing(e, q)' => run'[q].status \in {"running", "deleted"} \cup Ending
                      /\ stage'[e][q] = "start" => fired'[q] = 0
                      /\ stage'[e][q] \in {"executing", "succeeded", "cancelled"} => fired'[q] = 1
    BY DEF Dispatching
  <2>1. StageMoves(e, q) /\ RowMoves(q)
    OBVIOUS
  <2> QED BY <2>1 DEF CronInv, Dispatching, StageMoves, RowMoves, Executing
<1>5. ExecutorHasTheRow'
  <2> SUFFICES ASSUME NEW e \in Daemon, NEW q \in Run, Executing(e, q)', Holds(e, q)'
               PROVE  run'[q].status = "running" /\ run'[q].owner = e
    BY DEF ExecutorHasTheRow
  <2>1. Executing(e, q) /\ Holds(e, q)
    BY DEF StageMoves, LeasesShrink, Executing
  <2>2. run[q].status = "running" /\ run[q].owner = e /\ Live(q)
    BY <2>1 DEF CronInv, ExecutorHasTheRow, Holds
  <2> QED BY <2>2 DEF RowMoves
<1> QED BY <1>1, <1>2, <1>3, <1>4, <1>5 DEF CronInv

\* Nothing but one stage moves.
LEMMA OneStageMoves ==
  ASSUME CronInv, NEW d \in Daemon, NEW r \in Run, NEW s \in Stage, Goes(d, r, s),
         TypeOK', UNCHANGED <<run, fired>>, LeasesShrink, StageMoves(d, r)
  PROVE  CronInv'
<1>1. \A e \in Daemon, q \in Run : StageMoves(e, q)
  BY StageShape DEF CronInv, StageMoves
<1>2. \A q \in Run : RowMoves(q)
  BY DEF RowMoves
<1> QED BY <1>1, <1>2, MovesKeepInvariant

\* A renewed lease was held before.
LEMMA Renewing ==
  ASSUME CronAssumption, TypeOK, NEW d \in Daemon, NEW r \in Run, Holds(d, r),
         lease' = Extended(r)
  PROVE  LeasesShrink /\ lease' \in [Run -> [owner : Daemon \cup {NoDaemon}, ttl : 0 .. TTL]]
<1>1. TTL \in 0 .. TTL /\ TTL > 0
  BY DEF CronAssumption
<1>2. lease' = [lease EXCEPT ![r].ttl = TTL]
  BY DEF Extended
<1>3. /\ lease' \in [Run -> [owner : Daemon \cup {NoDaemon}, ttl : 0 .. TTL]]
      /\ \A q \in Run : lease'[q].owner = lease[q].owner
      /\ \A q \in Run \ {r} : lease'[q] = lease[q]
  BY <1>1, <1>2, LeaseShape
<1> QED BY <1>3 DEF LeasesShrink, Holds, Live

\* The preflight: a stage moves, perhaps with a heartbeat.
LEMMA PreflightMoves ==
  ASSUME CronAssumption, CronInv, NEW d \in Daemon, NEW r \in Run, NEW s \in Stage,
         UNCHANGED <<minute, deleted, run, up, todo, fired>>,
         lost' \in [Daemon -> SUBSET Run],
         \/ UNCHANGED lease
         \/ Holds(d, r) /\ lease' = Extended(r)
         \/ lease' = [lease EXCEPT ![r].ttl = 0],
         Goes(d, r, s), StageMoves(d, r)
  PROVE  CronInv'
<1>1. TypeOK
  BY DEF CronInv
<1>2. LeasesShrink /\ lease' \in [Run -> [owner : Daemon \cup {NoDaemon}, ttl : 0 .. TTL]]
  <2>1. CASE UNCHANGED lease
    BY <1>1, <2>1 DEF LeasesShrink, Holds, Live, TypeOK
  <2>2. CASE Holds(d, r) /\ lease' = Extended(r)
    BY <1>1, <2>2, Renewing
  <2>3. CASE lease' = [lease EXCEPT ![r].ttl = 0]
    <3>1. 0 \in 0 .. TTL
      BY DEF CronAssumption
    <3>2. /\ lease' \in [Run -> [owner : Daemon \cup {NoDaemon}, ttl : 0 .. TTL]]
          /\ \A q \in Run \ {r} : lease'[q] = lease[q]
          /\ lease'[r].ttl = 0
      BY <1>1, <2>3, <3>1, LeaseShape
    <3> QED BY <3>2 DEF LeasesShrink, Holds, Live
  <2> QED BY <2>1, <2>2, <2>3
<1>3. TypeOK'
  BY <1>1, <1>2, StageShape DEF TypeOK
<1> QED BY <1>2, <1>3, OneStageMoves

LEMMA PreflightStep ==
  ASSUME CronAssumption, CronInv, NEW d \in Daemon, NEW r \in Run, NEW b \in BOOLEAN,
         \/ Dispatch(d, r) \/ CanRunAnswers(d, r, b) \/ RuntimeAnswers(d, r, b)
         \/ PreflightThrows(d, r) \/ Claim(d, r, b) \/ ReleaseLease(d, r)
         \/ \E o \in Ending : ExecutionEnds(d, r, o)
  PROVE  CronInv'
<1> USE DEF Ending, Stage, Waiting
<1>1. lost' \in [Daemon -> SUBSET Run]
  BY DEF CronInv, TypeOK, Dispatch, CanRunAnswers, RuntimeAnswers, PreflightThrows, Claim,
    ReleaseLease, ExecutionEnds
<1>2. TypeOK
  BY DEF CronInv
<1>3. ASSUME NEW s \in Stage, Renewed(d, r, s) \/ Asserted(d, r, s),
             stage[d][r] # "none", s \notin {"start", "executing"} \cup Ending,
             UNCHANGED <<minute, deleted, run, up, todo, fired>>
      PROVE  CronInv'
  <2>1. PICK n \in {s, "preflightFailed"} :
          /\ Goes(d, r, n)
          /\ UNCHANGED lease \/ (Holds(d, r) /\ lease' = Extended(r))
    BY <1>3 DEF Renewed, Asserted
  <2>2. StageMoves(d, r)
    BY <1>2, <1>3, <2>1, StageShape DEF StageMoves
  <2> QED BY <1>1, <1>3, <2>1, <2>2, PreflightMoves
<1>4. CASE Dispatch(d, r)
  BY <1>3, <1>4 DEF Dispatch
<1>5. CASE CanRunAnswers(d, r, b)
  BY <1>3, <1>5 DEF CanRunAnswers
<1>6. CASE RuntimeAnswers(d, r, b)
  BY <1>3, <1>6 DEF RuntimeAnswers
<1>7. ASSUME NEW s \in Stage, Goes(d, r, s), stage[d][r] # "none",
             \/ s \notin {"start", "executing"} \cup Ending
             \/ stage[d][r] = "executing" /\ s \in Ending,
             UNCHANGED <<minute, deleted, run, up, todo, fired>>,
             \/ UNCHANGED lease
             \/ Holds(d, r) /\ lease' = Extended(r)
             \/ lease' = [lease EXCEPT ![r].ttl = 0]
      PROVE  CronInv'
  <2>1. StageMoves(d, r)
    BY <1>2, <1>7, StageShape DEF StageMoves
  <2> QED BY <1>1, <1>7, <2>1, PreflightMoves
<1>8. CASE PreflightThrows(d, r)
  BY <1>7, <1>8 DEF PreflightThrows
<1>9. CASE Claim(d, r, b)
  BY <1>7, <1>9 DEF Claim
<1>10. CASE ReleaseLease(d, r)
  BY <1>7, <1>10 DEF ReleaseLease
<1>11. CASE \E o \in Ending : ExecutionEnds(d, r, o)
  BY <1>7, <1>11 DEF ExecutionEnds
<1> QED BY <1>4, <1>5, <1>6, <1>8, <1>9, <1>10, <1>11

\* The steps that close, recover, delete or finish rows: the leases stay.
LEMMA RowStep ==
  ASSUME CronAssumption, CronInv, UNCHANGED <<lease, fired>>,
         minute' \in 1 .. MaxMinute, deleted' \subseteq CronJob, up' \subseteq Daemon,
         todo' \in [Daemon -> SUBSET (CronJob \X Slot)], UNCHANGED lost,
         run' \in [Run -> Row], stage' \in [Daemon -> [Run -> Stage]],
         \A e \in Daemon, q \in Run : StageMoves(e, q),
         \A q \in Run : /\ run'[q].job = run[q].job /\ run'[q].slot = run[q].slot
                        /\ run'[q].owner = run[q].owner
                        /\ RowMoves(q)
  PROVE  CronInv'
<1>1. TypeOK'
  BY DEF CronInv, TypeOK
<1>2. LeasesShrink
  BY DEF LeasesShrink, Holds, Live
<1> QED BY <1>1, <1>2, MovesKeepInvariant

\* A recovery moves no stage.
LEMMA RecoveryStep ==
  ASSUME CronAssumption, CronInv, NEW d \in Daemon,
         TimerFires(d) \/ \E j \in CronJob : RunNow(d, j)
  PROVE  CronInv'
<1>1. run' = Recovered /\ UNCHANGED <<minute, deleted, lease, up, stage, lost, fired>>
  BY DEF TimerFires, RunNow
<1>2. TypeOK
  BY DEF CronInv
<1>3. todo' \in [Daemon -> SUBSET (CronJob \X Slot)]
  <2>1. minute \in Slot /\ Manual \in Slot
    BY <1>2 DEF TypeOK, Slot, Manual, CronAssumption
  <2>2. PICK T \in SUBSET (CronJob \X Slot) : todo' = [todo EXCEPT ![d] = T]
    <3>1. CASE TimerFires(d)
      <4>1. PICK J \in SUBSET (CronJob \ deleted) : todo' = [todo EXCEPT ![d] = J \X {minute}]
        BY <3>1 DEF TimerFires
      <4>2. J \X {minute} \in SUBSET (CronJob \X Slot)
        BY <2>1
      <4> QED BY <4>1, <4>2
    <3>2. ASSUME NEW j \in CronJob, RunNow(d, j)
          PROVE \E T \in SUBSET (CronJob \X Slot) : todo' = [todo EXCEPT ![d] = T]
      <4>1. {<<j, Manual>>} \in SUBSET (CronJob \X Slot)
        BY <2>1
      <4> QED BY <3>2, <4>1 DEF RunNow
    <3> QED BY <3>1, <3>2
  <2> QED BY <1>2, <2>2 DEF TypeOK
<1>4. \A e \in Daemon, q \in Run : StageMoves(e, q)
  BY <1>1 DEF StageMoves
<1>5. /\ run' \in [Run -> Row]
      /\ \A q \in Run : /\ run'[q].job = run[q].job /\ run'[q].slot = run[q].slot
                        /\ run'[q].owner = run[q].owner
                        /\ RowMoves(q)
  BY <1>1, <1>2, RecoveredShape DEF RowMoves
<1> QED BY <1>1, <1>2, <1>3, <1>4, <1>5, RowStep DEF TypeOK

\* One row and one stage move.
LEMMA OneRowMoves ==
  ASSUME CronAssumption, CronInv, NEW d \in Daemon, NEW r \in Run,
         NEW s \in Stage, NEW status \in RunStatus,
         Goes(d, r, s), Sets(r, status) \/ run' = run,
         UNCHANGED <<minute, deleted, lease, up, todo, lost, fired>>,
         StageMoves(d, r), RowMoves(r)
  PROVE  CronInv'
<1>1. TypeOK
  BY DEF CronInv
<1>2. /\ run' \in [Run -> Row]
      /\ \A q \in Run : /\ run'[q].job = run[q].job /\ run'[q].slot = run[q].slot
                        /\ run'[q].owner = run[q].owner
                        /\ RowMoves(q)
  <2>1. CASE run' = run
    BY <1>1, <2>1 DEF TypeOK, RowMoves
  <2>2. CASE Sets(r, status)
    BY <1>1, <2>2, RowShape DEF RowMoves
  <2> QED BY <2>1, <2>2
<1>3. \A e \in Daemon, q \in Run : StageMoves(e, q)
  BY <1>1, StageShape DEF StageMoves
<1>4. stage' \in [Daemon -> [Run -> Stage]]
  BY <1>1, StageShape
<1> QED BY <1>1, <1>2, <1>3, <1>4, RowStep DEF TypeOK

\* A queued row is closed by its daemon.
LEMMA CloseStep ==
  ASSUME CronAssumption, CronInv, NEW d \in Daemon, NEW r \in Run,
         CloseQueued(d, r) \/ BlockAfterFailure(d, r)
  PROVE  CronInv'
<1>1. PICK s \in {"none", "preflightFailed"}, status \in Closed :
        /\ Goes(d, r, s)
        /\ run' = run \/ (Sets(r, status) /\ run[r].status = "queued")
        /\ UNCHANGED <<minute, deleted, lease, up, todo, lost, fired>>
        /\ stage[d][r] # "none"
  BY DEF CloseQueued, Close, BlockAfterFailure, Sets, Closed
<1>2. s \in Stage /\ status \in RunStatus /\ s \notin {"start", "executing"} \cup Ending
  BY DEF Stage, Waiting, RunStatus, Ending
<1>3. TypeOK
  BY DEF CronInv
<1>4. StageMoves(d, r)
  BY <1>1, <1>2, <1>3, StageShape DEF StageMoves
<1>5. RowMoves(r)
  BY <1>1, <1>2, <1>3, RowShape DEF RowMoves
<1> QED BY <1>1, <1>2, <1>4, <1>5, OneRowMoves

\* The verdict of an execution is recorded by the daemon that has the row.
LEMMA FinishStep ==
  ASSUME CronAssumption, CronInv, NEW d \in Daemon, NEW r \in Run, FinishCronRun(d, r)
  PROVE  CronInv'
<1> DEFINE o == stage[d][r]
<1>1. o \in Ending /\ UNCHANGED <<minute, deleted, lease, up, todo, lost, fired>>
  BY DEF FinishCronRun
<1>2. PICK s \in {"none", "release"} :
        /\ Goes(d, r, s)
        /\ run' = run \/ (Sets(r, o) /\ run[r].status = "running" /\ run[r].owner = d)
  BY DEF FinishCronRun, Sets
<1>3. s \in Stage /\ o \in RunStatus /\ s \notin {"start", "executing"} \cup Ending /\ o # "none"
  BY <1>1 DEF Stage, Waiting, RunStatus, Ending
<1>4. TypeOK /\ Dispatching
  BY DEF CronInv
<1>5. StageMoves(d, r)
  BY <1>2, <1>3, <1>4, StageShape DEF StageMoves
<1>6. RowMoves(r)
  <2>1. CASE run' = run
    BY <2>1 DEF RowMoves
  <2>2. CASE Sets(r, o) /\ run[r].status = "running" /\ run[r].owner = d
    <3>1. run'[r].status = o
      BY <1>3, <1>4, <2>2, RowShape
    <3>2. o \in {"succeeded", "cancelled"} => fired[r] = 1
      BY <1>4 DEF Dispatching
    <3>3. ASSUME NEW e \in Daemon, Executing(e, r)' PROVE FALSE
      <4>1. e # d
        BY <1>2, <1>3, <1>4, <3>3, StageShape DEF Executing
      <4>2. stage[e][r] # "none"
        BY <1>2, <1>3, <1>4, <3>3, <4>1, StageShape DEF Executing, Ending
      <4> QED BY <1>4, <2>2, <4>1, <4>2 DEF Dispatching
    <3> QED BY <1>1, <2>2, <3>1, <3>2, <3>3 DEF RowMoves
  <2> QED BY <1>2, <2>1, <2>2
<1> QED BY <1>1, <1>2, <1>3, <1>5, <1>6, OneRowMoves

\* A claim makes its daemon the only executor: until now the row was queued.
LEMMA ClaimStep ==
  ASSUME CronAssumption, CronInv, NEW d \in Daemon, NEW r \in Run, ClaimCronRun(d, r)
  PROVE  CronInv'
<1> USE DEF Active, Closed, Ending
<1>0. TypeOK /\ OneActive /\ OneRowPerTrigger /\ FiredAsRecorded /\ Dispatching /\ ExecutorHasTheRow
  BY DEF CronInv
<1>1. UNCHANGED <<minute, deleted, lease, up, todo, lost, fired>> /\ stage[d][r] = "claim"
  BY DEF ClaimCronRun
<1>2. {"start", "unclaim"} \subseteq Stage /\ "running" \in RunStatus
  BY DEF Stage, RunStatus
<1>3. CASE run' = run /\ Goes(d, r, "unclaim")
  <2>1. StageMoves(d, r)
    BY <1>0, <1>1, <1>2, <1>3, StageShape DEF StageMoves
  <2>2. RowMoves(r)
    BY <1>3 DEF RowMoves
  <2> QED BY <1>1, <1>2, <1>3, <2>1, <2>2, OneRowMoves
<1>4. CASE /\ run[r].status = "queued" /\ Holds(d, r) /\ run[r].owner = d
           /\ Sets(r, "running") /\ Goes(d, r, "start")
  <2>1. /\ run' \in [Run -> Row] /\ run'[r].status = "running"
        /\ \A q \in Run : run'[q].job = run[q].job /\ run'[q].slot = run[q].slot
                          /\ run'[q].owner = run[q].owner
        /\ \A q \in Run \ {r} : run'[q] = run[q]
    BY <1>0, <1>2, <1>4, RowShape
  <2>2. /\ stage' \in [Daemon -> [Run -> Stage]] /\ stage'[d][r] = "start"
        /\ \A e \in Daemon, q \in Run : e # d \/ q # r => stage'[e][q] = stage[e][q]
    BY <1>0, <1>2, <1>4, StageShape
  <2>3. \A e \in Daemon : ~Executing(e, r)
    BY <1>0, <1>4 DEF Dispatching
  <2>4. TypeOK'
    BY <1>0, <1>1, <2>1, <2>2 DEF TypeOK
  <2>5. OneActive'
    BY <1>0, <1>4, <2>1 DEF OneActive
  <2>6. OneRowPerTrigger'
    BY <1>0, <1>4, <2>1 DEF OneRowPerTrigger
  <2>7. FiredAsRecorded'
    BY <1>0, <1>1, <1>4, <2>1 DEF FiredAsRecorded
  <2>8. Dispatching'
    <3> SUFFICES ASSUME NEW e \in Daemon, NEW q \in Run
                 PROVE  /\ stage'[e][q] # "none" => run'[q].status # "absent" /\ run'[q].owner = e
                        /\ Executing(e, q)' => run'[q].status \in {"running", "deleted"} \cup Ending
                        /\ stage'[e][q] = "start" => fired'[q] = 0
                        /\ stage'[e][q] \in {"executing", "succeeded", "cancelled"} => fired'[q] = 1
      BY DEF Dispatching
    <3>1. CASE q # r
      BY <1>0, <1>1, <2>1, <2>2, <3>1 DEF Dispatching, Executing
    <3>2. CASE q = r /\ e # d
      BY <1>0, <1>1, <2>1, <2>2, <2>3, <3>2 DEF Dispatching, Executing
    <3>3. CASE q = r /\ e = d
      BY <1>0, <1>1, <1>4, <2>1, <2>2, <3>3 DEF FiredAsRecorded, Executing
    <3> QED BY <3>1, <3>2, <3>3
  <2>9. ExecutorHasTheRow'
    BY <1>0, <1>1, <1>4, <2>1, <2>2, <2>3 DEF ExecutorHasTheRow, Executing, Holds, Live
  <2> QED BY <2>4, <2>5, <2>6, <2>7, <2>8, <2>9 DEF CronInv
<1> QED BY <1>3, <1>4 DEF ClaimCronRun, Sets

\* execute is called once: nobody else has got that far with the row.
LEMMA StartStep ==
  ASSUME CronAssumption, CronInv, NEW d \in Daemon, NEW r \in Run, StartRun(d, r)
  PROVE  CronInv'
<1> USE DEF Active, Closed, Ending
<1>0. TypeOK /\ OneActive /\ OneRowPerTrigger /\ FiredAsRecorded /\ Dispatching /\ ExecutorHasTheRow
  BY DEF CronInv
<1>1. /\ UNCHANGED <<minute, deleted, run, lease, up, todo>> /\ stage[d][r] = "start"
      /\ lost' \in [Daemon -> SUBSET Run]
  BY <1>0 DEF StartRun, TypeOK
<1>2. {"executing", "failed"} \subseteq Stage
  BY DEF Stage, Waiting
<1>3. CASE Goes(d, r, "failed") /\ UNCHANGED fired
  <2>1. StageMoves(d, r)
    BY <1>0, <1>1, <1>2, <1>3, StageShape DEF StageMoves, Executing
  <2> QED BY <1>1, <1>2, <1>3, <2>1, PreflightMoves
<1>4. CASE Goes(d, r, "executing") /\ fired' = [fired EXCEPT ![r] = @ + 1]
  <2>1. /\ stage' \in [Daemon -> [Run -> Stage]] /\ stage'[d][r] = "executing"
        /\ \A e \in Daemon, q \in Run : e # d \/ q # r => stage'[e][q] = stage[e][q]
    BY <1>0, <1>2, <1>4, StageShape
  <2>2. /\ fired' \in [Run -> Nat] /\ fired[r] = 0 /\ fired'[r] = 1
        /\ \A q \in Run \ {r} : fired'[q] = fired[q]
    BY <1>0, <1>1, <1>4 DEF TypeOK, Dispatching
  <2>3. run[r].owner = d /\ run[r].status \in {"running", "deleted"} \cup Ending
    BY <1>0, <1>1 DEF Dispatching, Executing
  <2>4. TypeOK'
    BY <1>0, <1>1, <2>1, <2>2 DEF TypeOK
  <2>5. OneActive' /\ OneRowPerTrigger'
    BY <1>0, <1>1 DEF OneActive, OneRowPerTrigger
  <2>6. FiredAsRecorded'
    BY <1>0, <1>1, <2>2, <2>3 DEF FiredAsRecorded
  <2>7. Dispatching'
    <3> SUFFICES ASSUME NEW e \in Daemon, NEW q \in Run
                 PROVE  /\ stage'[e][q] # "none" => run'[q].status # "absent" /\ run'[q].owner = e
                        /\ Executing(e, q)' => run'[q].status \in {"running", "deleted"} \cup Ending
                        /\ stage'[e][q] = "start" => fired'[q] = 0
                        /\ stage'[e][q] \in {"executing", "succeeded", "cancelled"} => fired'[q] = 1
      BY DEF Dispatching
    <3>1. CASE q # r
      BY <1>0, <1>1, <2>1, <2>2, <3>1 DEF Dispatching, Executing
    <3>2. CASE q = r /\ e # d
      BY <1>0, <1>1, <2>1, <2>2, <2>3, <3>2 DEF Dispatching, Executing
    <3>3. CASE q = r /\ e = d
      BY <1>0, <1>1, <2>1, <2>2, <2>3, <3>3 DEF Dispatching, Executing
    <3> QED BY <3>1, <3>2, <3>3
  <2>8. ExecutorHasTheRow'
    BY <1>0, <1>1, <2>1 DEF ExecutorHasTheRow, Executing, Holds, Live
  <2> QED BY <2>4, <2>5, <2>6, <2>7, <2>8 DEF CronInv
<1> QED BY <1>3, <1>4 DEF StartRun

\* A row that is made is new to every daemon, and queued only when none is active.
LEMMA CreateStep ==
  ASSUME CronAssumption, CronInv, NEW d \in Daemon, NEW j \in CronJob, NEW s \in Slot,
         NEW r \in Run, NEW b \in BOOLEAN, CreateCronRun(d, j, s, r, b)
  PROVE  CronInv'
<1> USE DEF Active, Closed, Ending
<1>0. TypeOK /\ OneActive /\ OneRowPerTrigger /\ FiredAsRecorded /\ Dispatching /\ ExecutorHasTheRow
  BY DEF CronInv
<1>1. /\ UNCHANGED <<minute, deleted, up, lost, fired>> /\ Existing(j, s) = {}
      /\ run[r].status = "absent"
  BY DEF CreateCronRun
<1> DEFINE new == NewStatus(b)
           queued == new = "queued"
           row == [status |-> new, job |-> j, slot |-> s,
                   owner |-> IF queued THEN d ELSE NoDaemon]
<1>2. /\ run' = [run EXCEPT ![r] = row]
      /\ lease' = IF queued THEN [lease EXCEPT ![r] = [owner |-> d, ttl |-> TTL]] ELSE lease
      /\ IF queued THEN Goes(d, r, "made") ELSE UNCHANGED stage
  BY DEF CreateCronRun
<1>3. new \in {"blocked", "skipped", "queued"} /\ (queued => ~Busy)
  BY DEF NewStatus
<1>4. row \in Row /\ "made" \in Stage /\ TTL \in 0 .. TTL
  BY <1>3 DEF Row, RunStatus, Stage, CronAssumption
<1>5. /\ run' \in [Run -> Row] /\ run'[r] = row /\ \A q \in Run \ {r} : run'[q] = run[q]
  BY <1>0, <1>2, <1>4 DEF TypeOK
<1>6. /\ lease' \in [Run -> [owner : Daemon \cup {NoDaemon}, ttl : 0 .. TTL]]
      /\ \A q \in Run \ {r} : lease'[q] = lease[q]
  BY <1>0, <1>2, <1>4 DEF TypeOK
<1>7. /\ stage' \in [Daemon -> [Run -> Stage]]
      /\ \A e \in Daemon, q \in Run : e # d \/ q # r => stage'[e][q] = stage[e][q]
      /\ stage'[d][r] = IF queued THEN "made" ELSE stage[d][r]
  BY <1>0, <1>2, <1>4, StageShape DEF TypeOK
<1>8. \A e \in Daemon : stage[e][r] = "none"
  BY <1>0, <1>1 DEF Dispatching
<1>9. todo' \in [Daemon -> SUBSET (CronJob \X Slot)]
  BY <1>0 DEF CreateCronRun, TypeOK
<1>10. TypeOK'
  BY <1>0, <1>1, <1>5, <1>6, <1>7, <1>9 DEF TypeOK
<1>11. OneActive'
  BY <1>0, <1>3, <1>5 DEF OneActive, Busy
<1>12. OneRowPerTrigger'
  <2> SUFFICES ASSUME NEW p \in Run, NEW q \in Run,
                      run'[p].status \notin {"absent", "deleted"},
                      run'[q].status \notin {"absent", "deleted"}, run'[p].slot # Manual,
                      run'[p].slot = run'[q].slot, run'[p].job = run'[q].job, p # q
               PROVE  FALSE
    BY DEF OneRowPerTrigger
  <2>1. CASE p # r /\ q # r
    BY <1>0, <1>5, <2>1 DEF OneRowPerTrigger
  <2>2. CASE p = r
    BY <1>1, <1>5, <2>2 DEF Existing
  <2>3. CASE q = r
    BY <1>1, <1>5, <2>3 DEF Existing
  <2> QED BY <2>1, <2>2, <2>3
<1>13. FiredAsRecorded'
  BY <1>0, <1>1, <1>3, <1>5 DEF FiredAsRecorded
<1>14. Dispatching'
  <2> SUFFICES ASSUME NEW e \in Daemon, NEW q \in Run
               PROVE  /\ stage'[e][q] # "none" => run'[q].status # "absent" /\ run'[q].owner = e
                      /\ Executing(e, q)' => run'[q].status \in {"running", "deleted"} \cup Ending
                      /\ stage'[e][q] = "start" => fired'[q] = 0
                      /\ stage'[e][q] \in {"executing", "succeeded", "cancelled"} => fired'[q] = 1
    BY DEF Dispatching
  <2>1. CASE q # r
    BY <1>0, <1>1, <1>5, <1>7, <2>1 DEF Dispatching, Executing
  <2>2. CASE q = r /\ e # d
    BY <1>7, <1>8, <2>2 DEF Executing
  <2>3. CASE q = r /\ e = d
    BY <1>3, <1>5, <1>7, <1>8, <2>3 DEF Executing
  <2> QED BY <2>1, <2>2, <2>3
<1>15. ExecutorHasTheRow'
  <2> SUFFICES ASSUME NEW e \in Daemon, NEW q \in Run, Executing(e, q)', Holds(e, q)'
               PROVE  run'[q].status = "running" /\ run'[q].owner = e
    BY DEF ExecutorHasTheRow
  <2>1. q # r
    BY <1>7, <1>8 DEF Executing
  <2>2. run'[q] = run[q] /\ lease'[q] = lease[q] /\ stage'[e][q] = stage[e][q]
    BY <1>5, <1>6, <1>7, <2>1
  <2>3. Executing(e, q) /\ Holds(e, q)
    BY <2>2 DEF Executing, Holds, Live
  <2> QED BY <1>0, <2>2, <2>3 DEF ExecutorHasTheRow
<1> QED BY <1>10, <1>11, <1>12, <1>13, <1>14, <1>15 DEF CronInv

\* The row a tick finds is dispatched by the daemon it names.
LEMMA FindStep ==
  ASSUME CronAssumption, CronInv, NEW d \in Daemon, NEW j \in CronJob, NEW s \in Slot,
         FindRun(d, j, s)
  PROVE  CronInv'
<1> USE DEF Active, Closed, Ending
<1>0. TypeOK /\ OneActive /\ OneRowPerTrigger /\ FiredAsRecorded /\ Dispatching /\ ExecutorHasTheRow
  BY DEF CronInv
<1>1. UNCHANGED <<minute, deleted, run, lease, up, lost, fired>>
      /\ todo' \in [Daemon -> SUBSET (CronJob \X Slot)]
  BY <1>0 DEF FindRun, TypeOK
<1>2. CASE UNCHANGED stage
  BY <1>0, <1>1, <1>2 DEF CronInv, TypeOK, OneActive, OneRowPerTrigger, FiredAsRecorded,
    Dispatching, ExecutorHasTheRow, Executing, Holds, Live
<1>3. ASSUME NEW r \in Run, run[r].status = "queued", run[r].owner = d, Goes(d, r, "made")
      PROVE  CronInv'
  <2>1. /\ stage' \in [Daemon -> [Run -> Stage]] /\ stage'[d][r] = "made"
        /\ \A e \in Daemon, q \in Run : e # d \/ q # r => stage'[e][q] = stage[e][q]
    <3>1. "made" \in Stage
      BY DEF Stage
    <3> QED BY <1>0, <1>3, <3>1, StageShape
  <2>2. TypeOK'
    BY <1>0, <1>1, <2>1 DEF TypeOK
  <2>3. OneActive' /\ OneRowPerTrigger' /\ FiredAsRecorded'
    BY <1>0, <1>1 DEF OneActive, OneRowPerTrigger, FiredAsRecorded
  <2>4. Dispatching'
    BY <1>0, <1>1, <1>3, <2>1 DEF Dispatching, Executing
  <2>5. ExecutorHasTheRow'
    BY <1>0, <1>1, <2>1 DEF ExecutorHasTheRow, Executing, Holds, Live
  <2> QED BY <2>2, <2>3, <2>4, <2>5 DEF CronInv
<1>4. UNCHANGED stage \/ \E r \in Run : run[r].status = "queued" /\ run[r].owner = d /\ Goes(d, r, "made")
  BY DEF FindRun, Existing
<1> QED BY <1>2, <1>3, <1>4

\* A tick that throws, a daemon that ends and a job that is deleted leave stages behind.
LEMMA AbandonStep ==
  ASSUME CronAssumption, CronInv,
         \/ \E d \in Daemon : Ends(d)
         \/ \E d \in Daemon, j \in CronJob, s \in Slot : TickFails(d, j, s)
  PROVE  CronInv'
<1>0. TypeOK
  BY DEF CronInv
<1>1. PICK d \in Daemon, keep \in SUBSET Run :
        stage' = [stage EXCEPT ![d] = [r \in Run |-> IF r \in keep THEN @[r] ELSE "none"]]
  <2>1. ASSUME NEW d \in Daemon, Ends(d)
        PROVE  stage' = [stage EXCEPT ![d] = [r \in Run |-> IF r \in {} THEN @[r] ELSE "none"]]
    BY <2>1 DEF Ends
  <2>2. ASSUME NEW d \in Daemon, NEW j \in CronJob, NEW s \in Slot, TickFails(d, j, s)
        PROVE  stage' = [stage EXCEPT ![d] =
                 [r \in Run |-> IF r \in {q \in Run : stage[d][q] # "made"} THEN @[r] ELSE "none"]]
    <3>1. stage' = [stage EXCEPT ![d] = [r \in Run |-> IF @[r] = "made" THEN "none" ELSE @[r]]]
      BY <2>2 DEF TickFails
    <3> QED BY <1>0, <3>1 DEF TypeOK
  <2>3. {} \in SUBSET Run /\ \A d \in Daemon : {q \in Run : stage[d][q] # "made"} \in SUBSET Run
    OBVIOUS
  <2> QED BY <2>1, <2>2, <2>3
<1>2. "none" \in Stage
  BY DEF Stage, Waiting
<1>3. stage' \in [Daemon -> [Run -> Stage]]
      /\ \A e \in Daemon, q \in Run : stage'[e][q] \in {stage[e][q], "none"}
  BY <1>0, <1>1, <1>2 DEF TypeOK
<1>4. /\ UNCHANGED <<minute, deleted, run, lease, fired>>
      /\ todo' \in [Daemon -> SUBSET (CronJob \X Slot)]
      /\ up' \subseteq Daemon /\ lost' \in [Daemon -> SUBSET Run]
  BY <1>0 DEF Ends, TickFails, TypeOK
<1>5. TypeOK'
  BY <1>0, <1>3, <1>4 DEF TypeOK
<1>6. LeasesShrink /\ \A q \in Run : RowMoves(q)
  BY <1>4 DEF LeasesShrink, Holds, Live, RowMoves
<1>7. \A e \in Daemon, q \in Run : StageMoves(e, q)
  BY <1>3 DEF StageMoves
<1> QED BY <1>4, <1>5, <1>6, <1>7, MovesKeepInvariant

\* A job whose run is running is not deleted.
LEMMA DeleteStep ==
  ASSUME CronAssumption, CronInv, NEW j \in CronJob, DeleteCronJob(j)
  PROVE  CronInv'
<1>0. TypeOK
  BY DEF CronInv
<1>1. /\ UNCHANGED <<minute, lease, up, todo, stage, lost, fired>> /\ deleted' \subseteq CronJob
      /\ ~ \E r \in Run : run[r].job = j /\ run[r].status = "running"
  BY <1>0 DEF DeleteCronJob, TypeOK
<1>2. "deleted" \in RunStatus
  BY DEF RunStatus
<1>3. run' = [r \in Run |-> IF run[r].job = j THEN [run[r] EXCEPT !.status = "deleted"]
                           ELSE run[r]]
  BY DEF DeleteCronJob
<1>4. ASSUME NEW q \in Run
      PROVE  /\ run'[q] \in Row
             /\ run'[q].job = run[q].job /\ run'[q].slot = run[q].slot
             /\ run'[q].owner = run[q].owner
             /\ RowMoves(q)
  <2>1. run[q] \in Row
    BY <1>0 DEF TypeOK
  <2>2. CASE run[q].job = j
    <3>1. run'[q] = [run[q] EXCEPT !.status = "deleted"]
      BY <1>3, <2>2
    <3> QED BY <1>1, <1>2, <2>1, <2>2, <3>1 DEF Row, RowMoves
  <2>3. CASE run[q].job # j
    BY <1>3, <2>1, <2>3 DEF RowMoves
  <2> QED BY <2>2, <2>3
<1>5. run' \in [Run -> Row]
  BY <1>3, <1>4
<1>6. \A e \in Daemon, q \in Run : StageMoves(e, q)
  BY <1>1 DEF StageMoves
<1> QED BY <1>0, <1>1, <1>4, <1>5, <1>6, RowStep DEF TypeOK

\* Heartbeats extend live leases only, and time only takes from them.
LEMMA ClockStep ==
  ASSUME CronAssumption, CronInv,
         \/ Tick \/ NextMinute
         \/ \E d \in Daemon, r \in Run : Beat(d, r)
  PROVE  CronInv'
<1>0. TypeOK
  BY DEF CronInv
<1>1. LeasesShrink /\ lease' \in [Run -> [owner : Daemon \cup {NoDaemon}, ttl : 0 .. TTL]]
  <2>1. CASE UNCHANGED lease
    BY <1>0, <2>1 DEF LeasesShrink, Holds, Live, TypeOK
  <2>2. ASSUME NEW d \in Daemon, NEW r \in Run, Holds(d, r), lease' = Extended(r)
        PROVE  LeasesShrink /\ lease' \in [Run -> [owner : Daemon \cup {NoDaemon}, ttl : 0 .. TTL]]
    BY <1>0, <2>2, Renewing
  <2>3. CASE Tick
    <3>1. ASSUME NEW q \in Run
          PROVE  /\ lease'[q] \in [owner : Daemon \cup {NoDaemon}, ttl : 0 .. TTL]
                 /\ lease'[q].owner = lease[q].owner
                 /\ lease'[q].ttl > 0 => lease[q].ttl > 0
      <4>1. lease[q] \in [owner : Daemon \cup {NoDaemon}, ttl : 0 .. TTL] /\ TTL \in Nat
        BY <1>0 DEF TypeOK, CronAssumption
      <4>2. lease'[q] = [lease[q] EXCEPT !.ttl = IF lease[q].ttl > 0 THEN lease[q].ttl - 1 ELSE 0]
        BY <2>3, <4>1 DEF Tick, Live
      <4> QED BY <4>1, <4>2
    <3>2. lease' \in [Run -> [owner : Daemon \cup {NoDaemon}, ttl : 0 .. TTL]]
      BY <2>3, <3>1 DEF Tick
    <3> QED BY <3>1, <3>2 DEF LeasesShrink, Holds, Live
  <2> QED BY <2>1, <2>2, <2>3 DEF NextMinute, Beat
<1>2. /\ UNCHANGED <<deleted, run, up, todo, stage, fired>>
      /\ lost' \in [Daemon -> SUBSET Run] /\ minute' \in 1 .. MaxMinute
  BY <1>0 DEF Tick, NextMinute, Beat, TypeOK, CronAssumption
<1>3. TypeOK'
  BY <1>0, <1>1, <1>2 DEF TypeOK
<1>4. \A q \in Run : RowMoves(q)
  BY <1>2 DEF RowMoves
<1>5. \A e \in Daemon, q \in Run : StageMoves(e, q)
  BY <1>2 DEF StageMoves
<1> QED BY <1>1, <1>2, <1>3, <1>4, <1>5, MovesKeepInvariant

LEMMA StutterStep ==
  ASSUME CronInv, UNCHANGED vars
  PROVE  CronInv'
BY DEF CronInv, vars, TypeOK, OneActive, OneRowPerTrigger, FiredAsRecorded, ExecutorHasTheRow,
  Dispatching, Executing, Holds, Live

LEMMA InitHolds ==
  ASSUME CronAssumption, Init
  PROVE  CronInv
<1>1. NoRun \in Row /\ "none" \in Stage
  BY DEF Row, NoRun, RunStatus, Slot, Manual, Stage, Waiting, CronAssumption
<1>2. TypeOK
  BY <1>1 DEF Init, TypeOK, CronAssumption
<1>3. \A r \in Run : run[r].status = "absent" /\ fired[r] = 0
  BY DEF Init, NoRun
<1>4. \A d \in Daemon, r \in Run : stage[d][r] = "none"
  BY DEF Init
<1> QED BY <1>2, <1>3, <1>4 DEF CronInv, OneActive, OneRowPerTrigger, FiredAsRecorded,
      ExecutorHasTheRow, Dispatching, Executing, Active, Ending

LEMMA StepHolds ==
  ASSUME CronAssumption, CronInv, [Next]_vars
  PROVE  CronInv'
<1>1. CASE UNCHANGED vars
  BY <1>1, StutterStep
<1>2. CASE \E j \in CronJob : DeleteCronJob(j)
  BY <1>2, DeleteStep
<1>3. CASE Tick \/ NextMinute
  BY <1>3, ClockStep
<1>4. ASSUME NEW d \in Daemon, TimerFires(d) \/ \E j \in CronJob : RunNow(d, j)
      PROVE  CronInv'
  BY <1>4, RecoveryStep
<1>5. ASSUME NEW d \in Daemon, Ends(d)
      PROVE  CronInv'
  BY <1>5, AbandonStep
<1>6. ASSUME NEW d \in Daemon, TurnStep(d)
      PROVE  CronInv'
  <2>1. ASSUME NEW j \in CronJob, NEW s \in Slot, FindRun(d, j, s) PROVE CronInv'
    BY <2>1, FindStep
  <2>2. ASSUME NEW j \in CronJob, NEW s \in Slot, TickFails(d, j, s) PROVE CronInv'
    BY <2>2, AbandonStep
  <2>3. ASSUME NEW j \in CronJob, NEW s \in Slot, NEW r \in Run, NEW b \in BOOLEAN,
               CreateCronRun(d, j, s, r, b)
        PROVE  CronInv'
    BY <2>3, CreateStep
  <2>4. ASSUME NEW r \in Run, Dispatch(d, r) \/ ReleaseLease(d, r) PROVE CronInv'
    <3>1. TRUE \in BOOLEAN
      OBVIOUS
    <3> QED BY <2>4, <3>1, PreflightStep
  <2>5. ASSUME NEW r \in Run, NEW b \in BOOLEAN, Claim(d, r, b) PROVE CronInv'
    BY <2>5, PreflightStep
  <2>6. ASSUME NEW r \in Run, CloseQueued(d, r) \/ BlockAfterFailure(d, r) PROVE CronInv'
    BY <2>6, CloseStep
  <2>7. ASSUME NEW r \in Run, ClaimCronRun(d, r) PROVE CronInv'
    BY <2>7, ClaimStep
  <2>8. ASSUME NEW r \in Run, StartRun(d, r) PROVE CronInv'
    BY <2>8, StartStep
  <2>9. ASSUME NEW r \in Run, FinishCronRun(d, r) PROVE CronInv'
    BY <2>9, FinishStep
  <2> QED BY <1>6, <2>1, <2>2, <2>3, <2>4, <2>5, <2>6, <2>7, <2>8, <2>9 DEF TurnStep
<1>7. ASSUME NEW d \in Daemon, NEW r \in Run, Answer(d, r)
      PROVE  CronInv'
  <2>1. TRUE \in BOOLEAN
    OBVIOUS
  <2>2. CASE PreflightThrows(d, r) \/ \E o \in Ending : ExecutionEnds(d, r, o)
    BY <2>1, <2>2, PreflightStep
  <2>3. ASSUME NEW b \in BOOLEAN, CanRunAnswers(d, r, b) \/ RuntimeAnswers(d, r, b)
        PROVE  CronInv'
    BY <2>3, PreflightStep
  <2> QED BY <1>7, <2>2, <2>3 DEF Answer
<1>8. ASSUME NEW d \in Daemon, NEW r \in Run, Beat(d, r)
      PROVE  CronInv'
  BY <1>8, ClockStep
<1> QED BY <1>1, <1>2, <1>3, <1>4, <1>5, <1>6, <1>7, <1>8 DEF Next

-----------------------------------------------------------------------------
(* The theorems.                                                           *)

\* The inductive invariant of the ledger and its daemons.
THEOREM CronInvariant == Spec => []CronInv
<1>1. Init => CronInv
  BY InitHolds, CronAssumption
<1>2. CronInv /\ [Next]_vars => CronInv'
  BY StepHolds, CronAssumption
<1> QED BY <1>1, <1>2, PTL DEF Spec

\* The workspace has one run at a time, whichever daemons tick (createCronRun).
THEOREM OneRunActive == Spec => []OneActive
<1>1. CronInv => OneActive
  BY DEF CronInv
<1> QED BY <1>1, CronInvariant, PTL

\* A trigger makes one row (the key of job and minute, createCronRun).
THEOREM OneRowEach == Spec => []OneRowPerTrigger
<1>1. CronInv => OneRowPerTrigger
  BY DEF CronInv
<1> QED BY <1>1, CronInvariant, PTL

\* No run is executed twice, and none that the ledger calls blocked or skipped at all.
THEOREM FiresAsRecorded == Spec => []FiredAsRecorded
<1>1. CronInv => FiredAsRecorded
  BY DEF CronInv
<1> QED BY <1>1, CronInvariant, PTL

\* A live lease protects the row of the daemon that executes it.
THEOREM ExecutorOwnsTheRow == Spec => []ExecutorHasTheRow
<1>1. CronInv => ExecutorHasTheRow
  BY DEF CronInv
<1> QED BY <1>1, CronInvariant, PTL

\* What has ended or was never to run stays as it is recorded, until its job is deleted.
THEOREM VerdictsStand == Spec => VerdictStands
<1> DEFINE Stands == \A r \in Run : run[r].status \in Closed \cup Ending =>
                                    run'[r] = run[r] \/ run'[r].status = "deleted"
           Open(q) == run[q].status \in {"absent"} \cup Active
<1>1. ASSUME TypeOK, Next PROVE Stands
  <2>1. ASSUME NEW q \in Run, NEW new \in Row, Open(q), run' = [run EXCEPT ![q] = new]
        PROVE  Stands
    <3>1. \A r \in Run \ {q} : run'[r] = run[r]
      BY <1>1, <2>1 DEF TypeOK
    <3> QED BY <2>1, <3>1 DEF Closed, Ending, Active
  <2>2. CASE UNCHANGED run
    BY <2>2
  <2>3. ASSUME NEW j \in CronJob, DeleteCronJob(j) PROVE Stands
    <3>1. \A r \in Run : run[r] \in Row
      BY <1>1 DEF TypeOK
    <3> QED BY <2>3, <3>1 DEF DeleteCronJob, Row
  <2>4. CASE run' = Recovered
    BY <2>4 DEF Recovered, Closed, Ending, Active
  <2>5. ASSUME NEW q \in Run, NEW status \in RunStatus, Open(q), Sets(q, status)
        PROVE  Stands
    <3>1. [run[q] EXCEPT !.status = status] \in Row
      <4>1. run[q] \in Row
        BY <1>1 DEF TypeOK
      <4> QED BY <4>1 DEF Row
    <3>2. run' = [run EXCEPT ![q] = [run[q] EXCEPT !.status = status]]
      BY <1>1, <2>5 DEF Sets, TypeOK
    <3> QED BY <2>1, <2>5, <3>1, <3>2
  <2>6. ASSUME NEW d \in Daemon, TurnStep(d) PROVE Stands
    <3>1. {"blocked", "skipped", "running"} \cup Ending \subseteq RunStatus
      BY DEF RunStatus, Active, Closed
    <3>2. ASSUME NEW j \in CronJob, NEW s \in Slot, NEW r \in Run, NEW b \in BOOLEAN,
                 CreateCronRun(d, j, s, r, b)
          PROVE  Stands
      <4>1. NewStatus(b) \in RunStatus
        BY <3>1 DEF NewStatus, RunStatus, Active
      <4>2. PICK new \in Row : run' = [run EXCEPT ![r] = new]
        BY <3>2, <4>1 DEF CreateCronRun, Row
      <4>3. Open(r)
        BY <3>2 DEF CreateCronRun
      <4> QED BY <2>1, <4>2, <4>3
    <3>3. ASSUME NEW r \in Run,
                 CloseQueued(d, r) \/ BlockAfterFailure(d, r) \/ ClaimCronRun(d, r)
          PROVE  Stands
      <4>1. UNCHANGED run \/ \E status \in {"blocked", "skipped", "running"} :
                               run[r].status = "queued" /\ Sets(r, status)
        BY <3>3 DEF CloseQueued, Close, BlockAfterFailure, ClaimCronRun, Sets
      <4>2. run[r].status = "queued" => Open(r)
        BY DEF Active
      <4> QED BY <2>2, <2>5, <3>1, <4>1, <4>2
    <3>4. ASSUME NEW r \in Run, FinishCronRun(d, r) PROVE Stands
      <4>1. UNCHANGED run \/ \E o \in Ending : run[r].status = "running" /\ Sets(r, o)
        BY <3>4 DEF FinishCronRun, Sets
      <4>2. run[r].status = "running" => Open(r)
        BY DEF Active
      <4> QED BY <2>2, <2>5, <3>1, <4>1, <4>2
    <3>5. ASSUME \/ \E j \in CronJob, s \in Slot : FindRun(d, j, s) \/ TickFails(d, j, s)
                 \/ \E r \in Run : \/ Dispatch(d, r) \/ ReleaseLease(d, r) \/ StartRun(d, r)
                                   \/ \E b \in BOOLEAN : Claim(d, r, b)
          PROVE  Stands
      <4>1. UNCHANGED run
        BY <3>5 DEF FindRun, TickFails, Dispatch, ReleaseLease, StartRun, Claim
      <4> QED BY <2>2, <4>1
    <3> QED BY <2>6, <3>2, <3>3, <3>4, <3>5 DEF TurnStep
  <2>7. ASSUME NEW d \in Daemon, TimerFires(d) \/ \E j \in CronJob : RunNow(d, j)
        PROVE  Stands
    <3>1. run' = Recovered
      BY <2>7 DEF TimerFires, RunNow
    <3> QED BY <2>4, <3>1
  <2>8. ASSUME \/ Tick \/ NextMinute
               \/ \E d \in Daemon : Ends(d) \/ \E r \in Run : Answer(d, r) \/ Beat(d, r)
        PROVE  Stands
    <3>1. UNCHANGED run
      BY <2>8 DEF Tick, NextMinute, Ends, Answer, Beat, PreflightThrows, CanRunAnswers,
        RuntimeAnswers, ExecutionEnds
    <3> QED BY <2>2, <3>1
  <2> QED BY <1>1, <2>3, <2>6, <2>7, <2>8 DEF Next
<1>2. CronInv /\ [Next]_vars => [Stands]_vars
  BY <1>1 DEF CronInv
<1> QED BY <1>2, CronInvariant, PTL DEF Spec, VerdictStands

\* Two runs of the workspace are never executed at a time, as long as both executors have
\* their leases: two processes may work side by side only when one of them has lost its
\* lease and has not been told yet.
THEOREM NoTwoExecute ==
  Spec => [](\A d, e \in Daemon, r, q \in Run :
               /\ Executing(d, r) /\ Holds(d, r)
               /\ Executing(e, q) /\ Holds(e, q)
               => d = e /\ r = q)
<1> DEFINE Alone == \A d, e \in Daemon, r, q \in Run :
                      /\ Executing(d, r) /\ Holds(d, r)
                      /\ Executing(e, q) /\ Holds(e, q)
                      => d = e /\ r = q
<1>1. CronInv => Alone
  BY DEF CronInv, ExecutorHasTheRow, OneActive, Active, Holds
<1> QED BY <1>1, CronInvariant, PTL
=============================================================================
