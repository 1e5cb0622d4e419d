----------------------------- MODULE SessionFork -----------------------------
(***************************************************************************)
(* Forking a session: the saga that copies a source session into a new     *)
(* target session, restores the workspace when the fork is a rewind, and   *)
(* survives the death of its process between any two steps                 *)
(* (packages/storage/src/{fork-operation-coordinator,operation-journal}.ts,*)
(* packages/pico-host/src/session-fork-service.ts).                        *)
(*                                                                         *)
(* Every await of a call ends an action; other calls run between any two.  *)
(* A row of the journal is compared by its version: a call knows whether   *)
(* somebody has written the row since it read it (fresh).  The lease of a  *)
(* target is an OwnerLease.  All forks have the same source, whose own     *)
(* lease makes them run one at a time; the restored files are one file.    *)
(***************************************************************************)
CONSTANTS
  Host,      \* calls run on them one at a time: a process is as many as it runs calls
  Mortal,    \* those that may die
  Op,        \* operation ids
  Target,    \* ids of target sessions
  Goals,     \* whether the source may have an unfinished goal
  Base, Edited,   \* contents of the file: as before the forks, as the user left it
  NoHost, NoOp, NoTarget

ASSUME ForkAssumption ==
  /\ Mortal \subseteq Host /\ NoHost \notin Host
  /\ NoOp \notin Op /\ NoTarget \notin Target
  /\ Base \notin Op /\ Edited \notin Op /\ Base # Edited
  /\ Goals \subseteq BOOLEAN

Unfinished == {"prepared", "workspace_applied", "sidecars_committed"}
Terminal == {"completed", "aborted", "needs_attention"}

\* A fork of the daemon or the terminal, one for an edited message, a rewind of the
\* conversation, and one of the conversation and the code.
Kind == {"fork", "revise", "conversation", "both"}
Settling == {"conversation", "both"}   \* settleFailedFork follows a failure

Part == {"none", "session", "begun", "published"}
Staging == {"none", "frozen", "sidecars"}   \* sidecars: frozen, and the sidecar result

What == {"none", "fork", "recover", "retry", "abort", "settle"}
Forward == {"fork", "recover", "settle"}   \* calls of forward; the others dispose
Leased == {"owned", "check", "apply", "clone", "note", "open", "fill", "finish", "advance",
           "restore", "cleanup", "erase", "unclone", "drop", "clean", "release", "throw"}
Step == Leased \cup {"none", "freeze", "insert", "reload", "lease", "tidy",
                     "find", "reread", "look", "commit", "seal", "only"}

VARIABLES
  goal,      \* the source has an unfinished goal
  request,   \* what an operation was asked for
  journal,   \* storage_operations
  earlier,   \* createdAt: the operations stamped before this one
  staging,   \* the staging directory of an operation
  original,  \* the content of the file in its frozen rewind plan
  file,      \* the file: Base, Edited, or the content an operation restores
  runtime,   \* the events of a target session, and the operation they carry in their ids
  clone,     \* targets with a file history
  lock,      \* the owner lease of a target
  source,    \* who has the source session
  up,        \* hosts that run
  call,      \* the call a host is in: at and fresh are the row it has read
  applied,   \* history: rewinds that are in the workspace
  cleaned    \* history: targets a cleanup has begun on

vars == <<goal, request, journal, earlier, staging, original, file, runtime, clone, lock, source, up,
          call, applied, cleaned>>
world == <<file, runtime, clone, applied, cleaned>>
asked == <<goal, request, earlier, original>>

Idle == [what |-> "none", op |-> NoOp, step |-> "none", at |-> "absent", fresh |-> FALSE]
Unused == [kind |-> "none", target |-> NoTarget]
Absent == [state |-> "absent", phase |-> "none", lost |-> FALSE, sealed |-> FALSE]

Init ==
  /\ goal \in Goals
  /\ request = [o \in Op |-> Unused]
  /\ journal = [o \in Op |-> Absent]
  /\ earlier = [o \in Op |-> {}]
  /\ staging = [o \in Op |-> "none"]
  /\ original = [o \in Op |-> Base]
  /\ file = Base
  /\ runtime = [t \in Target |-> [of |-> NoOp, part |-> "none"]]
  /\ clone = {} /\ applied = {} /\ cleaned = {}
  /\ lock = [t \in Target |-> NoHost]
  /\ source = NoHost
  /\ up = Host
  /\ call = [h \in Host |-> Idle]

-----------------------------------------------------------------------------
(* What a call does when it goes on, reads, writes or ends.                *)

At(h, s) == h \in up /\ call[h].step = s
OpOf(h) == call[h].op
TargetOf(h) == request[call[h].op].target
Goes(h, s) == call' = [call EXCEPT ![h].step = s]

\* The journal knows of the operation; it has ended for good.
HasRow(o) == journal[o].state # "absent"
OutOfTheWay(o) == journal[o].state \in {"completed", "aborted"}

\* It goes on with the row as it is now.
Reads(h, s) ==
  call' = [call EXCEPT ![h].step = s, ![h].at = journal[OpOf(h)].state, ![h].fresh = TRUE]

\* Mutant: the write does not look at the version.
OverwritesRow(h, row, s) ==
  /\ journal' = [journal EXCEPT ![OpOf(h)] = row]
  /\ call' = [g \in Host |->
                IF g = h THEN [call[g] EXCEPT !.step = s, !.at = row.state]
                ELSE IF call[g].op = OpOf(h) THEN [call[g] EXCEPT !.fresh = FALSE]
                ELSE call[g]]
\* One write transaction with a compare-and-swap on the version.
WritesRow(h, row, s) ==
  /\ call[h].fresh
  /\ journal' = [journal EXCEPT ![OpOf(h)] = row]
  /\ call' = [g \in Host |->
                IF g = h THEN [call[g] EXCEPT !.step = s, !.at = row.state]
                ELSE IF call[g].op = OpOf(h) THEN [call[g] EXCEPT !.fresh = FALSE]
                ELSE call[g]]

\* A failed fork of Settling is settled before its caller hears of it; in a settlement,
\* what the replay has left is looked at.
GoesOn(h, at) ==
  \/ call[h].what = "fork" /\ at # "completed" /\ request[OpOf(h)].kind \in Settling
  \/ call[h].what = "settle" /\ at # "completed"
Ends(h, at) ==
  IF GoesOn(h, at)
  THEN /\ call' = [call EXCEPT ![h].what = "settle", ![h].at = at,
                               ![h].step = IF call[h].what = "fork" THEN "find"
                                           ELSE IF at = "thrown" THEN "reread" ELSE "look"]
       /\ UNCHANGED source
  ELSE /\ call' = [call EXCEPT ![h] = Idle]
       /\ source' = IF source = h THEN NoHost ELSE source

\* A settlement that cannot go on: the publication is uncertain.
GivesUp(h) ==
  /\ call' = [call EXCEPT ![h] = Idle]
  /\ source' = IF source = h THEN NoHost ELSE source
  /\ UNCHANGED journal

-----------------------------------------------------------------------------
(* A fork begins: SessionForkService.fork and execute.                     *)

ForkBegins(h, o, k, t) ==
  /\ h \in up /\ call[h] = Idle /\ source = NoHost
  /\ request[o] = Unused
  \* createSessionId makes a new target; a prompt that is tried again has its old one.
  /\ \A p \in Op : request[p].target = t => k = "fork" /\ request[p].kind = "fork"
  /\ request' = [request EXCEPT ![o] = [kind |-> k, target |-> t]]
  /\ source' = h
  /\ call' = [call EXCEPT ![h] = [Idle EXCEPT !.what = "fork", !.op = o, !.step = "freeze"]]
  /\ UNCHANGED <<goal, journal, earlier, staging, original, world, lock, up>>

\* The same request again, by its idempotency key.
ForkAgain(h, o) ==
  /\ h \in up /\ call[h] = Idle /\ source = NoHost
  /\ request[o].kind \notin {"none", "fork"}
  /\ source' = h
  /\ call' = [call EXCEPT ![h] =
                [Idle EXCEPT !.what = "fork", !.op = o,
                             !.step = IF HasRow(o) THEN "reload" ELSE "freeze"]]
  /\ UNCHANGED <<goal, request, journal, earlier, staging, original, world, lock, up>>

\* assertTargetNotPublished; the bundle and its manifest, which are kept when they are there;
\* createdAt of journal.create.
Freeze(h) ==
  /\ At(h, "freeze")
  /\ LET o == OpOf(h) IN
     \/ /\ runtime[TargetOf(h)].part # "none"
        /\ Ends(h, "thrown")
        /\ UNCHANGED <<staging, original, earlier>>
     \/ /\ runtime[TargetOf(h)].part = "none"
        /\ staging' = [staging EXCEPT ![o] = IF @ = "none" THEN "frozen" ELSE @]
        /\ original' = IF staging[o] = "none" THEN [original EXCEPT ![o] = file] ELSE original
        /\ earlier' = [p \in Op |-> IF p = o THEN {q \in Op \ {o} : staging[q] # "none"
                                                     \/ HasRow(q)}
                                    ELSE earlier[p] \ {o}]
        /\ Goes(h, "insert") /\ UNCHANGED source
  /\ UNCHANGED <<goal, request, journal, world, lock, up>>

\* INSERT of journal.create, which waits for the database.
Insert(h) ==
  /\ At(h, "insert")
  /\ \/ /\ ~HasRow(OpOf(h))
        /\ journal' = [journal EXCEPT ![OpOf(h)].state = "prepared"]
        /\ Goes(h, "reload") /\ UNCHANGED source
     \/ /\ HasRow(OpOf(h))
        /\ Ends(h, "thrown") /\ UNCHANGED journal
  /\ UNCHANGED <<asked, staging, world, lock, up>>

-----------------------------------------------------------------------------
(* Recovery and dispositions begin.                                        *)

\* reconcileUnfinished, which every run of an agent calls first.
Recover(h, o) ==
  /\ h \in up /\ call[h] = Idle
  /\ journal[o].state \in Unfinished
  /\ call' = [call EXCEPT ![h] = [Idle EXCEPT !.what = "recover", !.op = o, !.step = "reload"]]
  /\ UNCHANGED <<asked, journal, staging, world, lock, source, up>>

\* A human retries or aborts an operation in the version that was shown.
Dispose(h, o, w) ==
  /\ h \in up /\ call[h] = Idle
  /\ journal[o].state = "needs_attention"
  /\ call' = [call EXCEPT ![h] = [what |-> w, op |-> o, step |-> "lease",
                                  at |-> "needs_attention", fresh |-> TRUE]]
  /\ UNCHANGED <<asked, journal, staging, world, lock, source, up>>

-----------------------------------------------------------------------------
(* forward and disposeNeedsAttention.                                      *)

\* A row that is terminal is left alone; its staging is removed when it is completed.
Returns(h) ==
  LET s == journal[OpOf(h)].state IN
  /\ s \in Terminal
  /\ IF s = "completed" THEN Reads(h, "tidy") /\ UNCHANGED source ELSE Ends(h, s)

Reload(h) ==
  /\ At(h, "reload")
  /\ \/ Returns(h)
     \/ journal[OpOf(h)].state \in Unfinished /\ Goes(h, "lease") /\ UNCHANGED source
  /\ UNCHANGED <<asked, journal, staging, world, lock, up>>

\* Mutant: a lease is taken over after a while, whoever has it.
AnyLock(t) == TRUE
LockFree(t) == lock[t] = NoHost

AcquireLease(h) ==
  /\ At(h, "lease") /\ LockFree(TargetOf(h))
  /\ lock' = [lock EXCEPT ![TargetOf(h)] = h]
  /\ Goes(h, "owned")
  /\ UNCHANGED <<asked, journal, staging, world, source, up>>

LeaseTimeout(h) ==
  /\ At(h, "lease") /\ ~LockFree(TargetOf(h))
  /\ \/ call[h].what \in Forward /\ Returns(h)
     \/ /\ call[h].what \notin Forward \/ journal[OpOf(h)].state \in Unfinished
        /\ Ends(h, "thrown")
  /\ UNCHANGED <<asked, journal, staging, world, lock, up>>

\* The row is read again under the lease.
Owned(h) ==
  /\ At(h, "owned")
  /\ LET row == journal[OpOf(h)] IN
     \/ /\ call[h].what \in Forward
        /\ Reads(h, IF row.state \in Unfinished THEN "check"
                    ELSE IF row.state = "completed" THEN "clean" ELSE "release")
     \/ /\ call[h].what \notin Forward
        /\ Goes(h, IF row.state # "needs_attention" \/ ~call[h].fresh THEN "throw"
                   ELSE IF call[h].what = "retry" /\ ~row.sealed THEN "restore"
                   ELSE "cleanup")
  /\ UNCHANGED <<asked, journal, staging, world, lock, source, up>>

\* An exception leaves through the release of the lease.
Throws(h) ==
  /\ call' = [call EXCEPT ![h].step = "throw", ![h].at = "thrown", ![h].fresh = FALSE]
  /\ UNCHANGED journal

Released(h) ==
  /\ At(h, "release") \/ At(h, "throw")
  /\ Ends(h, call[h].at)
  /\ lock' = [lock EXCEPT ![TargetOf(h)] = NoHost]
  /\ UNCHANGED <<asked, journal, staging, world, up>>

-----------------------------------------------------------------------------
(* forwardOwned.                                                           *)

\* retainsTargetClaim
Retains(p) ==
  /\ journal[p].state \notin {"absent", "aborted"}
  /\ ~(journal[p].state = "needs_attention" /\ journal[p].lost)
Contenders(t) == {p \in Op : request[p].target = t /\ Retains(p)}
Pool(t) ==
  LET advanced == {p \in Contenders(t) : journal[p].state # "prepared"} IN
  IF advanced # {} THEN advanced ELSE Contenders(t)
\* assertTargetOwner
Claims(o) ==
  LET pool == Pool(request[o].target) IN
  o \in pool /\ \A p \in pool \ {o} : p \notin earlier[o]

\* assertRuntimeTargetOwned.  The id of the bootstrap run is a digest of the state that is
\* published with it, and the goal in that gets a new random id whenever it is computed.
OwnsRuntime(o) ==
  LET there == runtime[request[o].target] IN
  there.part \in {"none", "session"} \/ (there.of = o /\ ~goal)

Following(s) ==
  CASE s = "prepared" -> "workspace_applied"
    [] s = "workspace_applied" -> "sidecars_committed"
    [] OTHER -> "completed"

\* A ForkOperationConflictError within forwardOwned; target_conflict loses the claim.
Conflict(h, lost) ==
  \/ WritesRow(h, [journal[OpOf(h)] EXCEPT !.state = "needs_attention",
                                           !.phase = call[h].at, !.lost = lost], "release")
  \/ ~call[h].fresh /\ Throws(h)

\* assertTargetOwner, then assertTargetAvailable or assertRuntimeTargetOwned.
Check(h) ==
  /\ At(h, "check")
  /\ LET o == OpOf(h)
         at == call[h].at
         clear == Claims(o) /\ IF at = "sidecars_committed" THEN OwnsRuntime(o)
                               ELSE runtime[TargetOf(h)].part = "none"
     IN \/ /\ clear /\ UNCHANGED journal
           /\ Goes(h, CASE at = "prepared" -> "apply"
                        [] at = "workspace_applied" -> "clone"
                        [] OTHER -> "open")
        \/ ~clear /\ Conflict(h, TRUE)
        \/ Conflict(h, FALSE)   \* the bundle cannot be read
  /\ UNCHANGED <<asked, staging, world, lock, source, up>>

\* The file is as it was frozen or as the operation restores it: both the restoration and
\* its rollback refuse any other.
Undisturbed(o) == file \in {original[o], o}

\* Mutant: a file that somebody has changed is left out.
AppliesWhatItCan(h) ==
  /\ At(h, "apply")
  /\ LET restores == request[OpOf(h)].kind = "both" /\ Undisturbed(OpOf(h)) IN
     /\ file' = IF restores THEN OpOf(h) ELSE file
     /\ applied' = IF restores THEN applied \cup {OpOf(h)} ELSE applied
  /\ Goes(h, "advance")
  /\ UNCHANGED <<asked, journal, staging, runtime, clone, cleaned, lock, source, up>>
\* applyWorkspace: the file is restored unless somebody else has changed it.
Apply(h) ==
  /\ At(h, "apply")
  /\ LET o == OpOf(h) IN
     \/ /\ request[o].kind # "both"
        /\ Goes(h, "advance") /\ UNCHANGED <<journal, file, applied>>
     \/ /\ request[o].kind = "both" /\ Undisturbed(o)
        /\ file' = o /\ applied' = applied \cup {o}
        /\ Goes(h, "advance") /\ UNCHANGED journal
     \/ /\ request[o].kind = "both" /\ ~Undisturbed(o)
        /\ Conflict(h, FALSE) /\ UNCHANGED <<file, applied>>
  /\ UNCHANGED <<asked, staging, runtime, clone, cleaned, lock, source, up>>

\* ensureSidecars: the clone is made unless its result is on record.
CloneHistory(h) ==
  /\ At(h, "clone")
  /\ \/ /\ staging[OpOf(h)] = "sidecars"
        /\ Goes(h, "advance") /\ UNCHANGED <<journal, clone>>
     \/ /\ staging[OpOf(h)] # "sidecars"
        /\ clone' = clone \cup {TargetOf(h)}
        /\ Goes(h, "note") /\ UNCHANGED journal
     \/ /\ staging[OpOf(h)] # "sidecars"   \* whatever goes wrong with the clone
        /\ Conflict(h, FALSE) /\ UNCHANGED clone
  /\ UNCHANGED <<asked, staging, file, runtime, applied, cleaned, lock, source, up>>

NoteSidecars(h) ==
  /\ At(h, "note")
  /\ staging' = [staging EXCEPT ![OpOf(h)] = "sidecars"]
  /\ Goes(h, "advance")
  /\ UNCHANGED <<asked, journal, world, lock, source, up>>

\* publishRuntime.  The row of the session, unless the bundle cannot be read, or the source
\* not as it was frozen; its events up to the marker; the end of the run that wrote them.
OpenTarget(h) ==
  /\ At(h, "open")
  /\ \/ /\ runtime' = IF runtime[TargetOf(h)].part = "none"
                      THEN [runtime EXCEPT ![TargetOf(h)] = [of |-> OpOf(h), part |-> "session"]]
                      ELSE runtime
        /\ Goes(h, "fill") /\ UNCHANGED journal
     \/ Conflict(h, FALSE) /\ UNCHANGED runtime
  /\ UNCHANGED <<asked, staging, file, clone, applied, cleaned, lock, source, up>>

FillTarget(h) ==
  /\ At(h, "fill")
  /\ runtime' = IF runtime[TargetOf(h)].part = "published" THEN runtime
                ELSE [runtime EXCEPT ![TargetOf(h)] = [of |-> OpOf(h), part |-> "begun"]]
  /\ Goes(h, "finish")
  /\ UNCHANGED <<asked, journal, staging, file, clone, applied, cleaned, lock, source, up>>

PublishTarget(h) ==
  /\ At(h, "finish")
  /\ runtime' = [runtime EXCEPT ![TargetOf(h)].part = "published"]
  /\ Goes(h, "advance")
  /\ UNCHANGED <<asked, journal, staging, file, clone, applied, cleaned, lock, source, up>>

Advance(h) ==
  /\ At(h, "advance")
  /\ LET next == Following(call[h].at) IN
     \/ WritesRow(h, [journal[OpOf(h)] EXCEPT !.state = next],
                  IF next = "completed" THEN "clean" ELSE "check")
     \/ ~call[h].fresh /\ Throws(h)
  /\ UNCHANGED <<asked, staging, world, lock, source, up>>

\* cleanupStaging, with the lease and without.
CleanStaging(h) ==
  /\ \/ At(h, "clean") /\ Goes(h, "release") /\ UNCHANGED source
     \/ At(h, "tidy") /\ Ends(h, "completed")
  /\ staging' = [staging EXCEPT ![OpOf(h)] = "none"]
  /\ UNCHANGED <<asked, journal, world, lock, up>>

-----------------------------------------------------------------------------
(* The two dispositions of an operation that needs attention.              *)

\* It goes on in the phase in which it failed.
Restore(h) ==
  /\ At(h, "restore")
  /\ \/ WritesRow(h, [journal[OpOf(h)] EXCEPT !.state = journal[OpOf(h)].phase,
                                              !.phase = "none", !.lost = FALSE], "check")
     \/ ~call[h].fresh /\ Throws(h)
  /\ UNCHANGED <<asked, staging, world, lock, source, up>>

\* Mutant: events without the end of their run are taken for a publication.
LooksPublished(t) == runtime[t].part \in {"begun", "published"}
\* The marker and the end of its run.
IsPublished(t) == runtime[t].part = "published"

\* cleanupUnpublishedForkTarget, up to the rollback of the workspace.
RollBack(h) ==
  /\ At(h, "cleanup")
  /\ LET o == OpOf(h)
         stays == \/ IsPublished(TargetOf(h))
                  \/ request[o].kind = "both" /\ ~Undisturbed(o)
     IN \/ stays /\ Throws(h) /\ UNCHANGED <<file, applied, cleaned>>
        \/ /\ ~stays /\ Goes(h, "erase") /\ UNCHANGED journal
           /\ file' = IF request[o].kind = "both" THEN original[o] ELSE file
           /\ applied' = applied \ {o}
           /\ cleaned' = cleaned \cup {TargetOf(h)}
  /\ UNCHANGED <<asked, staging, runtime, clone, lock, source, up>>

\* Mutant: nothing is deleted when the target has no events yet, the row stays.
EraseEvents(h) ==
  /\ At(h, "erase")
  /\ Goes(h, "unclone")
  /\ runtime' = IF runtime[TargetOf(h)].part = "begun"
                THEN [runtime EXCEPT ![TargetOf(h)] = [of |-> NoOp, part |-> "none"]] ELSE runtime
  /\ UNCHANGED <<asked, journal, staging, file, clone, applied, cleaned, lock, source, up>>
\* deleteSession, when there are no events or they are the operation's own.
Erase(h) ==
  /\ At(h, "erase")
  /\ \/ /\ OwnsRuntime(OpOf(h))
        /\ runtime' = [runtime EXCEPT ![TargetOf(h)] = [of |-> NoOp, part |-> "none"]]
        /\ Goes(h, "unclone") /\ UNCHANGED journal
     \/ ~OwnsRuntime(OpOf(h)) /\ Throws(h) /\ UNCHANGED runtime
  /\ UNCHANGED <<asked, staging, file, clone, applied, cleaned, lock, source, up>>

\* fileHistoryDeleteClonedSession compares the clone with the source, not its maker.
Unclone(h) ==
  /\ At(h, "unclone")
  /\ clone' = clone \ {TargetOf(h)}
  /\ Goes(h, "drop")
  /\ UNCHANGED <<asked, journal, staging, file, runtime, applied, cleaned, lock, source, up>>

Drop(h) ==
  /\ At(h, "drop")
  /\ \/ WritesRow(h, [journal[OpOf(h)] EXCEPT !.state = "aborted"], "clean")
     \/ ~call[h].fresh /\ Throws(h)
  /\ UNCHANGED <<asked, staging, world, lock, source, up>>

-----------------------------------------------------------------------------
(* settleFailedFork.  The operations that settle have a target each.       *)

\* The row, if there is one; it is replayed once when it is unfinished.
FindCandidate(h) ==
  /\ At(h, "find")
  /\ LET s == journal[OpOf(h)].state IN
     \/ s \in {"absent", "completed"} /\ GivesUp(h)
     \/ /\ s \notin {"absent", "completed"}
        /\ Reads(h, IF s \in Unfinished THEN "reload" ELSE "look")
        /\ UNCHANGED <<journal, source>>
  /\ UNCHANGED <<asked, staging, world, lock, up>>

\* The replay has thrown.
Reread(h) ==
  /\ At(h, "reread")
  /\ \/ journal[OpOf(h)].state = "completed" /\ GivesUp(h)
     \/ /\ journal[OpOf(h)].state # "completed"
        /\ Reads(h, "look") /\ UNCHANGED <<journal, source>>
  /\ UNCHANGED <<asked, staging, world, lock, up>>

Look(h) ==
  /\ At(h, "look")
  /\ LET at == call[h].at IN
     \/ /\ IsPublished(TargetOf(h)) /\ at = "sidecars_committed"
        /\ Goes(h, "commit") /\ UNCHANGED <<journal, source>>
     \/ /\ ~IsPublished(TargetOf(h)) /\ at # "aborted"
        /\ Goes(h, IF at \in Unfinished THEN "seal" ELSE "only")
        /\ UNCHANGED <<journal, source>>
     \/ /\ IF IsPublished(TargetOf(h)) THEN at # "sidecars_committed" ELSE at = "aborted"
        /\ GivesUp(h)
  /\ UNCHANGED <<asked, staging, world, lock, up>>

\* The three writes of a settlement, none of them under the lease of the target.
SettleCommits(h) ==
  /\ At(h, "commit")
  /\ \/ /\ call[h].fresh
        /\ journal' = [journal EXCEPT ![OpOf(h)].state = "completed"]
        /\ call' = [g \in Host |->
                      IF g = h THEN Idle
                      ELSE IF call[g].op = OpOf(h) THEN [call[g] EXCEPT !.fresh = FALSE]
                      ELSE call[g]]
        /\ source' = IF source = h THEN NoHost ELSE source
     \/ ~call[h].fresh /\ GivesUp(h)
  /\ UNCHANGED <<asked, staging, world, lock, up>>

SettleSeals(h) ==
  /\ At(h, "seal")
  /\ \/ /\ WritesRow(h, [journal[OpOf(h)] EXCEPT
                           !.state = "needs_attention", !.phase = call[h].at, !.lost = FALSE,
                           !.sealed = @ \/ request[OpOf(h)].kind = "both"], "only")
        /\ UNCHANGED source
     \/ ~call[h].fresh /\ GivesUp(h)
  /\ UNCHANGED <<asked, staging, world, lock, up>>

\* sealForkCleanupOnly, then the operation is aborted as a human would.
SettleAbandons(h) ==
  /\ At(h, "only")
  /\ \/ /\ request[OpOf(h)].kind = "both" => journal[OpOf(h)].sealed
        /\ call' = [call EXCEPT ![h].what = "abort", ![h].step = "lease"]
        /\ UNCHANGED <<journal, source>>
     \/ /\ request[OpOf(h)].kind = "both" /\ ~journal[OpOf(h)].sealed
        /\ WritesRow(h, [journal[OpOf(h)] EXCEPT !.sealed = TRUE], "only")
        /\ UNCHANGED source
     \/ /\ request[OpOf(h)].kind = "both" /\ ~journal[OpOf(h)].sealed
        /\ ~call[h].fresh /\ GivesUp(h)
  /\ UNCHANGED <<asked, staging, world, lock, up>>

-----------------------------------------------------------------------------
(* Everything else that happens.                                           *)

\* A file or database operation fails, or an assertion of the lease: the call throws.
Fails(h) ==
  /\ h \in up /\ call[h].step \notin {"none", "release", "throw"}
  /\ \/ call[h].step \in Leased /\ Throws(h) /\ UNCHANGED source
     \/ /\ call[h].step \in {"freeze", "insert", "reload", "lease", "tidy"}
        /\ Ends(h, "thrown") /\ UNCHANGED journal
     \/ call[h].step \in {"find", "reread", "look", "commit", "seal", "only"} /\ GivesUp(h)
  /\ UNCHANGED <<asked, staging, world, lock, up>>

\* What it had can be taken over at once: the owner leases of the dead are stale.
Dies(h) ==
  /\ h \in up \cap Mortal
  /\ up' = up \ {h}
  /\ call' = [call EXCEPT ![h] = Idle]
  /\ lock' = [t \in Target |-> IF lock[t] = h THEN NoHost ELSE lock[t]]
  /\ source' = IF source = h THEN NoHost ELSE source
  /\ UNCHANGED <<asked, journal, staging, world>>

Edit ==
  /\ file # Edited /\ file' = Edited
  /\ UNCHANGED <<asked, journal, staging, runtime, clone, applied, cleaned, lock, source, up,
                 call>>

CallStep(h) ==
  \/ Freeze(h) \/ Insert(h) \/ Reload(h) \/ AcquireLease(h) \/ LeaseTimeout(h) \/ Owned(h)
  \/ Released(h) \/ Check(h) \/ Apply(h) \/ CloneHistory(h) \/ NoteSidecars(h)
  \/ OpenTarget(h) \/ FillTarget(h) \/ PublishTarget(h) \/ Advance(h) \/ CleanStaging(h)
  \/ Restore(h) \/ RollBack(h) \/ Erase(h) \/ Unclone(h) \/ Drop(h)
  \/ FindCandidate(h) \/ Reread(h) \/ Look(h) \/ SettleCommits(h) \/ SettleSeals(h)
  \/ SettleAbandons(h) \/ Fails(h) \/ Dies(h)

Next ==
  \/ \E h \in Host, o \in Op : \E k \in Kind, t \in Target : ForkBegins(h, o, k, t)
  \/ \E h \in Host, o \in Op : ForkAgain(h, o) \/ Recover(h, o)
  \/ \E h \in Host, o \in Op : \E w \in {"retry", "abort"} : Dispose(h, o, w)
  \/ \E h \in Host : CallStep(h)
  \/ Edit

Spec == Init /\ [][Next]_vars

-----------------------------------------------------------------------------
(* What is promised.                                                       *)

Row == [state : Unfinished \cup Terminal \cup {"absent"}, phase : Unfinished \cup {"none"},
        lost : BOOLEAN, sealed : BOOLEAN]
Call == [what : What, op : Op \cup {NoOp}, step : Step,
         at : Unfinished \cup Terminal \cup {"absent", "thrown"}, fresh : BOOLEAN]

TypeOK ==
  /\ goal \in BOOLEAN
  /\ request \in [Op -> [kind : Kind \cup {"none"}, target : Target \cup {NoTarget}]]
  /\ journal \in [Op -> Row]
  /\ earlier \in [Op -> SUBSET Op]
  /\ staging \in [Op -> Staging]
  /\ original \in [Op -> Op \cup {Base, Edited}]
  /\ file \in Op \cup {Base, Edited}
  /\ runtime \in [Target -> [of : Op \cup {NoOp}, part : Part]]
  /\ clone \subseteq Target /\ cleaned \subseteq Target /\ applied \subseteq Op
  /\ lock \in [Target -> Host \cup {NoHost}]
  /\ source \in Host \cup {NoHost}
  /\ up \subseteq Host
  /\ call \in [Host -> Call]

Busy(h) == call[h].step # "none"
Working == {"check", "apply", "clone", "note", "open", "fill", "finish", "advance"}
\* It is recorded that an operation has reached one of the phases, be it completed since or
\* in need of attention.
Reached(o, phases) ==
  \/ journal[o].state \in phases \cup {"completed"}
  \/ journal[o].state = "needs_attention" /\ journal[o].phase \in phases

(* A call: the operation and the lease it has, what it has read, and what it knows of its
   target. *)
IsAsked(h) ==
  IF Busy(h) THEN call[h].what # "none" /\ OpOf(h) \in Op /\ TargetOf(h) \in Target
  ELSE call[h] = Idle
HoldsLease(h) == call[h].step \in Leased => lock[TargetOf(h)] = h
\* What it has read is there, and as it was unless somebody has written it since.
ReadsTrue(h) ==
  /\ call[h].step \notin {"none", "freeze", "insert", "find"} => HasRow(OpOf(h))
  /\ call[h].fresh =>
       Busy(h) /\ HasRow(OpOf(h)) /\ call[h].at \in {journal[OpOf(h)].state, "thrown"}
\* The row with which it goes through its steps.
FitsRow(h) ==
  LET c == call[h] IN
  /\ c.step \in {"freeze", "insert"} => c.what = "fork"
  /\ c.step = "apply" => c.at = "prepared"
  /\ c.step \in {"clone", "note"} => c.at = "workspace_applied"
  /\ c.step \in {"open", "fill", "finish", "commit"} => c.at = "sidecars_committed"
  /\ c.step \in {"check", "advance", "seal"} => c.at \in Unfinished
  /\ c.step \in {"restore", "cleanup", "erase", "unclone", "drop", "only"}
       => c.at = "needs_attention"
  /\ c.what \in {"retry", "abort"} /\ c.step \in {"reload", "lease", "owned"}
       => c.at = "needs_attention"
  /\ c.step = "look" => c.at \in Unfinished \cup {"aborted", "needs_attention"}
  /\ c.step = "release" => c.at \in Terminal
  /\ c.step = "throw" => c.at \in {"thrown", "needs_attention"}
  /\ c.step = "clean" => OutOfTheWay(OpOf(h)) /\ journal[OpOf(h)].state = c.at
  /\ c.step = "tidy" => journal[OpOf(h)].state = "completed"
  /\ c.step \in Working => journal[OpOf(h)].state # "aborted"
  /\ c.step \in {"find", "reread", "look", "commit", "seal", "only"} => c.what = "settle"
  /\ c.what = "settle" => request[OpOf(h)].kind \in Settling
\* The bundle is there when the row is created, the sidecar result when it tells of it.
HasBundle(h) ==
  /\ call[h].step = "insert" /\ ~HasRow(OpOf(h)) => staging[OpOf(h)] # "none"
  /\ call[h].step = "advance" /\ call[h].fresh /\ call[h].at = "workspace_applied" =>
       staging[OpOf(h)] = "sidecars"
\* What is in the target while it has the lease, or once it is published.
KnowsTarget(h) ==
  LET there == runtime[TargetOf(h)]
      step == call[h].step
  IN /\ step = "open" => OwnsRuntime(OpOf(h))
     /\ step = "fill" => OwnsRuntime(OpOf(h)) /\ there.part # "none"
     /\ step = "finish" => there.of = OpOf(h) /\ there.part \in {"begun", "published"}
     /\ step = "advance" /\ call[h].at = "sidecars_committed" =>
          there = [of |-> OpOf(h), part |-> "published"]
     /\ step = "erase" => there.part # "published"
     /\ step \in {"unclone", "drop"} => there.of # OpOf(h)
     /\ step = "drop" => TargetOf(h) \notin clone
     /\ step = "commit" => there.part = "published"
\* The effect it is about to record, unless a cleanup has begun on the target.
HasEffect(h) ==
  /\ call[h].step \in {"erase", "unclone", "drop"} => TargetOf(h) \in cleaned
  /\ Busy(h) /\ TargetOf(h) \notin cleaned =>
       /\ call[h].step = "note" => TargetOf(h) \in clone
       /\ call[h].step = "advance" /\ call[h].at = "prepared" /\ request[OpOf(h)].kind = "both"
            => OpOf(h) \in applied
       /\ call[h].step = "advance" /\ call[h].at = "workspace_applied" =>
            TargetOf(h) \in clone
CallIsSound(h) ==
  /\ IsAsked(h) /\ HoldsLease(h) /\ ReadsTrue(h) /\ FitsRow(h)
  /\ HasBundle(h) /\ KnowsTarget(h) /\ HasEffect(h)

(* An operation: what was asked, and what its row promises. *)
HasTarget(o) ==
  /\ request[o] = Unused \/ (request[o].kind \in Kind /\ request[o].target \in Target)
  /\ HasRow(o) \/ staging[o] # "none" => request[o].target \in Target
\* A row that is not out of the way can go on: it has the phase and the bundle.
CanGoOn(o) ==
  /\ journal[o].state = "needs_attention" => journal[o].phase \in Unfinished
  /\ HasRow(o) /\ ~OutOfTheWay(o) => staging[o] # "none"
  /\ Reached(o, {"sidecars_committed"}) /\ ~OutOfTheWay(o) => staging[o] = "sidecars"
\* The journal advances only after the effects are there, unless a cleanup of the target
\* has begun since: then a retry takes up a phase whose effects are gone.
FollowsEffects(o) ==
  request[o].target \notin cleaned =>
    /\ Reached(o, {"workspace_applied", "sidecars_committed"}) /\ request[o].kind = "both" =>
         o \in applied
    /\ Reached(o, {"sidecars_committed"}) => request[o].target \in clone
\* So does the sidecar result.
NotesAreTrue(o) ==
  staging[o] = "sidecars" /\ request[o].target \notin cleaned => request[o].target \in clone
\* It has its target to itself, with the whole publication.
IsWhole(o) == runtime[request[o].target] = [of |-> o, part |-> "published"]
\* Nothing of its own is left in its target: no events, no row of the session, and no file
\* history unless for another operation with the same target.
IsGone(o) ==
  /\ runtime[request[o].target].of # o
  /\ request[o].target \in clone =>
       \E p \in Op \ {o} : request[p].target = request[o].target /\ journal[p].state # "aborted"
RowIsSound(o) ==
  /\ HasTarget(o) /\ CanGoOn(o) /\ FollowsEffects(o) /\ NotesAreTrue(o)
  /\ journal[o].state = "completed" => IsWhole(o)
  /\ journal[o].state = "aborted" => IsGone(o)

\* Only terminal prompts share a target, and who has written events to one was asked to.
TargetsAreApart ==
  /\ \A p, q \in Op :
       p # q /\ request[p].target \in Target /\ request[p].target = request[q].target =>
         request[p].kind = "fork" /\ request[q].kind = "fork"
  /\ \A t \in Target : runtime[t].part \in {"begun", "published"} =>
       runtime[t].of \in Op /\ request[runtime[t].of].target = t

\* Of rows, targets and calls: the leases, and what they say of each other.
ForkInv ==
  /\ TypeOK /\ TargetsAreApart
  /\ \A h \in Host : CallIsSound(h)
  /\ \A o \in Op : RowIsSound(o)

(* The file, which a restoration lays over what it was: a rollback uncovers that again. *)

\* One fork runs at the source at a time; a bundle is frozen before its row is written.
AtSource(h) ==
  /\ call[h].what = "fork" => source = h
  /\ call[h].step = "freeze" => ~HasRow(OpOf(h))
Frozen(o) == staging[o] # "none" \/ HasRow(o)
\* Its restoration is taken back, and its row does not tell of it yet or does.
TakenBack(o) ==
  \/ journal[o].state = "aborted"
  \/ \E h \in Host : OpOf(h) = o /\ call[h].step \in {"erase", "unclone", "drop"}
\* The operations whose restoration the content is or lies over, when under[o] are those
\* below the restoration of o.
Layers(under, content) == IF content \in Op THEN {content} \cup under[content] ELSE {}
\* Nothing lies over itself, over what restores no file, or over what is taken back.
Layered(under) ==
  \A o \in Op :
    /\ Frozen(o) => under[o] = Layers(under, original[o]) /\ o \notin under[o]
    /\ ~Frozen(o) \/ request[o].kind # "both" =>
         o \notin Layers(under, file) /\ \A p \in Op : o \notin under[p]
    /\ TakenBack(o) => o \notin Layers(under, file)
FileInv ==
  /\ \A h \in Host : AtSource(h)
  /\ \E under \in [Op -> SUBSET Op] : Layered(under)

\* The inductive invariant as a whole.
SagaInv == ForkInv /\ FileInv

\* A fork that is recorded as completed has its target to itself, with the whole
\* publication: never half of it, nor that of another operation with the same target.
CompletedIsPublished == \A o \in Op : journal[o].state = "completed" => IsWhole(o)

\* An aborted fork leaves nothing of its own behind: no events, no row of the session, no
\* file history, and no file as it has restored it.
AbortedLeavesNothing == \A o \in Op : journal[o].state = "aborted" => IsGone(o) /\ file # o

\* The journal never runs ahead of the effects it tells of, in whatever phase the saga dies.
EffectsPrecedeJournal == \A o \in Op : FollowsEffects(o)

\* What has ended stays so: no cleanup takes away a target that is published, be it the
\* abort of a human while a replay publishes or a settlement that looked before, and no
\* call changes how an operation has ended, however old the row it has read.
NothingIsUndone ==
  [][/\ \A t \in Target : runtime[t].part = "published" => runtime'[t] = runtime[t]
     /\ \A o \in Op : OutOfTheWay(o) => journal'[o] = journal[o]]_vars

\* An operation loses its target only to another one.
LostToAnother ==
  \A o \in Op : journal[o].lost => \E p \in Op \ {o} : request[p].target = request[o].target
=============================================================================
