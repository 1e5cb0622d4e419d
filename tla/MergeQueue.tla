----------------------------- MODULE MergeQueue -----------------------------
(***************************************************************************)
(* The serial integration of finished worktrees: the merge queues of all   *)
(* task hosts of a repository                                              *)
(* (packages/pico-host/src/worktree-merge-queue.ts), their common lock and *)
(* the tasks that wait for them (finalizeWorktree,                         *)
(* packages/pico-host/src/task-host-runtime.ts).                           *)
(*                                                                         *)
(* A head is the set of the commits that can be reached from it and that   *)
(* matter: the source commit of a task is named by the task.  Git runs as  *)
(* a child process: each of its answers is an action, anything may happen  *)
(* between two, and a fast-forward goes on when its host has died.  The    *)
(* lock is an OwnerLease: it belongs to the lease that took it until that  *)
(* is released or its host has died.  The rows of the merge requests are   *)
(* written without failure here; JobHost has the failures.                 *)
(***************************************************************************)
CONSTANTS
  Host,      \* task host processes of the repository
  Mortal,    \* those that may die
  Task,      \* worktree tasks, each finished once
  Outside,   \* commits of people and other programs
  NoHost, NoTask

ASSUME MergeAssumption ==
  /\ Mortal \subseteq Host /\ NoHost \notin Host /\ NoTask \notin Task
  /\ Task \cap Outside = {}

Head == SUBSET (Task \cup Outside)

\* What has become of a finalizeWorktree: its awaits, and the last status of its row.
Outcome == {"merged", "blocked", "failed", "not_needed"}
Finalization == {"none", "ask", "read", "set", "waiting"} \cup Outcome

EntryStatus == {"absent", "queued", "running", "merged", "blocked"}
Tree == {"none", "broken", "added"}   \* the integration worktree; broken: not added
Work == {"none", "lock", "check", "integrate", "publish", "ff", "finish", "release"}
Resumption == {"none", "lock", "validate", "requeue", "requeued", "publish", "ff", "finish",
               "release", "abandon"}

VARIABLES
  target,    \* refs/heads/<target branch>
  upstream,  \* its @{upstream}
  lock,      \* pico-merge.lock: the task whose lease has it
  up,        \* hosts that run
  on,        \* the host that finalizes a task
  final,     \* finalizeWorktree, per task
  entry,     \* the entries of the queues
  work,      \* the awaits of process(entry)
  resume,    \* the awaits of resumeAfterResolution(taskId)
  published, \* history: tasks whose merge a queue has put on the target
  accepted   \* history: outside commits that a resumption took as its baseline

vars == <<target, upstream, lock, up, on, final, entry, work, resume, published, accepted>>
git == <<target, upstream, published, accepted>>

Blank == [status |-> "absent", behind |-> {}, expects |-> {}, upstream |-> {},
          before |-> {}, tree |-> "none", integ |-> {}, drifted |-> FALSE,
          was |-> [expects |-> {}, upstream |-> {}],
          seen |-> {}]   \* history: the outside commits on the target when it was enqueued

Init ==
  /\ target = {} /\ upstream = {} /\ lock = NoTask /\ up = Host
  /\ on = [t \in Task |-> NoHost]
  /\ final = [t \in Task |-> "none"]
  /\ entry = [t \in Task |-> Blank]
  /\ work = [t \in Task |-> "none"]
  /\ resume = [t \in Task |-> "none"]
  /\ published = {} /\ accepted = {}

-----------------------------------------------------------------------------
(* A queue.                                                                *)

QueueOf(h) == {t \in Task : on[t] = h}
Runs(t) == on[t] \in up
\* Mutant: the promise of the drain is forgotten before the last lease is released.
DrainingLocked(h) == \E t \in QueueOf(h) : work[t] \notin {"none", "release"}
\* drainPromise is set.
Draining(h) == \E t \in QueueOf(h) : work[t] # "none"
Blocked(e, h) == \E t \in QueueOf(h) : e[t].status = "blocked"
Queued(e, h) == {t \in QueueOf(h) : e[t].status = "queued"}
\* Mutant: any entry that is queued.
AnyNext(e, h, t) == t \in Queued(e, h)
\* entries is a Map: its order is that of the insertions.
IsNext(e, h, t) == t \in Queued(e, h) /\ e[t].behind \cap Queued(e, h) = {}

\* Mutant: an entry that is still queued is waited for, although an earlier one is blocked.
ToldProcessed(h, e, f) ==
  [t \in Task |-> IF on[t] = h /\ f[t] = "waiting" /\ e[t].status # "queued"
                  THEN IF e[t].status = "merged" THEN "merged" ELSE "blocked"
                  ELSE f[t]]
\* Who awaits the promise of the drain that ends, and what it reads then.
Told(h, e, f) ==
  [t \in Task |-> IF on[t] = h /\ f[t] = "waiting"
                  THEN IF e[t].status = "merged" THEN "merged" ELSE "blocked"
                  ELSE f[t]]
\* The promise of the drain is rejected.
Rejected(h, f) ==
  [t \in Task |-> IF on[t] = h /\ f[t] = "waiting" THEN "failed" ELSE f[t]]

\* The loop of drain: the next entry is processed, unless one is blocked.
Drains(h, e, w, f) ==
  \/ /\ Blocked(e, h) \/ Queued(e, h) = {}
     /\ entry' = e /\ work' = w /\ final' = Told(h, e, f)
  \/ /\ ~Blocked(e, h)
     /\ \E t \in Task :
          /\ IsNext(e, h, t)
          /\ entry' = [e EXCEPT ![t].status = "running"]
          /\ work' = [w EXCEPT ![t] = "lock"] /\ final' = f

-----------------------------------------------------------------------------
(* finalizeWorktree and enqueue.                                           *)

FinalizeWorktree(h, t) ==
  /\ h \in up /\ on[t] = NoHost
  /\ on' = [on EXCEPT ![t] = h] /\ final' = [final EXCEPT ![t] = "ask"]
  /\ UNCHANGED <<git, lock, up, entry, work, resume>>

AncestorAnswers(t) ==
  /\ final[t] = "ask" /\ Runs(t)
  /\ final' = [final EXCEPT ![t] = IF t \in target THEN "not_needed" ELSE "read"]
  /\ UNCHANGED <<git, lock, up, on, entry, work, resume>>

\* resolveBranchHead: the entry is not in the queue yet.
ReadTarget(t) ==
  /\ final[t] = "read" /\ Runs(t)
  /\ entry' = [entry EXCEPT ![t].expects = target, ![t].seen = target \cap Outside]
  /\ final' = [final EXCEPT ![t] = "set"]
  /\ UNCHANGED <<git, lock, up, on, work, resume>>

GitFails(t) ==
  /\ final[t] \in {"ask", "read"} /\ Runs(t)
  /\ final' = [final EXCEPT ![t] = "failed"]
  /\ UNCHANGED <<git, lock, up, on, entry, work, resume>>

\* The upstream answers; the entry is set, scheduleDrain, waitForIdle.
Enqueue(t) ==
  /\ final[t] = "set" /\ Runs(t)
  /\ LET e == [entry EXCEPT ![t].status = "queued", ![t].upstream = upstream,
                            ![t].behind = {s \in QueueOf(on[t]) :
                                             entry[s].status # "absent"}]
         f == [final EXCEPT ![t] = "waiting"]
     IN IF Draining(on[t]) THEN entry' = e /\ final' = f /\ UNCHANGED work
                           ELSE Drains(on[t], e, work, f)
  /\ UNCHANGED <<git, lock, up, on, resume>>

-----------------------------------------------------------------------------
(* process(entry).                                                         *)

\* The catch: the entry is blocked, and the lease released.
Stops(t, drifted) ==
  /\ entry' = [entry EXCEPT ![t].status = "blocked", ![t].drifted = drifted]
  /\ work' = [work EXCEPT ![t] = "release"]

\* lockTarget; another lease has the lock, or git fails: no lease to release.
LockTarget(t) ==
  /\ work[t] = "lock" /\ Runs(t)
  /\ \/ lock = NoTask /\ lock' = t /\ work' = [work EXCEPT ![t] = "check"]
        /\ UNCHANGED <<entry, final>>
     \/ /\ Drains(on[t], [entry EXCEPT ![t].status = "blocked", ![t].drifted = FALSE],
                  [work EXCEPT ![t] = "none"], final)
        /\ UNCHANGED lock
  /\ UNCHANGED <<git, up, on, resume>>

Drifted(t) == target # entry[t].expects \/ upstream # entry[t].upstream

\* The checks before the merge.  Nobody but outsiders moves both refs: reading them at once
\* answers what reading one after the other may answer.
CheckTarget(t) ==
  /\ work[t] = "check" /\ Runs(t)
  /\ IF Drifted(t) THEN Stops(t, TRUE)
     ELSE /\ work' = [work EXCEPT ![t] = "integrate"]
          /\ entry' = [entry EXCEPT ![t].before = target]
  /\ UNCHANGED <<git, lock, up, on, final, resume>>

\* git worktree add, git merge and validateIntegration, which finds no merge commit when
\* the source has reached the target another way.
Integrate(t) ==
  /\ work[t] = "integrate" /\ Runs(t) /\ t \notin entry[t].before
  /\ work' = [work EXCEPT ![t] = "publish"]
  /\ entry' = [entry EXCEPT ![t].tree = "added", ![t].integ = entry[t].before \cup {t}]
  /\ UNCHANGED <<git, lock, up, on, final, resume>>

\* The worktree cannot be added, or the merge has conflicts and is left to a human.
IntegrateFails(t) ==
  /\ work[t] = "integrate" /\ Runs(t)
  /\ \E tree \in {"broken", "added"} :
       entry' = [entry EXCEPT ![t].status = "blocked", ![t].drifted = FALSE,
                              ![t].tree = tree, ![t].integ = entry[t].before]
  /\ work' = [work EXCEPT ![t] = "release"]
  /\ UNCHANGED <<git, lock, up, on, final, resume>>

\* publishIntegration, up to its last await.
Publish(t) ==
  /\ work[t] = "publish" /\ Runs(t)
  /\ IF Drifted(t) THEN Stops(t, TRUE)
     ELSE work' = [work EXCEPT ![t] = "ff"] /\ UNCHANGED entry
  /\ UNCHANGED <<git, lock, up, on, final, resume>>

\* Any other check of a worktree or of the configuration fails.
CheckFails(t) ==
  /\ work[t] \in {"check", "integrate", "publish", "ff"} /\ Runs(t)
  /\ Stops(t, FALSE)
  /\ UNCHANGED <<git, lock, up, on, final, resume>>

\* Mutant: the branch is set to the integrated head, whatever is on it.
Overwrites(t) ==
  /\ entry[t].tree = "added"
  /\ target' = entry[t].integ
  /\ published' = published \cup {t}
\* git merge --ff-only.
FastForwards(t) ==
  /\ entry[t].tree = "added" /\ target \subseteq entry[t].integ
  /\ target' = entry[t].integ
  /\ published' = published \cup {t}

FastForward(t) ==
  /\ work[t] = "ff"
  /\ FastForwards(t) /\ work' = [work EXCEPT ![t] = "finish"]
  /\ UNCHANGED <<upstream, accepted, lock, up, on, final, entry, resume>>

FastForwardRefused(t) ==
  /\ work[t] = "ff" /\ Runs(t) /\ ~(target \subseteq entry[t].integ)
  /\ Stops(t, FALSE)
  /\ UNCHANGED <<git, lock, up, on, final, resume>>

\* Mutant: the entries are advanced whatever their baseline.
FinishedAll(t, targets, upstreams) ==
  [s \in Task |->
     IF s = t THEN [entry[t] EXCEPT !.status = "merged", !.tree = "none"]
     ELSE IF on[s] = on[t] /\ entry[s].status = "queued"
     THEN [entry[s] EXCEPT !.expects = entry[t].integ, !.upstream = entry[t].upstream]
     ELSE entry[s]]
\* markMerged and advanceExpectedTargetHeads.
Finished(t, targets, upstreams) ==
  [s \in Task |->
     IF s = t THEN [entry[t] EXCEPT !.status = "merged", !.tree = "none"]
     ELSE IF /\ on[s] = on[t] /\ entry[s].status = "queued"
             /\ entry[s].expects \in targets /\ entry[s].upstream \in upstreams
     THEN [entry[s] EXCEPT !.expects = entry[t].integ, !.upstream = entry[t].upstream]
     ELSE entry[s]]

FinishIntegration(t) ==
  /\ work[t] = "finish" /\ Runs(t)
  /\ entry' = Finished(t, {entry[t].expects}, {entry[t].upstream})
  /\ work' = [work EXCEPT ![t] = "release"]
  /\ UNCHANGED <<git, lock, up, on, final, resume>>

\* finally: a release that throws rejects the drain, which is scheduled again.
ReleaseLease(t) ==
  /\ work[t] = "release" /\ Runs(t)
  /\ LET w == [work EXCEPT ![t] = "none"]
     IN \/ lock' = NoTask /\ Drains(on[t], entry, w, final)
        \/ UNCHANGED lock /\ Drains(on[t], entry, w, Rejected(on[t], final))
  /\ UNCHANGED <<git, up, on, resume>>

-----------------------------------------------------------------------------
(* resumeAfterResolution.  A host has one at a time; while it runs, nobody *)
(* works in the integration worktree.                                      *)

Resumes(t, s) == resume' = [resume EXCEPT ![t] = s]

ResumeAfterResolution(t) ==
  /\ Runs(t) /\ entry[t].status = "blocked"
  /\ \A s \in QueueOf(on[t]) : resume[s] = "none"
  /\ Resumes(t, "lock")
  /\ UNCHANGED <<git, lock, up, on, final, entry, work>>

ResumeLocks(t) ==
  /\ resume[t] = "lock" /\ Runs(t)
  /\ \/ lock = NoTask /\ lock' = t
        /\ Resumes(t, IF entry[t].tree = "added" THEN "validate" ELSE "requeue")
     \/ UNCHANGED lock /\ Resumes(t, "none")
  /\ UNCHANGED <<git, up, on, final, entry, work>>

\* The resolution contains the merge, the target and an upstream that has moved.
ResumeValidates(t) ==
  /\ resume[t] = "validate" /\ Runs(t)
  /\ \/ /\ entry[t].before \cup {t} \cup target \subseteq entry[t].integ
        /\ entry[t].integ # entry[t].before
        /\ upstream = entry[t].upstream \/ upstream \subseteq entry[t].integ
        /\ Resumes(t, "publish")
        /\ entry' = [entry EXCEPT
             ![t].was = [expects |-> entry[t].expects, upstream |-> entry[t].upstream],
             ![t].expects = target, ![t].upstream = upstream]
     \/ Resumes(t, "abandon") /\ UNCHANGED entry
  /\ UNCHANGED <<git, lock, up, on, final, work>>

\* The previous baseline comes back.
Restores(t) ==
  /\ entry' = [entry EXCEPT ![t].expects = entry[t].was.expects,
                            ![t].upstream = entry[t].was.upstream]
  /\ Resumes(t, "abandon")

ResumePublishes(t) ==
  /\ resume[t] = "publish" /\ Runs(t)
  /\ \/ ~Drifted(t) /\ Resumes(t, "ff") /\ UNCHANGED entry
     \/ Restores(t)
  /\ UNCHANGED <<git, lock, up, on, final, work>>

ResumeFastForward(t) ==
  /\ resume[t] = "ff"
  /\ FastForwards(t) /\ Resumes(t, "finish")
  /\ accepted' = accepted \cup (entry[t].integ \cap Outside)
  /\ UNCHANGED <<upstream, lock, up, on, final, entry, work>>

ResumeRefused(t) ==
  /\ resume[t] = "ff" /\ Runs(t)
  /\ Restores(t)
  /\ UNCHANGED <<git, lock, up, on, final, work>>

ResumeFinishes(t) ==
  /\ resume[t] = "finish" /\ Runs(t)
  /\ entry' = Finished(t, {entry[t].expects, entry[t].was.expects},
                          {entry[t].upstream, entry[t].was.upstream})
  /\ Resumes(t, "release")
  /\ UNCHANGED <<git, lock, up, on, final, work>>

\* Nothing was merged yet: the entry is queued again, on the head of now.
Requeue(t) ==
  /\ resume[t] = "requeue" /\ Runs(t)
  /\ \/ /\ entry[t].tree = "none"      \* else cleanupIntegration throws
        /\ entry' = [entry EXCEPT ![t].status = "queued", ![t].expects = target]
        /\ accepted' = accepted \cup (target \cap Outside)
        /\ Resumes(t, "requeued")
     \/ Resumes(t, "abandon") /\ UNCHANGED <<entry, accepted>>
  /\ UNCHANGED <<target, upstream, published, lock, up, on, final, work>>

\* The await of the upstream: another enqueue may have started a drain by now.
RequeueAnswers(t) ==
  /\ resume[t] = "requeued" /\ Runs(t)
  /\ entry' = [entry EXCEPT ![t].upstream = upstream]
  /\ Resumes(t, "release")
  /\ UNCHANGED <<git, lock, up, on, final, work>>

\* finally: after an error, or when the release throws, no drain is scheduled.
ResumeReleases(t) ==
  /\ resume[t] \in {"release", "abandon"} /\ Runs(t)
  /\ Resumes(t, "none")
  /\ \/ /\ lock' = NoTask
        /\ IF resume[t] = "release" /\ ~Draining(on[t])
           THEN Drains(on[t], entry, work, final) ELSE UNCHANGED <<entry, work, final>>
     \/ UNCHANGED <<lock, entry, work, final>>
  /\ UNCHANGED <<git, up, on>>

-----------------------------------------------------------------------------
(* People, and processes that die.                                         *)

\* A human finishes the merge in the integration worktree, on what else there is.
Resolve(t) ==
  /\ Runs(t) /\ entry[t].status = "blocked" /\ entry[t].tree = "added" /\ resume[t] = "none"
  /\ \E more \in {{}, target, upstream, target \cup upstream} :
       entry' = [entry EXCEPT ![t].integ = @ \cup {t} \cup more]
  /\ UNCHANGED <<git, lock, up, on, final, work, resume>>

\* A commit on the target, one that merges a task by hand, or a fetch.
OutsideCommits(u) ==
  /\ u \notin target \cup upstream
  /\ \/ /\ \E T \in {{}} \cup {{t} : t \in Task} : target' = target \cup T \cup {u}
        /\ UNCHANGED upstream
     \/ upstream' = upstream \cup {u} /\ UNCHANGED target
  /\ UNCHANGED <<published, accepted, lock, up, on, final, entry, work, resume>>

\* A git that was started goes on; the lock of a dead owner is there to be taken.
Dies(h) ==
  /\ h \in Mortal /\ h \in up
  /\ up' = up \ {h}
  /\ lock' = IF lock \in QueueOf(h) THEN NoTask ELSE lock
  /\ work' = [t \in Task |-> IF on[t] = h /\ work[t] # "ff" THEN "none" ELSE work[t]]
  /\ resume' = [t \in Task |-> IF on[t] = h /\ resume[t] # "ff" THEN "none" ELSE resume[t]]
  /\ UNCHANGED <<git, on, final, entry>>

Process(t) ==
  \/ LockTarget(t) \/ CheckTarget(t) \/ Integrate(t) \/ IntegrateFails(t)
  \/ Publish(t) \/ CheckFails(t) \/ FastForward(t) \/ FastForwardRefused(t)
  \/ FinishIntegration(t) \/ ReleaseLease(t)

Call(t) == AncestorAnswers(t) \/ ReadTarget(t) \/ GitFails(t) \/ Enqueue(t)

ResumeStep(t) ==
  \/ ResumeLocks(t) \/ ResumeValidates(t) \/ ResumePublishes(t) \/ ResumeFastForward(t)
  \/ ResumeRefused(t) \/ ResumeFinishes(t) \/ Requeue(t) \/ RequeueAnswers(t)
  \/ ResumeReleases(t)

Next ==
  \/ \E t \in Task :
       \/ \E h \in Host : FinalizeWorktree(h, t)
       \/ Call(t) \/ Process(t) \/ ResumeAfterResolution(t) \/ ResumeStep(t) \/ Resolve(t)
  \/ \E u \in Outside : OutsideCommits(u)
  \/ \E h \in Host : Dies(h)

Spec == Init /\ [][Next]_vars

\* Git answers and the event loop goes round: a queue and a resumption go on.
Fairness == \A t \in Task : WF_vars(Process(t)) /\ WF_vars(ResumeStep(t)) /\ WF_vars(Call(t))
FairSpec == Spec /\ Fairness

-----------------------------------------------------------------------------
(* Properties.                                                             *)

Entry == [status : EntryStatus, behind : SUBSET Task, expects : Head, upstream : Head,
          before : Head, tree : Tree, integ : Head, drifted : BOOLEAN,
          was : [expects : Head, upstream : Head], seen : SUBSET Outside]

\* The shape of refs, entries and calls.
TypeOK ==
  /\ target \in Head /\ upstream \in Head
  /\ lock \in Task \cup {NoTask}
  /\ up \subseteq Host
  /\ on \in [Task -> Host \cup {NoHost}]
  /\ final \in [Task -> Finalization]
  /\ entry \in [Task -> Entry]
  /\ work \in [Task -> Work]
  /\ resume \in [Task -> Resumption]
  /\ published \subseteq Task /\ accepted \subseteq Outside

\* What the queue and finalizeWorktree say of a merge is so: a task that counts as merged,
\* or as in no need of it, is in the target branch, and no published merge is queued again
\* or shown as blocked ("cleanup failure must never turn it into a failed merge").
VerdictTells ==
  \A t \in Task :
    /\ final[t] \in {"merged", "not_needed"} => t \in target
    /\ entry[t].status = "merged" => t \in published
    /\ Runs(t) /\ entry[t].status \in {"queued", "blocked"} /\ t \in published
       => resume[t] = "finish"

\* The queue is serial: no task is merged before one that was enqueued earlier in its host,
\* even when that one is blocked, resolved by a human or queued again.
InOrder ==
  \A s, t \in Task :
    s \in entry[t].behind /\ t \in published => s \in published

\* No queue merges over a commit of somebody else that came to the target, or to the
\* upstream that was merged in by hand, after the task was enqueued, unless a human has
\* resumed a blocked merge on top of it.
OutsiderIsSeen ==
  \A t \in published : entry[t].integ \cap Outside \subseteq entry[t].seen \cup accepted

\* A queue whose entries are queued and none blocked goes on, as long as no release has
\* failed and left the lock taken; and each finalizeWorktree of a host that lives ends,
\* whatever becomes of the entries before it.
Stuck == \E t \in Task : lock = t /\ work[t] = "none" /\ resume[t] = "none"
QueueMoves ==
  \A h \in Host \ Mortal :
    /\ []<>(Blocked(entry, h) \/ Queued(entry, h) = {} \/ Stuck)
    /\ \A t \in Task : on[t] = h ~> final[t] \in Outcome

\* "Queue-owned target advancement must not look like external branch drift": an entry is
\* blocked as drifted only when an outside commit or another host's merge has moved a ref.
OwnAdvanceIsNotDrift ==
  \A t \in Task :
    entry[t].status = "blocked" /\ entry[t].drifted =>
      \/ ~((target \cup upstream) \cap Outside \subseteq entry[t].seen)
      \/ \E s \in published : on[s] # on[t]

-----------------------------------------------------------------------------
(* The inductive invariant.                                                *)

Integrated == {"publish", "ff", "finish"}
AtWork == {"lock", "check", "integrate"} \cup Integrated

\* How the stages of process and resumeAfterResolution go with the status of the entry,
\* whether its host lives or not.
Stages ==
  \A t \in Task :
    /\ on[t] = NoHost => final[t] = "none"
    /\ final[t] \in {"none", "ask", "read", "set", "not_needed"} => entry[t].status = "absent"
    /\ entry[t].status = "absent" => work[t] = "none" /\ resume[t] = "none"
    /\ work[t] \in AtWork => entry[t].status = "running"
    /\ work[t] = "release" => entry[t].status \in {"merged", "blocked"}
    /\ work[t] \in {"integrate"} \cup Integrated => entry[t].before = entry[t].expects
    /\ work[t] \in Integrated => entry[t].integ = entry[t].before \cup {t}
    /\ resume[t] \notin {"none", "requeued", "release"} => entry[t].status = "blocked"
    /\ resume[t] \in Integrated => t \in entry[t].integ
    /\ \A s \in Task : on[s] = on[t] /\ work[s] # "none" /\ work[t] # "none" => s = t

\* The lock, and what the entries of a live host have published.
Locking ==
  \A t \in Task : Runs(t) =>
    /\ entry[t].status = "running" => work[t] \in AtWork
    /\ work[t] \notin {"none", "lock"} => lock = t /\ resume[t] \in {"none", "lock"}
    /\ resume[t] \notin {"none", "lock"} => lock = t
    /\ work[t] \in AtWork \ {"finish"} => t \notin published

\* Who stands before an entry that is not queued any more has been merged.
Order ==
  \A t \in Task : \A s \in entry[t].behind :
    /\ on[s] = on[t] /\ entry[s].status # "absent"
    /\ entry[t].status \in {"running", "blocked", "merged"} => entry[s].status = "merged"

Publishing ==
  /\ published \subseteq target
  /\ \A t \in Task :
       /\ entry[t].status \in {"absent", "queued"} => t \notin published
       /\ work[t] = "finish" \/ resume[t] = "finish" => t \in published

Baselines ==
  \A t \in Task :
    /\ final[t] = "set" \/ entry[t].status \in {"queued", "running"}
       => entry[t].expects \cap Outside \subseteq entry[t].seen \cup accepted
    /\ resume[t] = "finish" => entry[t].integ \cap Outside \subseteq accepted

MergeInv ==
  /\ TypeOK /\ VerdictTells /\ InOrder /\ OutsiderIsSeen
  /\ Stages /\ Locking /\ Order /\ Publishing /\ Baselines
=============================================================================
