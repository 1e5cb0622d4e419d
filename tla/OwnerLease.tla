----------------------------- MODULE OwnerLease -----------------------------
(***************************************************************************)
(* The owner lease (packages/storage/src/owner-lease.ts): a lock between   *)
(* processes of one machine that is a directory with one file, owner.json, *)
(* and nothing else.  Every step here is one file-system operation of the  *)
(* code, so that contenders interleave as their promises do.               *)
(*                                                                         *)
(* A contender is one OwnerLease object in a process of its own; its name  *)
(* is its leaseId.  What heartbeats add to the proof of death, that the    *)
(* last one is staleAfterMs old, is a choice: a dead owner may or may not  *)
(* be stale yet.                                                           *)
(***************************************************************************)
EXTENDS Naturals

CONSTANTS
  Contender,
  Absent,        \* no such path
  Empty,         \* a directory without owner.json
  RemoveFails    \* rm can fail half-way

ASSUME LeaseAssumption ==
  /\ Absent \notin Contender /\ Empty \notin Contender /\ Absent # Empty
  /\ RemoveFails \in BOOLEAN

VARIABLES
  dir,       \* what is at leaseDirectory; a contender stands for its owner.json
  tomb,      \* what is at the tombstone path of each leaseId
  pc,        \* the step a contender is at
  seen,      \* existing.owner: whose lease it found
  then,      \* where it goes on when somebody else is in the directory
  beating,   \* contenders whose heartbeat is between its check and its write
  cleanup,   \* releaseCleanupStarted
  leaving,   \* contenders whose callers have asked for the release
  lost,      \* contenders whose lostSignal is aborted
  blind      \* history: a release went on to remove a directory without owner

vars == <<dir, tomb, pc, seen, then, beating, cleanup, leaving, lost, blind>>

Init ==
  /\ dir = Absent
  /\ tomb = [p \in Contender |-> Absent]
  /\ pc = [p \in Contender |-> "idle"]
  /\ seen = [p \in Contender |-> Absent]
  /\ then = [p \in Contender |-> "again"]
  /\ beating = {} /\ cleanup = {} /\ leaving = {} /\ lost = {}
  /\ blind = FALSE

Dead(p) == pc[p] = "dead"
Owned == dir \in Contender

Goes(p, step) == pc' = [pc EXCEPT ![p] = step]
Holding == <<beating, cleanup, leaving, lost, blind>>

-----------------------------------------------------------------------------
(* acquire.                                                                *)

\* inspectLease.  Its second look, whether the directory exists, only adds
\* refusals, which canProveOwnerIsDead can give as well.
Inspect(p) ==
  /\ pc[p] \in {"idle", "refused", "inspect"}
  /\ \/ Owned /\ seen' = [seen EXCEPT ![p] = dir] /\ Goes(p, "judge") /\ UNCHANGED then
     \/ /\ dir = Absent
        /\ then' = [then EXCEPT ![p] = "again"] /\ Goes(p, "publish") /\ UNCHANGED seen
     \/ dir = Empty /\ Goes(p, "refused") /\ UNCHANGED <<seen, then>>
  /\ UNCHANGED <<dir, tomb, Holding>>

\* canProveOwnerIsDead, in acquire or for a process known to have ended: there
\* the step after the burial is to return.
Judge(p) ==
  /\ pc[p] = "judge"
  /\ \/ /\ Dead(seen[p])
        /\ \E next \in {"report", "return"} : then' = [then EXCEPT ![p] = next]
        /\ Goes(p, "verify")
     \/ Goes(p, "refused") /\ UNCHANGED then
  /\ UNCHANGED <<dir, tomb, seen, Holding>>

\* moveLeaseToTombstoneIf: owner.json is read again ...
AfterMove(p) == IF then[p] = "return" THEN "refused" ELSE "publish"

\* Mutant: without the second look.
VerifyNothing(p) ==
  /\ pc[p] = "verify"
  /\ Goes(p, "entomb")
  /\ UNCHANGED <<dir, tomb, seen, then, Holding>>

Verify(p) ==
  /\ pc[p] = "verify"
  /\ Goes(p, IF dir = seen[p] /\ Dead(seen[p]) THEN "entomb" ELSE AfterMove(p))
  /\ UNCHANGED <<dir, tomb, seen, then, Holding>>

\* ... a tombstone ends the attempt ...
CheckTombstone(p) ==
  /\ pc[p] = "entomb"
  /\ Goes(p, IF tomb[seen[p]] = Absent THEN "bury" ELSE AfterMove(p))
  /\ UNCHANGED <<dir, tomb, seen, then, Holding>>

\* ... and so does a rename that finds one: a directory that is not empty
\* cannot be replaced.  An error whose cause is gone at the next look is thrown.
Replaceable(content) == content \in {Absent, Empty}

\* Mutants: a tombstone is no obstacle; the tombstones are not kept.
BuryOver(p) ==
  /\ pc[p] = "bury"
  /\ Goes(p, AfterMove(p))
  /\ IF dir # Absent
       THEN dir' = Absent /\ tomb' = [tomb EXCEPT ![seen[p]] = dir]
       ELSE UNCHANGED <<dir, tomb>>
  /\ UNCHANGED <<seen, then, Holding>>
BuryAndForget(p) ==
  /\ pc[p] = "bury"
  /\ Goes(p, AfterMove(p))
  /\ IF dir # Absent /\ Replaceable(tomb[seen[p]]) THEN dir' = Absent ELSE UNCHANGED dir
  /\ UNCHANGED <<tomb, seen, then, Holding>>

Bury(p) ==
  /\ pc[p] = "bury"
  /\ IF dir # Absent /\ Replaceable(tomb[seen[p]])
       THEN dir' = Absent /\ tomb' = [tomb EXCEPT ![seen[p]] = dir] /\ Goes(p, AfterMove(p))
       ELSE UNCHANGED <<dir, tomb>> /\ \E next \in {AfterMove(p), "refused"} : Goes(p, next)
  /\ UNCHANGED <<seen, then, Holding>>

\* publishCandidate: the path is free, or somebody else is first.
Elsewhere(p) == IF then[p] = "again" THEN "inspect" ELSE "reinspect"

PathFree(p) ==
  /\ pc[p] = "publish"
  /\ Goes(p, IF dir = Absent THEN "rename" ELSE Elsewhere(p))
  /\ UNCHANGED <<dir, tomb, seen, then, Holding>>

PublishCandidate(p) ==
  /\ pc[p] = "rename"
  /\ IF Replaceable(dir) THEN dir' = p /\ Goes(p, "held")
                         ELSE UNCHANGED dir /\ \E next \in {Elsewhere(p), "refused"} : Goes(p, next)
  /\ UNCHANGED <<tomb, seen, then, Holding>>

\* After a burial, a directory that is there again is a conflict.
Reinspect(p) ==
  /\ pc[p] = "reinspect"
  /\ Goes(p, IF dir = Absent THEN "inspect" ELSE "refused")
  /\ UNCHANGED <<dir, tomb, seen, then, Holding>>

-----------------------------------------------------------------------------
(* heartbeat: assertOwnership, then writeRecord, which makes the directory *)
(* when it is not there.  An owner.json that cannot be read is taken for a *)
(* hiccup of the file system.                                              *)

BeatRead(p) ==
  /\ pc[p] = "held" /\ p \notin lost /\ p \notin beating
  /\ \/ dir = p /\ beating' = beating \cup {p} /\ UNCHANGED lost
     \/ Owned /\ dir # p /\ lost' = lost \cup {p} /\ UNCHANGED beating
  /\ UNCHANGED <<dir, tomb, pc, seen, then, cleanup, leaving, blind>>

BeatWrite(p) ==
  /\ p \in beating /\ ~Dead(p)
  /\ dir' = p
  /\ beating' = beating \ {p}
  /\ UNCHANGED <<tomb, pc, seen, then, cleanup, leaving, lost, blind>>

-----------------------------------------------------------------------------
(* release: the heartbeat is drained, owner.json is looked at, and the     *)
(* directory is removed, by rmdir, unlink and rmdir again.                 *)

Release(p) ==
  /\ pc[p] = "held"
  /\ leaving' = leaving \cup {p}
  /\ Goes(p, "drain")
  /\ UNCHANGED <<dir, tomb, seen, then, beating, cleanup, lost, blind>>

\* Mutant: the heartbeat is not waited for.
ReleaseUndrained(p) ==
  /\ pc[p] = "drain"
  /\ \/ dir = p /\ cleanup' = cleanup \cup {p} /\ Goes(p, "remove")
     \/ Owned /\ dir # p /\ Goes(p, "done") /\ UNCHANGED cleanup
     \/ ~Owned /\ Goes(p, "exists") /\ UNCHANGED cleanup
  /\ UNCHANGED <<dir, tomb, seen, then, beating, leaving, lost, blind>>

ReleaseRead(p) ==
  /\ pc[p] = "drain" /\ p \notin beating
  /\ \/ dir = p /\ cleanup' = cleanup \cup {p} /\ Goes(p, "remove")
     \/ Owned /\ dir # p /\ Goes(p, "done") /\ UNCHANGED cleanup
     \/ ~Owned /\ Goes(p, "exists") /\ UNCHANGED cleanup
  /\ UNCHANGED <<dir, tomb, seen, then, beating, leaving, lost, blind>>

\* Mutant: releaseCleanupStarted is not asked for.
ReleaseExistsLeaves(p) ==
  /\ pc[p] = "exists"
  /\ Goes(p, "done")
  /\ UNCHANGED <<dir, tomb, seen, then, Holding>>

\* A directory without a readable owner is removed by those who began to
\* remove it; the others leave it there (markLost does nothing after released).
ReleaseExists(p) ==
  /\ pc[p] = "exists"
  /\ \/ dir # Absent /\ p \in cleanup /\ Goes(p, "remove") /\ blind' = TRUE
     \/ ~(dir # Absent /\ p \in cleanup) /\ Goes(p, "done") /\ UNCHANGED blind
  /\ UNCHANGED <<dir, tomb, seen, then, beating, cleanup, leaving, lost>>

RemoveEmpty(p) ==
  /\ pc[p] = "remove"
  /\ IF Owned THEN UNCHANGED dir /\ Goes(p, "unlink") ELSE dir' = Absent /\ Goes(p, "done")
  /\ UNCHANGED <<tomb, seen, then, Holding>>

Unlink(p) ==
  /\ pc[p] = "unlink"
  /\ dir' = IF Owned THEN Empty ELSE dir
  /\ Goes(p, "rmdir")
  /\ UNCHANGED <<tomb, seen, then, Holding>>

\* A directory that is no longer empty makes rm, and with it release, throw.
RemoveDirectory(p) ==
  /\ pc[p] = "rmdir"
  /\ IF Owned THEN UNCHANGED dir /\ Goes(p, "held") ELSE dir' = Absent /\ Goes(p, "done")
  /\ UNCHANGED <<tomb, seen, then, Holding>>

\* A release that throws starts the heartbeat again.
RemoveThrows(p) ==
  /\ RemoveFails /\ pc[p] \in {"remove", "unlink", "rmdir"}
  /\ Goes(p, "held")
  /\ UNCHANGED <<dir, tomb, seen, then, Holding>>

\* A process ends at any point; what it has written stays.
Crash(p) ==
  /\ ~Dead(p)
  /\ Goes(p, "dead")
  /\ UNCHANGED <<dir, tomb, seen, then, Holding>>

-----------------------------------------------------------------------------
Acquires(p) ==
  \/ Inspect(p) \/ Judge(p) \/ Verify(p) \/ CheckTombstone(p) \/ Bury(p)
  \/ PathFree(p) \/ PublishCandidate(p) \/ Reinspect(p)

Releases(p) ==
  \/ Release(p) \/ ReleaseRead(p) \/ ReleaseExists(p)
  \/ RemoveEmpty(p) \/ Unlink(p) \/ RemoveDirectory(p) \/ RemoveThrows(p)

Next == \E p \in Contender : Acquires(p) \/ BeatRead(p) \/ BeatWrite(p) \/ Releases(p) \/ Crash(p)

Spec == Init /\ [][Next]_vars

-----------------------------------------------------------------------------
(* Properties.                                                             *)

Step == {"idle", "inspect", "judge", "verify", "entomb", "bury", "publish", "rename", "reinspect",
         "refused", "held", "drain", "exists", "remove", "unlink", "rmdir", "done", "dead"}
Content == Contender \cup {Absent, Empty}

\* Steps, directories and sets keep their shapes.
TypeOK ==
  /\ dir \in Content
  /\ tomb \in [Contender -> Content]
  /\ pc \in [Contender -> Step]
  /\ seen \in [Contender -> Contender \cup {Absent}]
  /\ then \in [Contender -> {"again", "report", "return"}]
  /\ beating \subseteq Contender /\ cleanup \subseteq Contender
  /\ leaving \subseteq Contender /\ lost \subseteq Contender
  /\ blind \in BOOLEAN

\* The caller works under the lease: acquire has returned, release has not
\* been called, and lostSignal has not told it to stop.
Using(p) == pc[p] = "held" /\ p \notin leaving /\ p \notin lost

\* Two processes never work under the lease at once.
Exclusive == \A p, q \in Contender : Using(p) /\ Using(q) => p = q

\* Whoever works under the lease is the owner the directory names, so that
\* everybody else is refused, as long as no release that was tried again has
\* taken a directory without owner.json for its own leftovers.
HolderIsNamed == ~blind => \A p \in Contender : Using(p) => dir = p

\* A release that has returned has left nothing of its own behind, not even
\* by a heartbeat that was under way, however often it was tried.
ReleasedIsGone == \A p \in Contender : pc[p] = "done" => dir # p /\ p \notin beating

\* Only the lease of a dead process is ever moved to a tombstone, and only to
\* its own: a contender that was slow to bury an old lease cannot bury the new
\* one (under the condition of HolderIsNamed).
OnlyTheDeadAreBuried ==
  [][~blind => \A p \in Contender : tomb'[p] # tomb[p] => dir = p /\ Dead(p)]_vars

\* A release that has returned did not leave a directory nobody can verify:
\* who has emptied it either goes on removing it, however many tries that
\* takes, or its process has ended.
RetriesFinishTheCleanup ==
  dir = Empty => \E p \in cleanup : pc[p] # "done"

\* Why a release leaves nothing: nobody who has looked at owner.json for the
\* last time has a heartbeat left to write it.
LettingGo ==
  \A p \in Contender :
    /\ pc[p] \in {"drain", "exists", "remove", "unlink", "rmdir"} => p \in leaving
    /\ pc[p] \in {"exists", "remove", "unlink", "rmdir", "done"} => p \notin beating
    /\ pc[p] \in {"exists", "rmdir", "done"} => dir # p
    /\ pc[p] \in {"remove", "unlink", "rmdir"} => p \in cleanup

\* Why the holder is named: a contender in the possession of the directory is
\* the one it names ...
Possession ==
  \A p \in Contender :
    /\ pc[p] = "held" /\ p \notin leaving => dir = p
    /\ pc[p] \in {"remove", "unlink"} => dir = p
    /\ p \in beating /\ ~Dead(p) => dir = p

\* ... and a contender that goes to bury a lease finds it still there, unless
\* its tombstone is taken.
Burial ==
  \A p \in Contender :
    /\ tomb[p] \in {Absent, p}
    /\ pc[p] \in {"judge", "verify", "entomb", "bury"} => seen[p] \in Contender
    /\ pc[p] \in {"verify", "entomb", "bury"} => Dead(seen[p])
    /\ pc[p] \in {"entomb", "bury"} /\ tomb[seen[p]] = Absent => dir = seen[p]

LeaseInv == TypeOK /\ LettingGo /\ (~blind => Possession /\ Burial)

\* A directory nobody can verify has a process that goes on removing it, so
\* that those who are refused because of it will not be refused for ever.
SomebodyCleansUp ==
  dir = Empty => \E p \in Contender : ~Dead(p) /\ p \in cleanup /\ pc[p] # "done"
=============================================================================
