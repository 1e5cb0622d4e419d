-------------------------- MODULE OwnerLease_proofs --------------------------
(***************************************************************************)
(* For any number of processes, however they interleave, crash, fail to    *)
(* remove the directory and try again: what a release leaves behind, and   *)
(* that the lease excludes until a release tried again removes a directory *)
(* whose owner it cannot read.  (From there on it does not: lease_retry.)  *)
(***************************************************************************)
EXTENDS OwnerLease, TLAPS

USE DEF Dead, Owned, Goes, Holding

LEMMA InitHolds == ASSUME Init PROVE LeaseInv
  BY LeaseAssumption DEF Init, LeaseInv, TypeOK, Step, Content, LettingGo, Possession, Burial

\* Types: every step writes steps, contents and contenders where they belong.
LEMMA TypePreserved ==
  ASSUME TypeOK, [Next]_vars
  PROVE  TypeOK'
<1> USE DEF TypeOK, Step, Content
<1>1. ASSUME NEW p \in Contender, Acquires(p) PROVE TypeOK'
  BY <1>1, LeaseAssumption DEF Acquires, Inspect, Judge, Verify, CheckTombstone, Bury, PathFree,
       PublishCandidate, Reinspect, AfterMove, Elsewhere, Replaceable
<1>2. ASSUME NEW p \in Contender, BeatRead(p) \/ BeatWrite(p) \/ Crash(p) PROVE TypeOK'
  BY <1>2 DEF BeatRead, BeatWrite, Crash
<1>3. ASSUME NEW p \in Contender, Releases(p) PROVE TypeOK'
  BY <1>3, LeaseAssumption DEF Releases, Release, ReleaseRead, ReleaseExists, RemoveEmpty, Unlink,
       RemoveDirectory, RemoveThrows
<1>4. CASE UNCHANGED vars
  BY <1>4 DEF vars
<1> QED BY <1>1, <1>2, <1>3, <1>4 DEF Next

-----------------------------------------------------------------------------
(* Whoever lets go of the lease has no heartbeat left.                     *)

LEMMA LettingGoPreserved ==
  ASSUME TypeOK, LettingGo, [Next]_vars
  PROVE  LettingGo'
<1> USE DEF TypeOK, LettingGo
<1>1. ASSUME NEW p \in Contender, Acquires(p) PROVE LettingGo'
  BY <1>1, LeaseAssumption DEF Acquires, Inspect, Judge, Verify, CheckTombstone, Bury, PathFree,
       PublishCandidate, Reinspect, AfterMove, Elsewhere, Replaceable, Content
<1>2. ASSUME NEW p \in Contender, BeatRead(p) \/ BeatWrite(p) \/ Crash(p) PROVE LettingGo'
  BY <1>2 DEF BeatRead, BeatWrite, Crash
<1>3. ASSUME NEW p \in Contender, Releases(p) PROVE LettingGo'
  BY <1>3, LeaseAssumption DEF Releases, Release, ReleaseRead, ReleaseExists, RemoveEmpty, Unlink,
       RemoveDirectory, RemoveThrows
<1>4. CASE UNCHANGED vars
  BY <1>4 DEF vars
<1> QED BY <1>1, <1>2, <1>3, <1>4 DEF Next

\* A release that goes on blindly is never forgotten.
LEMMA BlindForEver == ASSUME [Next]_vars, ~blind' PROVE ~blind
<1>1. ASSUME NEW p \in Contender, ReleaseExists(p) PROVE ~blind
  BY <1>1 DEF ReleaseExists
<1>2. ASSUME NEW p \in Contender, ~ReleaseExists(p),
             Acquires(p) \/ BeatRead(p) \/ BeatWrite(p) \/ Releases(p) \/ Crash(p)
      PROVE  ~blind
  BY <1>2 DEF Acquires, Inspect, Judge, Verify, CheckTombstone, Bury, PathFree, PublishCandidate,
       Reinspect, BeatRead, BeatWrite, Releases, Release, ReleaseRead, RemoveEmpty, Unlink,
       RemoveDirectory, RemoveThrows, Crash
<1> QED BY <1>1, <1>2 DEF Next, vars

-----------------------------------------------------------------------------
(* Nobody but a contender itself takes the directory away from it.         *)

LEMMA AcquiresKeeps ==
  ASSUME LeaseInv, ~blind, NEW p \in Contender, Acquires(p)
  PROVE  Possession'
<1> USE LeaseAssumption DEF LeaseInv, TypeOK, Content, Possession
<1>1. CASE Inspect(p) BY <1>1 DEF Inspect
<1>2. CASE Judge(p) BY <1>2 DEF Judge
<1>3. CASE Verify(p) BY <1>3 DEF Verify, AfterMove
<1>4. CASE CheckTombstone(p) BY <1>4 DEF CheckTombstone, AfterMove
<1>5. CASE Bury(p)
  <2>1. pc[p] = "bury" /\ seen[p] \in Contender /\ Dead(seen[p])
    BY <1>5 DEF Bury, Burial
  <2>2. CASE dir # Absent /\ Replaceable(tomb[seen[p]])
    <3>1. dir = seen[p]
      BY <2>1, <2>2 DEF Burial, Replaceable
    <3>2. dir' = Absent /\ pc' = [pc EXCEPT ![p] = AfterMove(p)] /\ UNCHANGED Holding
      BY <1>5, <2>2 DEF Bury
    <3> QED BY <2>1, <3>1, <3>2 DEF AfterMove
  <2>3. CASE ~(dir # Absent /\ Replaceable(tomb[seen[p]]))
    BY <1>5, <2>3 DEF Bury, AfterMove
  <2> QED BY <2>2, <2>3
<1>6. CASE PathFree(p) BY <1>6 DEF PathFree, Elsewhere
<1>7. CASE PublishCandidate(p)
  BY <1>7 DEF PublishCandidate, Elsewhere, Replaceable
<1>8. CASE Reinspect(p) BY <1>8 DEF Reinspect
<1> QED BY <1>1, <1>2, <1>3, <1>4, <1>5, <1>6, <1>7, <1>8 DEF Acquires

LEMMA ReleasesKeeps ==
  ASSUME LeaseInv, ~blind, ~blind', NEW p \in Contender, Releases(p)
  PROVE  Possession'
<1> USE LeaseAssumption DEF LeaseInv, TypeOK, Content, LettingGo, Possession
<1>1. CASE Release(p) BY <1>1 DEF Release
<1>2. CASE ReleaseRead(p) BY <1>2 DEF ReleaseRead
<1>3. CASE ReleaseExists(p) BY <1>3 DEF ReleaseExists
<1>4. CASE RemoveEmpty(p) BY <1>4 DEF RemoveEmpty
<1>5. CASE Unlink(p) BY <1>5 DEF Unlink
<1>6. CASE RemoveDirectory(p) BY <1>6 DEF RemoveDirectory
<1>7. CASE RemoveThrows(p) BY <1>7 DEF RemoveThrows
<1> QED BY <1>1, <1>2, <1>3, <1>4, <1>5, <1>6, <1>7 DEF Releases

LEMMA PossessionPreserved ==
  ASSUME LeaseInv, ~blind, ~blind', [Next]_vars
  PROVE  Possession'
<1>1. ASSUME NEW p \in Contender, BeatRead(p) \/ BeatWrite(p) \/ Crash(p) PROVE Possession'
  BY <1>1 DEF BeatRead, BeatWrite, Crash, LeaseInv, TypeOK, Possession
<1>2. CASE UNCHANGED vars
  BY <1>2 DEF vars, LeaseInv, Possession
<1> QED BY <1>1, <1>2, AcquiresKeeps, ReleasesKeeps DEF Next

-----------------------------------------------------------------------------
(* A lease that waits to be buried stays where it is until somebody buries *)
(* it; the dead stay dead.                                                 *)

LEMMA AcquiresBuries ==
  ASSUME LeaseInv, ~blind, NEW p \in Contender, Acquires(p)
  PROVE  Burial'
<1> USE LeaseAssumption DEF LeaseInv, TypeOK, Content, Burial
<1>1. CASE Inspect(p) BY <1>1 DEF Inspect
<1>2. CASE Judge(p) BY <1>2 DEF Judge
<1>3. CASE Verify(p) BY <1>3 DEF Verify, AfterMove
<1>4. CASE CheckTombstone(p) BY <1>4 DEF CheckTombstone, AfterMove
<1>5. CASE Bury(p)
  <2>1. pc[p] = "bury" /\ seen[p] \in Contender /\ Dead(seen[p])
    BY <1>5 DEF Bury
  <2>2. CASE dir # Absent /\ Replaceable(tomb[seen[p]])
    <3>1. dir = seen[p]
      BY <2>1, <2>2 DEF Replaceable
    <3>2. /\ dir' = Absent /\ tomb' = [tomb EXCEPT ![seen[p]] = seen[p]]
          /\ pc' = [pc EXCEPT ![p] = AfterMove(p)] /\ UNCHANGED seen
      BY <1>5, <2>2, <3>1 DEF Bury
    <3> QED BY <2>1, <3>1, <3>2 DEF AfterMove
  <2>3. CASE ~(dir # Absent /\ Replaceable(tomb[seen[p]]))
    BY <1>5, <2>3 DEF Bury, AfterMove
  <2> QED BY <2>2, <2>3
<1>6. CASE PathFree(p) BY <1>6 DEF PathFree, Elsewhere
<1>7. CASE PublishCandidate(p)
  BY <1>7 DEF PublishCandidate, Elsewhere, Replaceable
<1>8. CASE Reinspect(p) BY <1>8 DEF Reinspect
<1> QED BY <1>1, <1>2, <1>3, <1>4, <1>5, <1>6, <1>7, <1>8 DEF Acquires

LEMMA BurialPreserved ==
  ASSUME LeaseInv, ~blind, ~blind', [Next]_vars
  PROVE  Burial'
<1> USE LeaseAssumption DEF LeaseInv, TypeOK, Content, Burial
<1>1. ASSUME NEW p \in Contender, BeatRead(p) \/ Crash(p) PROVE Burial'
  BY <1>1 DEF BeatRead, Crash
<1>2. ASSUME NEW p \in Contender, BeatWrite(p) PROVE Burial'
  BY <1>2 DEF BeatWrite, Possession
<1>3. ASSUME NEW p \in Contender, Releases(p) PROVE Burial'
  BY <1>3 DEF Releases, Release, ReleaseRead, ReleaseExists, RemoveEmpty, Unlink,
       RemoveDirectory, RemoveThrows, Possession, LettingGo
<1>4. CASE UNCHANGED vars
  BY <1>4 DEF vars
<1> QED BY <1>1, <1>2, <1>3, <1>4, AcquiresBuries DEF Next

-----------------------------------------------------------------------------
\* The inductive invariant of the lease: who possesses the directory, and what
\* those who go to bury a lease may rely on.
THEOREM LeaseInvariant == Spec => []LeaseInv
<1>1. Init => LeaseInv
  BY InitHolds
<1>2. ASSUME LeaseInv, [Next]_vars PROVE LeaseInv'
  <2>1. TypeOK' /\ LettingGo'
    BY <1>2, TypePreserved, LettingGoPreserved DEF LeaseInv
  <2>2. ASSUME ~blind' PROVE Possession' /\ Burial'
    BY <1>2, <2>2, BlindForEver, PossessionPreserved, BurialPreserved
  <2> QED BY <2>1, <2>2 DEF LeaseInv
<1> QED BY <1>1, <1>2, PTL DEF Spec

\* Whoever works under the lease is the one owner.json names: inspectLease
\* refuses everybody else.
THEOREM HolderIsAlwaysNamed == Spec => []HolderIsNamed
<1>1. LeaseInv => HolderIsNamed
  BY DEF LeaseInv, Possession, HolderIsNamed, Using
<1> QED BY <1>1, LeaseInvariant, PTL

\* Hence two processes never work under the lease at once, unless a release that
\* was tried again went on to remove a directory whose owner it could not read.
THEOREM LeaseExcludes == Spec => [](blind \/ Exclusive)
<1>1. HolderIsNamed => blind \/ Exclusive
  BY DEF HolderIsNamed, Exclusive
<1> QED BY <1>1, HolderIsAlwaysNamed, PTL

-----------------------------------------------------------------------------
(* What a release leaves behind.                                           *)

\* releaseOnce drains the heartbeat, so that it cannot make the directory again.
THEOREM ReleaseLeavesNothing == Spec => []ReleasedIsGone
<1>1. LeaseInv => ReleasedIsGone
  BY DEF LeaseInv, LettingGo, ReleasedIsGone
<1> QED BY <1>1, LeaseInvariant, PTL

\* releaseCleanupStarted: only unlink empties a directory, and its process does
\* not return from release before the directory is gone.
THEOREM RetriesCleanUp == Spec => []RetriesFinishTheCleanup
<1> USE DEF RetriesFinishTheCleanup
<1>1. Init => RetriesFinishTheCleanup
  BY LeaseAssumption DEF Init
<1>2. ASSUME LeaseInv, RetriesFinishTheCleanup, [Next]_vars
      PROVE  RetriesFinishTheCleanup'
  <2> USE DEF LeaseInv, TypeOK
  <2>1. ASSUME NEW p \in Contender, Acquires(p) PROVE RetriesFinishTheCleanup'
    BY <1>2, <2>1, LeaseAssumption DEF Acquires, Inspect, Judge, Verify, CheckTombstone, Bury,
         PathFree, PublishCandidate, Reinspect, AfterMove, Elsewhere, Replaceable
  <2>2. ASSUME NEW p \in Contender, BeatRead(p) \/ BeatWrite(p) \/ Crash(p)
        PROVE  RetriesFinishTheCleanup'
    BY <1>2, <2>2, LeaseAssumption DEF BeatRead, BeatWrite, Crash
  <2>3. ASSUME NEW p \in Contender, Releases(p) PROVE RetriesFinishTheCleanup'
    BY <1>2, <2>3, LeaseAssumption DEF Releases, Release, ReleaseRead, ReleaseExists, RemoveEmpty,
         Unlink, RemoveDirectory, RemoveThrows, LettingGo
  <2>4. CASE UNCHANGED vars
    BY <1>2, <2>4 DEF vars
  <2> QED BY <1>2, <2>1, <2>2, <2>3, <2>4 DEF Next
<1> QED BY <1>1, <1>2, LeaseInvariant, PTL DEF Spec

-----------------------------------------------------------------------------
\* The ABA fence of the retained tombstones.
THEOREM SlowContendersAreFenced == Spec => OnlyTheDeadAreBuried
<1> DEFINE Fenced == ~blind => \A p \in Contender : tomb'[p] # tomb[p] => dir = p /\ Dead(p)
<1>1. LeaseInv /\ [Next]_vars => [Fenced]_vars
  <2> SUFFICES ASSUME LeaseInv, Next, ~blind
               PROVE  \A p \in Contender : tomb'[p] # tomb[p] => dir = p /\ Dead(p)
    BY DEF vars
  <2>1. ASSUME NEW p \in Contender, Bury(p) PROVE Fenced
    <3>1. pc[p] = "bury" /\ seen[p] \in Contender /\ Dead(seen[p])
      BY <2>1 DEF Bury, LeaseInv, Burial
    <3>2. dir # Absent /\ Replaceable(tomb[seen[p]]) => dir = seen[p]
      BY <3>1, LeaseAssumption DEF LeaseInv, Burial, Replaceable
    <3> QED BY <2>1, <3>1, <3>2 DEF Bury, LeaseInv, TypeOK
  <2>2. ASSUME NEW p \in Contender, ~Bury(p),
               Acquires(p) \/ BeatRead(p) \/ BeatWrite(p) \/ Releases(p) \/ Crash(p)
        PROVE  Fenced
    BY <2>2 DEF Acquires, Inspect, Judge, Verify, CheckTombstone, PathFree, PublishCandidate, Reinspect,
         BeatRead, BeatWrite, Releases, Release, ReleaseRead, ReleaseExists, RemoveEmpty, Unlink,
         RemoveDirectory, RemoveThrows, Crash
  <2> QED BY <2>1, <2>2 DEF Next
<1> QED BY <1>1, LeaseInvariant, PTL DEF Spec, OnlyTheDeadAreBuried
=============================================================================
