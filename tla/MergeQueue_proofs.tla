--------------------------- MODULE MergeQueue_proofs ---------------------------
(***************************************************************************)
(* Proofs about MergeQueue, for every set of hosts, tasks and outside      *)
(* commits.  The invariant is taken apart into what it says of one task    *)
(* (Local), of two (Ordered, OneAtWork) and of the refs, and put together  *)
(* again: an action changes one task, and starts the next of its queue.    *)
(***************************************************************************)
EXTENDS MergeQueue, TLAPS

\* What MergeInv says of one task.
Local(t) ==
  /\ final[t] \in {"merged", "not_needed"} => t \in target
  /\ entry[t].status = "merged" => t \in published
  /\ Runs(t) /\ entry[t].status \in {"queued", "blocked"} /\ t \in published
     => resume[t] = "finish"
  /\ t \in published => entry[t].integ \cap Outside \subseteq entry[t].seen \cup accepted
  /\ on[t] = NoHost => final[t] = "none"
  /\ final[t] \in {"none", "ask", "read", "set", "not_needed"} => entry[t].status = "absent"
  /\ entry[t].status = "absent" => work[t] = "none" /\ resume[t] = "none"
  /\ work[t] \in AtWork => entry[t].status = "running"
  /\ work[t] = "release" => entry[t].status \in {"merged", "blocked"}
  /\ work[t] \in {"integrate"} \cup Integrated => entry[t].before = entry[t].expects
  /\ work[t] \in Integrated => entry[t].integ = entry[t].before \cup {t}
  /\ resume[t] \notin {"none", "requeued", "release"} => entry[t].status = "blocked"
  /\ resume[t] \in Integrated => t \in entry[t].integ
  /\ Runs(t) =>
       /\ entry[t].status = "running" => work[t] \in AtWork
       /\ work[t] \notin {"none", "lock"} => lock = t /\ resume[t] \in {"none", "lock"}
       /\ resume[t] \notin {"none", "lock"} => lock = t
       /\ work[t] \in AtWork \ {"finish"} => t \notin published
  /\ entry[t].status \in {"absent", "queued"} => t \notin published
  /\ work[t] = "finish" \/ resume[t] = "finish" => t \in published
  /\ final[t] = "set" \/ entry[t].status \in {"queued", "running"}
     => entry[t].expects \cap Outside \subseteq entry[t].seen \cup accepted
  /\ resume[t] = "finish" => entry[t].integ \cap Outside \subseteq accepted

OneAtWork ==
  \A s, t \in Task : on[s] = on[t] /\ work[s] # "none" /\ work[t] # "none" => s = t

\* The entry had its turn.
Begun(e, t) == e[t].status \in {"running", "blocked", "merged"}

LEMMA Parts ==
  ASSUME MergeInv
  PROVE  /\ TypeOK /\ published \subseteq target /\ OneAtWork /\ Order
         /\ \A t \in Task : Local(t)
<1>1. TypeOK /\ published \subseteq target /\ OneAtWork /\ Order
  BY DEF MergeInv, Publishing, Stages, OneAtWork
<1>2. ASSUME NEW t \in Task PROVE Local(t)
  BY DEF MergeInv, Local, VerdictTells, OutsiderIsSeen, Stages, Locking, Publishing, Baselines
<1> QED BY <1>1, <1>2

\* InOrder follows: a published merge had its turn, so those before it are merged.
LEMMA Whole ==
  /\ TypeOK /\ published \subseteq target /\ OneAtWork /\ Order
  /\ \A t \in Task : Local(t)
  => MergeInv
<1> SUFFICES ASSUME TypeOK, published \subseteq target, OneAtWork, Order,
                    \A t \in Task : Local(t)
             PROVE  MergeInv
  OBVIOUS
<1>1. VerdictTells /\ OutsiderIsSeen /\ Stages /\ Locking /\ Publishing /\ Baselines
  <2>1. VerdictTells /\ Locking /\ Publishing
    BY DEF Local, VerdictTells, Locking, Publishing
  <2>2. OutsiderIsSeen /\ Baselines
    BY DEF TypeOK, Local, OutsiderIsSeen, Baselines
  <2>3. Stages
    BY DEF Local, Stages, OneAtWork
  <2> QED BY <2>1, <2>2, <2>3
<1>2. InOrder
  <2> SUFFICES ASSUME NEW s \in Task, NEW t \in Task,
                      s \in entry[t].behind, t \in published
               PROVE  s \in published
    BY DEF InOrder
  <2>1. entry[t].status \notin {"absent", "queued"}
    BY DEF Local
  <2>2. entry[t].status \in EntryStatus
    <3>1. entry[t] \in Entry
      BY DEF TypeOK
    <3> QED BY <3>1 DEF Entry
  <2>3. entry[s].status = "merged"
    BY <2>1, <2>2 DEF Order, EntryStatus
  <2> QED BY <2>3 DEF Local
<1> QED BY <1>1, <1>2 DEF MergeInv

-----------------------------------------------------------------------------
(* How a step moves one task, seen from the others.                        *)

\* Refs and histories grow.
Grows == /\ target \subseteq target' /\ published \subseteq published'
         /\ accepted \subseteq accepted' /\ published' \subseteq target'

\* A task waits no longer and reads what has become of its entry.
FinalStays(s) ==
  \/ final'[s] = final[s]
  \/ /\ final[s] = "waiting" /\ final'[s] \in {"merged", "blocked", "failed"}
     /\ final'[s] = "merged" => entry[s].status = "merged"

\* A task that a step leaves alone.
Stays(s) ==
  /\ entry'[s] = entry[s] /\ work'[s] = work[s] /\ resume'[s] = resume[s] /\ on'[s] = on[s]
  /\ FinalStays(s) /\ up' = up
  /\ lock = s => lock' = s
  /\ s \in published' => s \in published

\* An entry never leaves the queue, and merged is for good; it begins only when all
\* entries before it are merged.
Ordered(s) ==
  /\ on[s] # NoHost => on'[s] = on[s]
  /\ entry[s].status # "absent" => entry'[s].status # "absent"
  /\ entry[s].status = "merged" => entry'[s].status = "merged"
  /\ \/ entry'[s].behind = entry[s].behind /\ (Begun(entry', s) => Begun(entry, s))
     \/ \A b \in entry'[s].behind :
          /\ on'[b] = on'[s] /\ entry'[b].status # "absent"
          /\ Begun(entry', s) => entry'[b].status = "merged"

\* A task is at work that was, or the only one of its queue that is.
Alone(s) ==
  work'[s] # "none" =>
    \/ work[s] # "none" /\ on'[s] = on[s]
    \/ \A u \in Task : on'[u] = on'[s] /\ work'[u] # "none" => u = s

LEMMA Assembled ==
  ASSUME MergeInv, TypeOK', Grows,
         \A s \in Task : Local(s)' /\ Ordered(s) /\ Alone(s)
  PROVE  MergeInv'
<1>1. TypeOK /\ OneAtWork /\ Order /\ \A t \in Task : Local(t)
  BY Parts
<1>2. OneAtWork'
  <2> SUFFICES ASSUME NEW s \in Task, NEW t \in Task, on'[s] = on'[t],
                      work'[s] # "none", work'[t] # "none"
               PROVE  s = t
    BY DEF OneAtWork
  <2> QED BY <1>1 DEF OneAtWork, Alone
<1>3. Order'
  <2> SUFFICES ASSUME NEW t \in Task, NEW s \in entry'[t].behind
               PROVE  /\ on'[s] = on'[t] /\ entry'[s].status # "absent"
                      /\ Begun(entry', t) => entry'[s].status = "merged"
    BY DEF Order, Begun
  <2>1. s \in Task
    <3>1. entry'[t] \in Entry
      BY DEF TypeOK
    <3> QED BY <3>1 DEF Entry
  <2>2. CASE entry'[t].behind = entry[t].behind /\ (Begun(entry', t) => Begun(entry, t))
    <3>1. /\ on[s] = on[t] /\ entry[s].status # "absent"
          /\ Begun(entry, t) => entry[s].status = "merged"
      BY <1>1, <2>1, <2>2 DEF Order, Begun
    <3>2. on[s] # NoHost
      BY <1>1, <2>1, <3>1 DEF Local
    <3> QED BY <2>1, <2>2, <3>1, <3>2 DEF Ordered
  <2> QED BY <2>1, <2>2 DEF Ordered
<1>4. published' \subseteq target'
  BY DEF Grows
<1>5. (/\ TypeOK /\ published \subseteq target /\ OneAtWork /\ Order
       /\ \A t \in Task : Local(t))'
  BY <1>2, <1>3, <1>4
<1> QED BY <1>5, Whole, PTL

LEMMA Untouched ==
  ASSUME MergeInv, Grows, NEW s \in Task, Stays(s)
  PROVE  Local(s)' /\ Ordered(s) /\ Alone(s)
<1>1. Local(s) /\ published \subseteq target
  BY Parts
<1>2. Local(s)'
  BY <1>1 DEF Local, Stays, FinalStays, Grows, Runs
<1>3. Ordered(s) /\ Alone(s)
  BY DEF Ordered, Alone, Stays, Begun
<1> QED BY <1>2, <1>3

-----------------------------------------------------------------------------
(* The drain.  A step of t leaves the entries e, the awaits w and the      *)
(* finalizations f, and the drain of its queue goes on from there.         *)

\* The next entry of the queue is processed.
Starts(s, h, e) ==
  /\ IsNext(e, h, s) /\ ~Blocked(e, h)
  /\ entry'[s] = [e[s] EXCEPT !.status = "running"] /\ work'[s] = "lock"

LEMMA DrainShape ==
  ASSUME NEW h, NEW e \in [Task -> Entry], NEW w \in [Task -> Work],
         NEW f \in [Task -> Finalization], Drains(h, e, w, f)
  PROVE  /\ entry' \in [Task -> Entry] /\ work' \in [Task -> Work]
         /\ final' \in [Task -> Finalization]
         /\ \A s \in Task : \/ entry'[s] = e[s] /\ work'[s] = w[s]
                            \/ /\ Starts(s, h, e)
                               /\ \A u \in Task \ {s} : entry'[u] = e[u] /\ work'[u] = w[u]
         /\ \A s \in Task :
              \/ final'[s] = f[s]
              \/ /\ f[s] = "waiting" /\ final'[s] \in {"merged", "blocked"}
                 /\ final'[s] = "merged" => e[s].status = "merged"
<1>1. CASE entry' = e /\ work' = w /\ final' = Told(h, e, f)
  <2>1. \A s \in Task : Told(h, e, f)[s] = IF on[s] = h /\ f[s] = "waiting"
                                           THEN IF e[s].status = "merged" THEN "merged"
                                                ELSE "blocked"
                                           ELSE f[s]
    BY DEF Told
  <2>2. Told(h, e, f) \in [Task -> Finalization]
    BY <2>1 DEF Told, Finalization, Outcome
  <2> QED BY <1>1, <2>1, <2>2
<1>2. CASE /\ ~Blocked(e, h)
           /\ \E t \in Task : /\ IsNext(e, h, t)
                              /\ entry' = [e EXCEPT ![t].status = "running"]
                              /\ work' = [w EXCEPT ![t] = "lock"] /\ final' = f
  <2>1. PICK t \in Task : /\ IsNext(e, h, t)
                          /\ entry' = [e EXCEPT ![t].status = "running"]
                          /\ work' = [w EXCEPT ![t] = "lock"] /\ final' = f
    BY <1>2
  <2>2. [e[t] EXCEPT !.status = "running"] \in Entry
    <3>1. e[t] \in Entry
      OBVIOUS
    <3> QED BY <3>1 DEF Entry, EntryStatus
  <2>3. /\ entry' \in [Task -> Entry] /\ entry'[t] = [e[t] EXCEPT !.status = "running"]
        /\ \A u \in Task \ {t} : entry'[u] = e[u]
    BY <2>1, <2>2
  <2>4. /\ work' \in [Task -> Work] /\ work'[t] = "lock"
        /\ \A u \in Task \ {t} : work'[u] = w[u]
    BY <2>1 DEF Work
  <2>5. Starts(t, h, e)
    BY <1>2, <2>1, <2>3, <2>4 DEF Starts
  <2> QED BY <2>1, <2>3, <2>4, <2>5
<1> QED BY <1>1, <1>2 DEF Drains

LEMMA DrainKeeps ==
  ASSUME MergeInv, Grows, on' = on, up' = up, NEW t \in Task, Runs(t),
         NEW e \in [Task -> Entry], NEW w \in [Task -> Work],
         NEW f \in [Task -> Finalization], Drains(on[t], e, w, f),
         \A s \in QueueOf(on[t]) : w[s] = "none",
         \A s \in Task \ {t} :
           /\ e[s] = entry[s] /\ w[s] = work[s] /\ resume'[s] = resume[s]
           /\ f[s] = final[s] \/ (f[s] = "failed" /\ final[s] = "waiting")
           /\ lock = s => lock' = s
           /\ s \in published' => s \in published,
         e[t].status \in {"queued", "blocked", "merged"},
         entry[t].status = "merged" => e[t].status = "merged",
         \A b \in e[t].behind :
           /\ on[b] = on[t] /\ e[b].status # "absent"
           /\ Begun(e, t) => e[b].status = "merged"
  PROVE  /\ \A s \in Task \ {t} : Local(s)'
         /\ \A s \in Task : Ordered(s) /\ Alone(s)
<1> DEFINE h == on[t]
<1>1. Order /\ published \subseteq target /\ \A s \in Task : Local(s)
  BY Parts
<1>2. TypeOK
  BY DEF MergeInv
<1>3. /\ entry' \in [Task -> Entry] /\ work' \in [Task -> Work]
      /\ final' \in [Task -> Finalization]
      /\ \A s \in Task : \/ entry'[s] = e[s] /\ work'[s] = w[s]
                         \/ /\ Starts(s, h, e)
                            /\ \A u \in Task \ {s} : entry'[u] = e[u] /\ work'[u] = w[u]
      /\ \A s \in Task :
           \/ final'[s] = f[s]
           \/ /\ f[s] = "waiting" /\ final'[s] \in {"merged", "blocked"}
              /\ final'[s] = "merged" => e[s].status = "merged"
  BY DrainShape
<1>4. \A s \in Task : e[s] \in Entry /\ entry[s] \in Entry
  BY <1>2 DEF TypeOK
<1>5. ASSUME NEW s \in Task, Starts(s, h, e)
      PROVE  /\ on[s] = h /\ e[s].status = "queued"
             /\ entry'[s].status = "running" /\ work'[s] = "lock"
             /\ entry'[s].behind = e[s].behind /\ entry'[s].expects = e[s].expects
             /\ entry'[s].seen = e[s].seen /\ entry'[s].integ = e[s].integ
             /\ \A b \in Task : on[b] = h => e[b].status # "blocked"
             /\ \A b \in e[s].behind \cap Task : on[b] = h => e[b].status # "queued"
  <2>1. /\ entry'[s] = [e[s] EXCEPT !.status = "running"] /\ work'[s] = "lock"
        /\ s \in Queued(e, h) /\ e[s].behind \cap Queued(e, h) = {} /\ ~Blocked(e, h)
    BY <1>5 DEF Starts, IsNext
  <2>2. /\ entry'[s].status = "running" /\ entry'[s].behind = e[s].behind
        /\ entry'[s].expects = e[s].expects /\ entry'[s].seen = e[s].seen
        /\ entry'[s].integ = e[s].integ
    BY <1>4, <2>1 DEF Entry
  <2> QED BY <2>1, <2>2 DEF Queued, QueueOf, Blocked
<1>6. ASSUME NEW s \in Task \ {t} PROVE FinalStays(s)
  <2>1. e[s] = entry[s] /\ (f[s] = final[s] \/ (f[s] = "failed" /\ final[s] = "waiting"))
    OBVIOUS
  <2>2. \/ final'[s] = f[s]
        \/ /\ f[s] = "waiting" /\ final'[s] \in {"merged", "blocked"}
           /\ final'[s] = "merged" => e[s].status = "merged"
    BY <1>3
  <2> QED BY <2>1, <2>2 DEF FinalStays
<1>7. ASSUME NEW s \in Task \ {t} PROVE Local(s)'
  <2>1. CASE entry'[s] = e[s] /\ work'[s] = w[s]
    BY <1>6, <2>1, Untouched DEF Stays
  <2>2. CASE Starts(s, h, e)
    <3>1. /\ e[s] = entry[s] /\ resume'[s] = resume[s]
          /\ lock = s => lock' = s
          /\ s \in published' => s \in published
      OBVIOUS
    <3>2. Local(s) /\ FinalStays(s)
      BY <1>1, <1>6
    <3> QED BY <1>5, <2>2, <3>1, <3>2 DEF Local, FinalStays, Grows, Runs, AtWork, Integrated
  <2> QED BY <1>3, <2>1, <2>2
\* Nobody of the queue runs: who stands before the next entry is merged.
<1>8. ASSUME NEW s \in Task, Starts(s, h, e), NEW b \in entry'[s].behind
      PROVE  on[b] = on[s] /\ entry'[b].status = "merged"
  <2>1. e[s] \in Entry /\ entry'[s].behind = e[s].behind /\ on[s] = h
    BY <1>4, <1>5, <1>8
  <2>2. b \in Task /\ b \in e[s].behind
    BY <1>8, <2>1 DEF Entry
  <2>3. on[b] = h /\ e[b].status # "absent"
    BY <1>1, <2>1, <2>2 DEF Order
  <2>4. e[b].status \notin {"queued", "blocked"}
    BY <1>5, <1>8, <2>2, <2>3
  <2>5. e[b].status # "running"
    <3>1. CASE b = t
      BY <3>1
    <3>2. CASE b # t
      <4>1. w[b] = "none" /\ w[b] = work[b] /\ e[b] = entry[b]
        BY <2>2, <2>3, <3>2 DEF QueueOf
      <4>2. Local(b) /\ Runs(b)
        BY <1>1, <2>2, <2>3 DEF Runs
      <4> QED BY <4>1, <4>2 DEF Local, AtWork, Integrated
    <3> QED BY <3>1, <3>2
  <2>6. e[b].status \in EntryStatus
    BY <1>4, <2>2 DEF Entry
  <2>7. e[b].status = "merged"
    BY <2>3, <2>4, <2>5, <2>6 DEF EntryStatus
  <2>8. entry'[b] = e[b]
    BY <1>3, <1>5, <2>2, <2>7
  <2> QED BY <2>1, <2>3, <2>7, <2>8
<1>9. ASSUME NEW s \in Task PROVE Ordered(s)
  <2>1. /\ \/ e[s].status = entry'[s].status
           \/ e[s].status = "queued" /\ entry'[s].status = "running"
        /\ entry'[s].behind = e[s].behind
    <3>1. CASE Starts(s, h, e)
      BY <1>5, <3>1
    <3>2. CASE entry'[s] = e[s]
      BY <3>2
    <3> QED BY <1>3, <3>1, <3>2
  <2>2. entry[s].status = "merged" => entry'[s].status = "merged"
    BY <2>1
  <2>3. entry[s].status # "absent" => entry'[s].status # "absent"
    BY <2>1
  <2>4. CASE Starts(s, h, e)
    BY <1>8, <2>2, <2>3, <2>4 DEF Ordered
  <2>5. CASE entry'[s] = e[s] /\ s # t
    BY <2>2, <2>3, <2>5 DEF Ordered, Begun
  <2>6. CASE entry'[s] = e[s] /\ s = t
    <3>1. ASSUME NEW b \in e[t].behind
          PROVE  /\ on[b] = on[t] /\ entry'[b].status # "absent"
                 /\ Begun(e, t) => entry'[b].status = "merged"
      <4>1. b \in Task
        BY <1>4 DEF Entry
      <4>2. \/ e[b].status = entry'[b].status
            \/ e[b].status = "queued" /\ entry'[b].status = "running"
        <5>1. CASE Starts(b, h, e)
          BY <1>5, <4>1, <5>1
        <5>2. CASE entry'[b] = e[b]
          BY <5>2
        <5> QED BY <1>3, <4>1, <5>1, <5>2
      <4> QED BY <4>2
    <3>2. Begun(entry', t) => Begun(e, t)
      BY <2>6 DEF Begun
    <3> QED BY <2>2, <2>3, <2>6, <3>1, <3>2 DEF Ordered
  <2> QED BY <1>3, <2>4, <2>5, <2>6
<1>10. ASSUME NEW s \in Task PROVE Alone(s)
  <2>1. CASE entry'[s] = e[s] /\ work'[s] = w[s]
    <3>1. CASE s = t
      BY <2>1, <3>1 DEF Alone, QueueOf
    <3>2. CASE s # t
      BY <2>1, <3>2 DEF Alone
    <3> QED BY <3>1, <3>2
  <2>2. CASE /\ Starts(s, h, e)
             /\ \A u \in Task \ {s} : entry'[u] = e[u] /\ work'[u] = w[u]
    BY <1>5, <2>2 DEF Alone, QueueOf
  <2> QED BY <1>3, <2>1, <2>2
<1> QED BY <1>7, <1>9, <1>10

-----------------------------------------------------------------------------
(* The actions.                                                            *)

LEMMA TaskMoves ==
  ASSUME MergeInv, TypeOK', Grows, NEW t \in Task, Local(t)', Ordered(t), Alone(t),
         \A s \in Task \ {t} : Stays(s)
  PROVE  MergeInv'
BY Untouched, Assembled

\* The entry of t becomes r.
LEMMA EntryShape ==
  ASSUME TypeOK, NEW t \in Task, NEW r \in Entry, entry' = [entry EXCEPT ![t] = r]
  PROVE  /\ entry' \in [Task -> Entry] /\ entry'[t] = r
         /\ \A s \in Task \ {t} : entry'[s] = entry[s]
BY DEF TypeOK

LEMMA CallKeeps ==
  ASSUME MergeInv, NEW t \in Task, AncestorAnswers(t) \/ ReadTarget(t) \/ GitFails(t)
  PROVE  MergeInv'
<1> USE DEF git
<1>1. TypeOK /\ Local(t) /\ published \subseteq target
  BY Parts
<1>2. on[t] # NoHost /\ entry[t].status = "absent"
  BY <1>1 DEF AncestorAnswers, ReadTarget, GitFails, Local
<1>3. /\ UNCHANGED <<git, lock, up, on, work, resume>>
      /\ final' \in [Task -> Finalization] /\ final[t] \in {"ask", "read"}
      /\ final'[t] \in {"read", "set", "not_needed", "failed"}
      /\ final'[t] = "not_needed" => t \in target
      /\ \A s \in Task \ {t} : final'[s] = final[s]
  BY <1>1 DEF TypeOK, AncestorAnswers, ReadTarget, GitFails, Finalization, Outcome
<1>4. /\ entry' \in [Task -> Entry]
      /\ entry'[t].status = "absent" /\ entry'[t].behind = entry[t].behind
      /\ final'[t] = "set" => entry'[t].expects \cap Outside \subseteq entry'[t].seen
      /\ \A s \in Task \ {t} : entry'[s] = entry[s]
  <2>1. CASE AncestorAnswers(t) \/ GitFails(t)
    BY <1>1, <1>2, <2>1 DEF TypeOK, AncestorAnswers, GitFails
  <2>2. CASE ReadTarget(t)
    <3>1. entry' = [entry EXCEPT ![t] = [entry[t] EXCEPT !.expects = target,
                                                         !.seen = target \cap Outside]]
      BY <1>1, <2>2 DEF ReadTarget, TypeOK
    <3>2. entry[t] \in Entry /\ target \in Head
      BY <1>1 DEF TypeOK
    <3>3. [entry[t] EXCEPT !.expects = target, !.seen = target \cap Outside] \in Entry
      BY <3>2 DEF Entry
    <3>4. /\ entry' \in [Task -> Entry]
          /\ entry'[t] = [entry[t] EXCEPT !.expects = target, !.seen = target \cap Outside]
          /\ \A s \in Task \ {t} : entry'[s] = entry[s]
      BY <1>1, <3>1, <3>3, EntryShape
    <3> QED BY <1>2, <3>2, <3>4 DEF Entry
  <2> QED BY <2>1, <2>2
<1>5. TypeOK' /\ Grows
  BY <1>1, <1>3, <1>4 DEF TypeOK, Grows
<1>6. \A s \in Task \ {t} : Stays(s)
  BY <1>3, <1>4 DEF Stays, FinalStays
<1>7. Local(t)'
  BY <1>1, <1>2, <1>3, <1>4 DEF Local, AtWork, Integrated, Runs
<1>8. Ordered(t) /\ Alone(t)
  BY <1>2, <1>3, <1>4 DEF Ordered, Alone, Begun
<1> QED BY <1>5, <1>6, <1>7, <1>8, TaskMoves

LEMMA FinalizeKeeps ==
  ASSUME MergeInv, MergeAssumption, NEW t \in Task, NEW h \in Host, FinalizeWorktree(h, t)
  PROVE  MergeInv'
<1> USE DEF git
<1>1. TypeOK /\ Local(t) /\ published \subseteq target
  BY Parts
<1>2. on[t] = NoHost /\ entry[t].status = "absent"
  BY <1>1 DEF FinalizeWorktree, Local
<1>3. TypeOK' /\ Grows
  BY <1>1 DEF FinalizeWorktree, TypeOK, Grows, Finalization
<1>4. \A s \in Task \ {t} : Stays(s)
  BY <1>1 DEF FinalizeWorktree, Stays, FinalStays, TypeOK
<1>5. on'[t] = h /\ final'[t] = "ask" /\ h # NoHost
  BY <1>1 DEF FinalizeWorktree, TypeOK, MergeAssumption
<1>6. Local(t)'
  BY <1>1, <1>2, <1>5 DEF FinalizeWorktree, Local, AtWork, Integrated, Runs
<1>7. Ordered(t) /\ Alone(t)
  BY <1>1, <1>2 DEF FinalizeWorktree, Ordered, Alone, Begun, Local
<1> QED BY <1>3, <1>4, <1>6, <1>7, TaskMoves

\* The catch of process: nothing has been published.
LEMMA StopsKeeps ==
  ASSUME MergeInv, NEW t \in Task, NEW d \in BOOLEAN, Runs(t),
         work[t] \in {"check", "integrate", "publish", "ff"}, Stops(t, d),
         UNCHANGED <<git, lock, up, on, final, resume>>
  PROVE  MergeInv'
<1> USE DEF git
<1>1. TypeOK /\ Local(t) /\ published \subseteq target
  BY Parts
<1>2. entry[t] \in Entry /\ entry[t].status = "running" /\ t \notin published
  BY <1>1 DEF TypeOK, Local, AtWork, Integrated
<1>3. /\ entry' = [entry EXCEPT ![t] = [entry[t] EXCEPT !.status = "blocked", !.drifted = d]]
      /\ work' = [work EXCEPT ![t] = "release"]
  BY <1>1 DEF Stops, TypeOK
<1>4. [entry[t] EXCEPT !.status = "blocked", !.drifted = d] \in Entry
  BY <1>2 DEF Entry, EntryStatus
<1>5. /\ entry' \in [Task -> Entry]
      /\ entry'[t] = [entry[t] EXCEPT !.status = "blocked", !.drifted = d]
      /\ \A s \in Task \ {t} : entry'[s] = entry[s]
  BY <1>1, <1>3, <1>4, EntryShape
<1>6. /\ entry'[t].status = "blocked" /\ entry'[t].behind = entry[t].behind
      /\ entry'[t].integ = entry[t].integ
  BY <1>2, <1>5 DEF Entry
<1>7. /\ work' \in [Task -> Work] /\ work'[t] = "release"
      /\ \A s \in Task \ {t} : work'[s] = work[s]
  BY <1>1, <1>3 DEF TypeOK, Work
<1>8. TypeOK' /\ Grows
  BY <1>1, <1>5, <1>7 DEF TypeOK, Grows
<1>9. \A s \in Task \ {t} : Stays(s)
  BY <1>5, <1>7 DEF Stays, FinalStays
<1>10. Local(t)'
  BY <1>1, <1>2, <1>6, <1>7 DEF Local, AtWork, Integrated, Runs
<1>11. Ordered(t) /\ Alone(t)
  BY <1>2, <1>6 DEF Ordered, Alone, Begun
<1> QED BY <1>8, <1>9, <1>10, <1>11, TaskMoves

\* Steps of process that leave the entry as it is.
LEMMA WorkKeeps ==
  ASSUME MergeInv, MergeAssumption, NEW t \in Task,
         \/ /\ work[t] = "lock" /\ Runs(t) /\ lock = NoTask
            /\ lock' = t /\ work' = [work EXCEPT ![t] = "check"]
            /\ UNCHANGED <<git, up, on, final, entry, resume>>
         \/ /\ work[t] = "publish" /\ Runs(t) /\ work' = [work EXCEPT ![t] = "ff"]
            /\ UNCHANGED <<git, lock, up, on, final, entry, resume>>
         \/ FastForward(t)
  PROVE  MergeInv'
<1> USE DEF git
<1>1. TypeOK /\ Local(t) /\ published \subseteq target
  BY Parts
<1>2. entry[t] \in Entry /\ entry[t].status = "running" /\ work[t] \in AtWork
  BY <1>1 DEF TypeOK, FastForward, Local, AtWork, Integrated
<1>3. /\ UNCHANGED <<up, on, final, entry, resume, accepted>>
      /\ work' \in [Task -> Work] /\ work'[t] \in {"check", "ff", "finish"}
      /\ \A s \in Task \ {t} : work'[s] = work[s]
  BY <1>1 DEF TypeOK, FastForward, Work
<1>4. Grows /\ target' \in Head /\ published' \subseteq Task
  <2>1. CASE FastForward(t)
    <3>1. entry[t].integ = entry[t].before \cup {t} /\ entry[t].integ \in Head
      BY <1>1, <1>2, <2>1 DEF FastForward, Local, Integrated, Entry
    <3> QED BY <1>1, <2>1, <3>1 DEF FastForward, FastForwards, Grows, TypeOK
  <2>2. CASE UNCHANGED git
    BY <1>1, <2>2 DEF Grows, TypeOK
  <2> QED BY <2>1, <2>2
<1>5. TypeOK'
  BY <1>1, <1>3, <1>4 DEF TypeOK, FastForward, Grows
<1>6. \A s \in Task \ {t} : Stays(s)
  BY <1>3, <1>1 DEF Stays, FinalStays, FastForward, FastForwards, MergeAssumption
<1>7. Local(t)'
  <2>1. CASE FastForward(t)
    <3>1. /\ work[t] = "ff" /\ work'[t] = "finish" /\ published' = published \cup {t}
          /\ lock' = lock
      BY <1>1, <2>1 DEF FastForward, FastForwards, TypeOK
    <3>2. entry[t].integ = entry[t].expects \cup {t}
      BY <1>1, <3>1 DEF Local, Integrated
    <3>3. entry[t].expects \cap Outside \subseteq entry[t].seen \cup accepted
      BY <1>1, <1>2 DEF Local
    <3>4. entry[t].integ \cap Outside \subseteq entry[t].seen \cup accepted
      BY <3>2, <3>3 DEF MergeAssumption
    <3>5. resume[t] \in {"none", "requeued", "release"}
      BY <1>1, <1>2 DEF Local
    <3> QED BY <1>1, <1>2, <1>3, <1>4, <3>1, <3>4, <3>5
            DEF Local, Grows, AtWork, Integrated, Runs
  <2>2. CASE ~FastForward(t)
    <3>1. UNCHANGED git
      BY <2>2
    <3>2. \/ work[t] = "lock" /\ work'[t] = "check" /\ lock = NoTask /\ lock' = t /\ Runs(t)
          \/ work[t] = "publish" /\ work'[t] = "ff" /\ lock' = lock /\ Runs(t)
      BY <1>1, <2>2 DEF TypeOK
    <3>3. t # NoTask
      BY DEF MergeAssumption
    <3> QED BY <1>1, <1>2, <1>3, <3>1, <3>2, <3>3 DEF Local, AtWork, Integrated, Runs
  <2> QED BY <2>1, <2>2
<1>8. Ordered(t) /\ Alone(t)
  BY <1>2, <1>3 DEF Ordered, Alone, Begun, AtWork, Integrated
<1> QED BY <1>4, <1>5, <1>6, <1>7, <1>8, TaskMoves

\* Steps of process that note something in the entry: a check, an integration, its failure.
LEMMA NotesKeep ==
  ASSUME MergeInv, MergeAssumption, NEW t \in Task, CheckTarget(t) \/ Integrate(t) \/ IntegrateFails(t)
  PROVE  MergeInv'
<1> USE DEF git
<1>1. TypeOK /\ Local(t) /\ published \subseteq target
  BY Parts
<1>2. /\ Runs(t) /\ entry[t] \in Entry /\ entry[t].status = "running" /\ t \notin published
      /\ work[t] \in {"check", "integrate"}
  BY <1>1 DEF TypeOK, CheckTarget, Integrate, IntegrateFails, Local, AtWork, Integrated
<1>3. CASE CheckTarget(t) /\ Drifted(t)
  BY <1>2, <1>3, StopsKeeps DEF CheckTarget
<1>4. CASE ~(CheckTarget(t) /\ Drifted(t))
  <2>1. PICK r \in Entry, s \in Work :
          /\ entry' = [entry EXCEPT ![t] = r] /\ work' = [work EXCEPT ![t] = s]
          /\ r.behind = entry[t].behind /\ r.expects = entry[t].expects
          /\ r.seen = entry[t].seen
          /\ \/ r.status = "running" /\ s = "integrate" /\ r.before = r.expects
             \/ /\ r.status = "running" /\ s = "publish"
                /\ r.before = r.expects /\ r.integ = r.before \cup {t}
             \/ r.status = "blocked" /\ s = "release"
    <3>1. CASE CheckTarget(t)
      <4>1. target = entry[t].expects /\ target \in Head
        BY <1>1, <1>4, <3>1 DEF Drifted, TypeOK
      <4>2. [entry[t] EXCEPT !.before = target] \in Entry
        BY <1>2, <4>1 DEF Entry
      <4>3. /\ entry' = [entry EXCEPT ![t] = [entry[t] EXCEPT !.before = target]]
            /\ work' = [work EXCEPT ![t] = "integrate"] /\ "integrate" \in Work
        BY <1>1, <1>4, <3>1 DEF CheckTarget, TypeOK, Work
      <4> QED BY <1>2, <4>1, <4>2, <4>3 DEF Entry
    <3>2. CASE Integrate(t)
      <4> DEFINE q == [entry[t] EXCEPT !.tree = "added", !.integ = entry[t].before \cup {t}]
      <4>1. q \in Entry
        BY <1>2 DEF Entry, Tree, Head
      <4>2. /\ entry' = [entry EXCEPT ![t] = q]
            /\ work' = [work EXCEPT ![t] = "publish"] /\ "publish" \in Work
        BY <1>1, <3>2 DEF Integrate, TypeOK, Work
      <4>3. entry[t].before = entry[t].expects
        BY <1>1, <3>2 DEF Integrate, Local
      <4>4. /\ q.behind = entry[t].behind /\ q.expects = entry[t].expects
            /\ q.seen = entry[t].seen /\ q.status = "running" /\ q.before = entry[t].before
            /\ q.integ = entry[t].before \cup {t}
        BY <1>2 DEF Entry
      <4> HIDE DEF q
      <4> QED BY <4>1, <4>2, <4>3, <4>4
    <3>3. CASE IntegrateFails(t)
      <4>1. PICK tree \in {"broken", "added"} :
              entry' = [entry EXCEPT ![t].status = "blocked", ![t].drifted = FALSE,
                                     ![t].tree = tree, ![t].integ = entry[t].before]
        BY <3>3 DEF IntegrateFails
      <4> DEFINE q == [entry[t] EXCEPT !.status = "blocked", !.drifted = FALSE,
                                       !.tree = tree, !.integ = entry[t].before]
      <4>2. q \in Entry
        BY <1>2 DEF Entry, Tree, EntryStatus
      <4>3. /\ entry' = [entry EXCEPT ![t] = q]
            /\ work' = [work EXCEPT ![t] = "release"] /\ "release" \in Work
        BY <1>1, <3>3, <4>1 DEF IntegrateFails, TypeOK, Work
      <4>4. /\ q.behind = entry[t].behind /\ q.expects = entry[t].expects
            /\ q.seen = entry[t].seen /\ q.status = "blocked"
        BY <1>2 DEF Entry
      <4> HIDE DEF q
      <4> QED BY <4>2, <4>3, <4>4
    <3> QED BY <3>1, <3>2, <3>3
  <2>2. UNCHANGED <<git, lock, up, on, final, resume>>
    BY DEF CheckTarget, Integrate, IntegrateFails
  <2>3. /\ entry' \in [Task -> Entry] /\ entry'[t] = r
        /\ \A u \in Task \ {t} : entry'[u] = entry[u]
    BY <1>1, <2>1, EntryShape
  <2>4. /\ work' \in [Task -> Work] /\ work'[t] = s
        /\ \A u \in Task \ {t} : work'[u] = work[u]
    BY <1>1, <2>1 DEF TypeOK
  <2>5. TypeOK' /\ Grows
    BY <1>1, <2>2, <2>3, <2>4 DEF TypeOK, Grows
  <2>6. \A u \in Task \ {t} : Stays(u)
    BY <2>2, <2>3, <2>4 DEF Stays, FinalStays
  <2>7. Local(t)'
    BY <1>1, <1>2, <2>1, <2>2, <2>3, <2>4 DEF Local, AtWork, Integrated, Runs
  <2>8. Ordered(t) /\ Alone(t)
    BY <1>2, <2>1, <2>2, <2>3, <2>4 DEF Ordered, Alone, Begun
  <2> QED BY <2>5, <2>6, <2>7, <2>8, TaskMoves
<1> QED BY <1>3, <1>4

\* markMerged and advanceExpectedTargetHeads: an entry that is advanced has the baseline of
\* the merge, or the merge stands on what a human has accepted.
LEMMA FinishKeeps ==
  ASSUME MergeInv, MergeAssumption, NEW t \in Task, FinishIntegration(t) \/ ResumeFinishes(t)
  PROVE  MergeInv'
<1> USE DEF git
<1>1. TypeOK /\ Local(t) /\ published \subseteq target /\ entry[t] \in Entry
  BY Parts DEF TypeOK
<1>2. PICK Ts \in SUBSET Head, Us \in SUBSET Head :
        /\ entry' = Finished(t, Ts, Us)
        /\ \A s \in Task \ {t} :
             /\ entry[s].status = "queued" /\ entry[s].expects \in Ts
             => entry[t].integ \cap Outside \subseteq entry[s].seen \cup accepted
  <2>1. CASE FinishIntegration(t)
    <3>1. /\ entry' = Finished(t, {entry[t].expects}, {entry[t].upstream})
          /\ {entry[t].expects} \in SUBSET Head /\ {entry[t].upstream} \in SUBSET Head
      BY <1>1, <2>1 DEF FinishIntegration, Entry
    <3>2. entry[t].integ = entry[t].expects \cup {t}
      BY <1>1, <2>1 DEF FinishIntegration, Local, Integrated
    <3>3. entry[t].integ \cap Outside = entry[t].expects \cap Outside
      BY <3>2 DEF MergeAssumption
    <3>4. ASSUME NEW s \in Task \ {t}, entry[s].status = "queued",
                 entry[s].expects \in {entry[t].expects}
          PROVE  entry[t].integ \cap Outside \subseteq entry[s].seen \cup accepted
      <4>1. Local(s)
        BY Parts
      <4> QED BY <3>3, <3>4, <4>1 DEF Local
    <3> QED BY <3>1, <3>4
  <2>2. CASE ResumeFinishes(t)
    <3>1. /\ entry' = Finished(t, {entry[t].expects, entry[t].was.expects},
                               {entry[t].upstream, entry[t].was.upstream})
          /\ {entry[t].expects, entry[t].was.expects} \in SUBSET Head
          /\ {entry[t].upstream, entry[t].was.upstream} \in SUBSET Head
      BY <1>1, <2>2 DEF ResumeFinishes, Entry
    <3>2. entry[t].integ \cap Outside \subseteq accepted
      BY <1>1, <2>2 DEF ResumeFinishes, Local
    <3>3. \A s \in Task \ {t} : entry[t].integ \cap Outside \subseteq entry[s].seen \cup accepted
      BY <3>2
    <3> QED BY <3>1, <3>3
  <2> QED BY <2>1, <2>2
<1>3. [entry[t] EXCEPT !.status = "merged", !.tree = "none"] \in Entry
  BY <1>1 DEF Entry, EntryStatus, Tree
<1>4. /\ entry'[t].status = "merged" /\ entry'[t].behind = entry[t].behind
      /\ entry'[t].integ = entry[t].integ /\ entry'[t].seen = entry[t].seen
  <2>1. entry'[t] = [entry[t] EXCEPT !.status = "merged", !.tree = "none"]
    BY <1>2 DEF Finished
  <2> QED BY <1>1, <2>1 DEF Entry
<1>5. ASSUME NEW s \in Task \ {t}
      PROVE  \/ entry'[s] = entry[s]
             \/ /\ entry'[s] \in Entry /\ entry[s].status = "queued"
                /\ entry'[s].status = "queued" /\ entry'[s].behind = entry[s].behind
                /\ entry'[s].integ = entry[s].integ /\ entry'[s].seen = entry[s].seen
                /\ entry'[s].expects \cap Outside \subseteq entry[s].seen \cup accepted
  <2>1. CASE /\ entry[s].status = "queued" /\ entry[s].expects \in Ts
             /\ entry'[s] = [entry[s] EXCEPT !.expects = entry[t].integ,
                                             !.upstream = entry[t].upstream]
    <3>1. entry[s] \in Entry
      BY <1>1 DEF TypeOK
    <3>2. entry[t].integ \in Head /\ entry[t].upstream \in Head
      BY <1>1 DEF Entry
    <3>3. entry[t].integ \cap Outside \subseteq entry[s].seen \cup accepted
      BY <1>2, <2>1
    <3>4. /\ entry'[s].status = "queued" /\ entry'[s].behind = entry[s].behind
          /\ entry'[s].integ = entry[s].integ /\ entry'[s].seen = entry[s].seen
          /\ entry'[s].expects = entry[t].integ
      BY <2>1, <3>1 DEF Entry
    <3>5. entry'[s] \in Entry
      BY <2>1, <3>1, <3>2 DEF Entry
    <3> QED BY <2>1, <3>3, <3>4, <3>5
  <2> QED BY <1>2, <2>1 DEF Finished
<1>6. entry' \in [Task -> Entry]
  <2>1. \A s \in Task : entry[s] \in Entry
    BY <1>1 DEF TypeOK
  <2>2. \A s \in Task : entry'[s] \in Entry
    BY <1>2, <1>3, <1>5, <2>1 DEF Finished
  <2> QED BY <1>2, <2>2 DEF Finished
<1>7. /\ UNCHANGED <<git, lock, up, on, final>> /\ Runs(t)
      /\ work' \in [Task -> Work] /\ resume' \in [Task -> Resumption]
      /\ \/ work[t] = "finish" /\ work'[t] = "release" /\ resume'[t] = resume[t]
         \/ resume[t] = "finish" /\ resume'[t] = "release" /\ work'[t] = work[t]
      /\ \A s \in Task \ {t} : work'[s] = work[s] /\ resume'[s] = resume[s]
  BY <1>1 DEF FinishIntegration, ResumeFinishes, Resumes, TypeOK, Work, Resumption
<1>8. TypeOK' /\ Grows
  BY <1>1, <1>6, <1>7 DEF TypeOK, Grows
<1>9. ASSUME NEW s \in Task \ {t} PROVE Local(s)' /\ Ordered(s) /\ Alone(s)
  <2>1. CASE entry'[s] = entry[s]
    BY <1>7, <1>8, <2>1, Untouched DEF Stays, FinalStays
  <2>2. CASE /\ entry'[s] \in Entry /\ entry[s].status = "queued"
             /\ entry'[s].status = "queued" /\ entry'[s].behind = entry[s].behind
             /\ entry'[s].integ = entry[s].integ /\ entry'[s].seen = entry[s].seen
             /\ entry'[s].expects \cap Outside \subseteq entry[s].seen \cup accepted
    <3>1. Local(s)
      BY Parts
    <3>2. Local(s)'
      BY <1>7, <2>2, <3>1 DEF Local, AtWork, Integrated, Runs
    <3> QED BY <1>7, <2>2, <3>2 DEF Ordered, Alone, Begun
  <2> QED BY <1>5, <2>1, <2>2
<1>10. Local(t)'
  <2>1. t \in published
    BY <1>1, <1>7 DEF Local
  <2> QED BY <1>1, <1>4, <1>7, <2>1 DEF Local, AtWork, Integrated, Runs
<1>11. Ordered(t) /\ Alone(t)
  <2>1. Begun(entry, t)
    BY <1>1, <1>7 DEF Begun, Local, AtWork, Integrated
  <2> QED BY <1>1, <1>4, <1>7, <2>1 DEF Ordered, Alone, Begun, Local
<1> QED BY <1>8, <1>9, <1>10, <1>11, Assembled

\* The end of process(entry): the lock was not to be had, or the lease is released.
LEMMA ProcessEnds ==
  ASSUME MergeInv, MergeAssumption, NEW t \in Task, Runs(t),
         NEW e \in [Task -> Entry], NEW f \in [Task -> Finalization],
         work[t] \in {"lock", "release"},
         Drains(on[t], e, [work EXCEPT ![t] = "none"], f),
         lock' \in {lock, NoTask}, lock' # lock => work[t] = "release",
         UNCHANGED <<git, up, on, resume>>,
         \A s \in Task \ {t} :
           e[s] = entry[s] /\ (f[s] = final[s] \/ (f[s] = "failed" /\ final[s] = "waiting")),
         f[t] = final[t] \/ (f[t] = "failed" /\ final[t] = "waiting"),
         \/ e[t] = entry[t] /\ work[t] = "release"
         \/ /\ work[t] = "lock" /\ e[t].status = "blocked" /\ e[t].behind = entry[t].behind
            /\ e[t].integ = entry[t].integ
  PROVE  MergeInv'
<1> USE DEF git
<1> DEFINE w == [work EXCEPT ![t] = "none"]
<1>1. TypeOK /\ published \subseteq target /\ OneAtWork /\ Order /\ \A s \in Task : Local(s)
  BY Parts
<1>2. w \in [Task -> Work] /\ w[t] = "none" /\ \A s \in Task \ {t} : w[s] = work[s]
  BY <1>1 DEF TypeOK, Work
<1>3. Drains(on[t], e, w, f)
  OBVIOUS
<1> HIDE DEF w
<1>4. Grows
  BY <1>1 DEF Grows
<1>5. \A s \in QueueOf(on[t]) : w[s] = "none"
  BY <1>1, <1>2 DEF QueueOf, OneAtWork
<1>6. e[t].status \in {"blocked", "merged"} /\ (entry[t].status = "merged" => e[t].status = "merged")
  BY <1>1 DEF Local, AtWork, Integrated
<1>7. \A s \in Task \ {t} : lock = s => lock' = s
  BY <1>1 DEF Local
<1>8. ASSUME NEW b \in e[t].behind
      PROVE  on[b] = on[t] /\ e[b].status = "merged"
  <2>1. b \in entry[t].behind
    OBVIOUS
  <2>2. entry[t].status \in {"running", "blocked", "merged"}
    BY <1>1 DEF Local, AtWork, Integrated
  <2>3. on[b] = on[t] /\ entry[b].status = "merged"
    BY <1>1, <2>1, <2>2 DEF Order
  <2>4. b \in Task
    BY <1>1, <2>1 DEF TypeOK, Entry
  <2>5. CASE b = t
    BY <1>6, <2>3, <2>5
  <2>6. CASE b # t
    BY <2>3, <2>4, <2>6
  <2> QED BY <2>3, <2>5, <2>6
<1>9. /\ \A s \in Task \ {t} : Local(s)'
      /\ \A s \in Task : Ordered(s) /\ Alone(s)
  <2>1. \A s \in Task \ {t} :
           /\ e[s] = entry[s] /\ w[s] = work[s] /\ resume'[s] = resume[s]
           /\ f[s] = final[s] \/ (f[s] = "failed" /\ final[s] = "waiting")
           /\ lock = s => lock' = s
           /\ s \in published' => s \in published
    BY <1>2, <1>7
  <2>2. \A b \in e[t].behind :
           /\ on[b] = on[t] /\ e[b].status # "absent"
           /\ Begun(e, t) => e[b].status = "merged"
    BY <1>8
  <2>3. e[t].status \in {"queued", "blocked", "merged"}
    BY <1>6
  <2> QED BY <1>2, <1>3, <1>4, <1>5, <1>6, <2>1, <2>2, <2>3, DrainKeeps
<1>10. /\ entry' \in [Task -> Entry] /\ work' \in [Task -> Work]
       /\ final' \in [Task -> Finalization]
       /\ entry'[t] = e[t] /\ work'[t] = "none"
       /\ \/ final'[t] = f[t]
          \/ /\ f[t] = "waiting" /\ final'[t] \in {"merged", "blocked"}
             /\ final'[t] = "merged" => e[t].status = "merged"
  <2>1. ~Starts(t, on[t], e)
    BY <1>6 DEF Starts, IsNext, Queued
  <2> QED BY <1>2, <1>3, <2>1, DrainShape
<1>11. TypeOK'
  BY <1>1, <1>10 DEF TypeOK
<1>12. Local(t)'
  <2>1. Local(t)
    BY <1>1
  <2>2. lock' = lock \/ resume[t] \in {"none", "lock"}
    BY <2>1 DEF Local
  <2>3. e[t] = entry[t] \/ t \notin published
    BY <2>1 DEF Local, AtWork
  <2>4. entry[t].status \in {"running", "merged", "blocked"}
    BY <2>1 DEF Local, AtWork
  <2> QED BY <1>1, <1>6, <1>10, <2>1, <2>2, <2>3, <2>4 DEF Local, AtWork, Integrated, Runs
<1> QED BY <1>4, <1>9, <1>11, <1>12, Assembled

LEMMA LockTargetKeeps ==
  ASSUME MergeInv, MergeAssumption, NEW t \in Task, LockTarget(t)
  PROVE  MergeInv'
<1>1. CASE lock = NoTask /\ lock' = t /\ work' = [work EXCEPT ![t] = "check"]
           /\ UNCHANGED <<entry, final>>
  BY <1>1, WorkKeeps DEF LockTarget
<1>2. CASE /\ Drains(on[t], [entry EXCEPT ![t].status = "blocked", ![t].drifted = FALSE],
                     [work EXCEPT ![t] = "none"], final)
           /\ UNCHANGED lock
  <2> DEFINE e == [entry EXCEPT ![t].status = "blocked", ![t].drifted = FALSE]
             r == [entry[t] EXCEPT !.status = "blocked", !.drifted = FALSE]
  <2>1. TypeOK /\ entry[t] \in Entry
    BY Parts DEF TypeOK
  <2>2. r \in Entry /\ r.status = "blocked" /\ r.behind = entry[t].behind
        /\ r.integ = entry[t].integ
    BY <2>1 DEF Entry, EntryStatus
  <2>3. e = [entry EXCEPT ![t] = r]
    BY <2>1 DEF TypeOK
  <2>4. e \in [Task -> Entry] /\ e[t] = r /\ \A s \in Task \ {t} : e[s] = entry[s]
    BY <2>1, <2>2, <2>3 DEF TypeOK
  <2>5. Drains(on[t], e, [work EXCEPT ![t] = "none"], final)
    BY <1>2
  <2> HIDE DEF e, r
  <2>6. final \in [Task -> Finalization]
    BY <2>1 DEF TypeOK
  <2> QED BY <1>2, <2>2, <2>4, <2>5, <2>6, ProcessEnds DEF LockTarget
<1> QED BY <1>1, <1>2 DEF LockTarget

LEMMA ReleaseKeeps ==
  ASSUME MergeInv, MergeAssumption, NEW t \in Task, ReleaseLease(t)
  PROVE  MergeInv'
<1>1. TypeOK /\ entry \in [Task -> Entry] /\ final \in [Task -> Finalization]
  BY Parts DEF TypeOK
<1>2. /\ Rejected(on[t], final) \in [Task -> Finalization]
      /\ \A s \in Task : \/ Rejected(on[t], final)[s] = final[s]
                         \/ Rejected(on[t], final)[s] = "failed" /\ final[s] = "waiting"
  BY <1>1 DEF Rejected, Finalization, Outcome
<1>3. CASE lock' = NoTask /\ Drains(on[t], entry, [work EXCEPT ![t] = "none"], final)
  BY <1>1, <1>3, ProcessEnds DEF ReleaseLease
<1>4. CASE /\ UNCHANGED lock
           /\ Drains(on[t], entry, [work EXCEPT ![t] = "none"], Rejected(on[t], final))
  <2> DEFINE f == Rejected(on[t], final)
  <2>1. /\ f \in [Task -> Finalization]
        /\ \A s \in Task : f[s] = final[s] \/ (f[s] = "failed" /\ final[s] = "waiting")
        /\ Drains(on[t], entry, [work EXCEPT ![t] = "none"], f)
    BY <1>2, <1>4
  <2> HIDE DEF f
  <2> QED BY <1>1, <1>4, <2>1, ProcessEnds DEF ReleaseLease
<1> QED BY <1>3, <1>4 DEF ReleaseLease

LEMMA EnqueueKeeps ==
  ASSUME MergeInv, NEW t \in Task, Enqueue(t)
  PROVE  MergeInv'
<1> USE DEF git
<1>1. TypeOK /\ published \subseteq target /\ OneAtWork /\ Order /\ \A s \in Task : Local(s)
  BY Parts
<1> DEFINE r == [entry[t] EXCEPT !.status = "queued", !.upstream = upstream,
                                 !.behind = {s \in QueueOf(on[t]) :
                                               entry[s].status # "absent"}]
           e == [entry EXCEPT ![t].status = "queued", ![t].upstream = upstream,
                              ![t].behind = {s \in QueueOf(on[t]) :
                                               entry[s].status # "absent"}]
           f == [final EXCEPT ![t] = "waiting"]
<1>2. /\ Runs(t) /\ final[t] = "set" /\ entry[t].status = "absent" /\ entry[t] \in Entry
      /\ work[t] = "none" /\ resume[t] = "none" /\ t \notin published /\ on[t] # NoHost
      /\ UNCHANGED <<git, lock, up, on, resume>>
  BY <1>1 DEF Enqueue, Local, TypeOK
<1>3. /\ r \in Entry /\ r.status = "queued" /\ r.expects = entry[t].expects
      /\ r.seen = entry[t].seen
      /\ r.behind = {s \in QueueOf(on[t]) : entry[s].status # "absent"}
  <2>1. {s \in QueueOf(on[t]) : entry[s].status # "absent"} \in SUBSET Task
    BY DEF QueueOf
  <2>2. upstream \in Head
    BY <1>1 DEF TypeOK
  <2> QED BY <1>2, <2>1, <2>2 DEF Entry, EntryStatus
<1>4. /\ e \in [Task -> Entry] /\ e[t] = r /\ \A s \in Task \ {t} : e[s] = entry[s]
  <2>1. e = [entry EXCEPT ![t] = r]
    BY <1>1 DEF TypeOK
  <2> QED BY <1>1, <1>3, <2>1 DEF TypeOK
<1>5. /\ f \in [Task -> Finalization] /\ f[t] = "waiting"
      /\ \A s \in Task \ {t} : f[s] = final[s]
  BY <1>1 DEF TypeOK, Finalization
<1>6. Grows
  BY <1>1, <1>2 DEF Grows
<1>7. \/ Draining(on[t]) /\ entry' = e /\ final' = f /\ UNCHANGED work
      \/ ~Draining(on[t]) /\ Drains(on[t], e, work, f)
  BY DEF Enqueue
<1>8. entry[t].expects \cap Outside \subseteq entry[t].seen \cup accepted
  BY <1>1, <1>2 DEF Local
<1> HIDE DEF r, e, f
<1>9. CASE Draining(on[t]) /\ entry' = e /\ final' = f /\ UNCHANGED work
  <2>1. TypeOK'
    BY <1>1, <1>2, <1>4, <1>5, <1>9 DEF TypeOK
  <2>2. \A s \in Task \ {t} : Stays(s)
    BY <1>2, <1>4, <1>5, <1>9 DEF Stays, FinalStays
  <2>3. Local(t)'
    BY <1>2, <1>3, <1>4, <1>5, <1>8, <1>9 DEF Local, AtWork, Integrated, Runs
  <2>4. Ordered(t) /\ Alone(t)
    <3>1. \A b \in r.behind : b \in Task /\ b # t /\ on[b] = on[t] /\ entry[b].status # "absent"
      BY <1>2, <1>3 DEF QueueOf
    <3>2. \A b \in r.behind : on'[b] = on'[t] /\ entry'[b].status # "absent"
      BY <1>2, <1>4, <1>9, <3>1
    <3> QED BY <1>2, <1>3, <1>4, <1>9, <3>2 DEF Ordered, Alone, Begun
  <2> QED BY <1>6, <2>1, <2>2, <2>3, <2>4, TaskMoves
<1>10. CASE ~Draining(on[t]) /\ Drains(on[t], e, work, f)
  <2>1. work \in [Task -> Work] /\ \A s \in QueueOf(on[t]) : work[s] = "none"
    BY <1>1, <1>10 DEF TypeOK, Draining
  <2>2. \A b \in e[t].behind : on[b] = on[t] /\ e[b].status # "absent"
    BY <1>2, <1>3, <1>4 DEF QueueOf
  <2>3. ~Begun(e, t)
    BY <1>3, <1>4 DEF Begun
  <2>4. /\ \A s \in Task \ {t} : Local(s)'
        /\ \A s \in Task : Ordered(s) /\ Alone(s)
    <3>1. \A s \in Task \ {t} :
             /\ e[s] = entry[s] /\ work[s] = work[s] /\ resume'[s] = resume[s]
             /\ f[s] = final[s] \/ (f[s] = "failed" /\ final[s] = "waiting")
             /\ lock = s => lock' = s
             /\ s \in published' => s \in published
      BY <1>2, <1>4, <1>5
    <3>2. \A b \in e[t].behind :
             /\ on[b] = on[t] /\ e[b].status # "absent"
             /\ Begun(e, t) => e[b].status = "merged"
      BY <2>2, <2>3
    <3>3. e[t].status \in {"queued", "blocked", "merged"} /\ entry[t].status # "merged"
      BY <1>2, <1>3, <1>4
    <3> QED BY <1>2, <1>4, <1>5, <1>6, <1>10, <2>1, <3>1, <3>2, <3>3, DrainKeeps
  <2>5. /\ entry' \in [Task -> Entry] /\ work' \in [Task -> Work]
        /\ final' \in [Task -> Finalization]
        /\ \/ entry'[t] = r /\ work'[t] = "none"
           \/ entry'[t] = [r EXCEPT !.status = "running"] /\ work'[t] = "lock"
        /\ final'[t] \in {"waiting", "merged", "blocked"}
        /\ final'[t] = "merged" => r.status = "merged"
    BY <1>2, <1>4, <1>5, <1>10, <2>1, DrainShape DEF Starts
  <2>6. TypeOK'
    BY <1>1, <1>2, <2>5 DEF TypeOK
  <2>7. /\ entry'[t].status \in {"queued", "running"}
        /\ entry'[t].status = "running" <=> work'[t] = "lock"
        /\ work'[t] \in {"none", "lock"}
        /\ entry'[t].expects = r.expects /\ entry'[t].seen = r.seen
    BY <1>3, <2>5 DEF Entry
  <2>8. Local(t)'
    BY <1>2, <1>3, <1>8, <2>5, <2>7 DEF Local, AtWork, Integrated, Runs
  <2> QED BY <1>6, <2>4, <2>6, <2>8, Assembled
<1> QED BY <1>7, <1>9, <1>10

LEMMA ResumeReleasesKeeps ==
  ASSUME MergeInv, MergeAssumption, NEW t \in Task, ResumeReleases(t)
  PROVE  MergeInv'
<1> USE DEF git
<1>1. TypeOK /\ published \subseteq target /\ OneAtWork /\ Order /\ \A s \in Task : Local(s)
  BY Parts
<1>2. /\ Runs(t) /\ resume[t] \in {"release", "abandon"} /\ UNCHANGED <<git, up, on>>
      /\ resume' \in [Task -> Resumption] /\ resume'[t] = "none"
      /\ \A s \in Task \ {t} : resume'[s] = resume[s]
      /\ lock' \in {lock, NoTask}
  BY <1>1 DEF ResumeReleases, Resumes, TypeOK, Resumption
<1>3. Grows
  BY <1>1, <1>2 DEF Grows
<1>4. lock = t /\ work[t] \in {"none", "lock"} /\ entry[t].status # "absent"
  BY <1>1, <1>2 DEF Local
<1>5. CASE UNCHANGED <<entry, work, final>>
  <2>1. TypeOK'
    BY <1>1, <1>2, <1>5 DEF TypeOK
  <2>2. \A s \in Task \ {t} : Stays(s)
    BY <1>2, <1>4, <1>5 DEF Stays, FinalStays
  <2>3. Local(t)'
    BY <1>1, <1>2, <1>4, <1>5 DEF Local, AtWork, Integrated, Runs
  <2>4. Ordered(t) /\ Alone(t)
    BY <1>2, <1>5 DEF Ordered, Alone, Begun
  <2> QED BY <1>3, <2>1, <2>2, <2>3, <2>4, TaskMoves
<1>6. CASE /\ resume[t] = "release" /\ ~Draining(on[t])
           /\ Drains(on[t], entry, work, final)
  <2>1. /\ entry \in [Task -> Entry] /\ work \in [Task -> Work]
        /\ final \in [Task -> Finalization]
        /\ \A s \in QueueOf(on[t]) : work[s] = "none"
    BY <1>1, <1>6 DEF TypeOK, Draining
  <2>2. work[t] = "none" /\ entry[t].status \in {"queued", "blocked", "merged"}
    <3>1. work[t] = "none"
      BY <2>1 DEF QueueOf
    <3>2. entry[t].status # "running"
      BY <1>1, <1>2, <3>1 DEF Local, AtWork, Integrated
    <3>3. entry[t].status \in EntryStatus
      BY <2>1 DEF Entry
    <3> QED BY <1>4, <3>1, <3>2, <3>3 DEF EntryStatus
  <2>3. /\ \A s \in Task \ {t} : Local(s)'
        /\ \A s \in Task : Ordered(s) /\ Alone(s)
    <3>1. \A s \in Task \ {t} :
             /\ entry[s] = entry[s] /\ work[s] = work[s] /\ resume'[s] = resume[s]
             /\ final[s] = final[s] \/ (final[s] = "failed" /\ final[s] = "waiting")
             /\ lock = s => lock' = s
             /\ s \in published' => s \in published
      BY <1>2, <1>4
    <3>2. \A b \in entry[t].behind :
             /\ on[b] = on[t] /\ entry[b].status # "absent"
             /\ Begun(entry, t) => entry[b].status = "merged"
      BY <1>1 DEF Order, Begun
    <3> QED BY <1>2, <1>3, <1>6, <2>1, <2>2, <3>1, <3>2, DrainKeeps
  <2>4. /\ entry' \in [Task -> Entry] /\ work' \in [Task -> Work]
        /\ final' \in [Task -> Finalization]
        /\ \/ entry'[t] = entry[t] /\ work'[t] = "none"
           \/ /\ entry[t].status = "queued" /\ work'[t] = "lock"
              /\ entry'[t] = [entry[t] EXCEPT !.status = "running"]
        /\ \/ final'[t] = final[t]
           \/ /\ final[t] = "waiting" /\ final'[t] \in {"merged", "blocked"}
              /\ final'[t] = "merged" => entry[t].status = "merged"
    BY <1>6, <2>1, <2>2, DrainShape DEF Starts, IsNext, Queued
  <2>5. TypeOK'
    BY <1>1, <1>2, <2>4 DEF TypeOK
  <2>6. Local(t)'
    <3>1. CASE entry'[t] = entry[t] /\ work'[t] = "none"
      BY <1>1, <1>2, <2>2, <2>4, <3>1 DEF Local, AtWork, Integrated, Runs
    <3>2. CASE /\ entry[t].status = "queued" /\ work'[t] = "lock"
               /\ entry'[t] = [entry[t] EXCEPT !.status = "running"]
      <4>1. /\ entry'[t].status = "running" /\ entry'[t].expects = entry[t].expects
            /\ entry'[t].seen = entry[t].seen
        <5>1. entry[t] \in Entry
          BY <2>1
        <5> QED BY <3>2, <5>1 DEF Entry
      <4> QED BY <1>1, <1>2, <2>4, <3>2, <4>1 DEF Local, AtWork, Integrated, Runs
    <3> QED BY <2>4, <3>1, <3>2
  <2> QED BY <1>3, <2>3, <2>5, <2>6, Assembled
<1> QED BY <1>5, <1>6 DEF ResumeReleases

\* Steps of resumeAfterResolution that leave the entry as it is.
LEMMA ResumeWalks ==
  ASSUME MergeInv, MergeAssumption, NEW t \in Task, NEW s \in Resumption, Resumes(t, s),
         UNCHANGED <<target, upstream, published, accepted, up, on, final, entry, work>>, Runs(t),
         \/ lock' = lock /\ resume[t] = "none" /\ entry[t].status = "blocked" /\ s = "lock"
         \/ lock' = lock /\ resume[t] = "lock" /\ s = "none"
         \/ lock = NoTask /\ lock' = t /\ resume[t] = "lock" /\ s \in {"validate", "requeue"}
         \/ lock' = lock /\ resume[t] \in {"validate", "requeue"} /\ s = "abandon"
         \/ lock' = lock /\ resume[t] = "publish" /\ s = "ff"
  PROVE  MergeInv'
<1>1. TypeOK /\ Local(t) /\ published \subseteq target
  BY Parts
<1>2. /\ resume' \in [Task -> Resumption] /\ resume'[t] = s
      /\ \A u \in Task \ {t} : resume'[u] = resume[u]
  BY <1>1 DEF Resumes, TypeOK
<1>3. t # NoTask
  BY DEF MergeAssumption
<1>4. TypeOK' /\ Grows
  BY <1>1, <1>2 DEF TypeOK, Grows
<1>5. \A u \in Task \ {t} : Stays(u)
  BY <1>2 DEF Stays, FinalStays, MergeAssumption
<1>6. Local(t)'
  BY <1>1, <1>2, <1>3 DEF Local, AtWork, Integrated, Runs
<1>7. Ordered(t) /\ Alone(t)
  BY DEF Ordered, Alone, Begun
<1> QED BY <1>4, <1>5, <1>6, <1>7, TaskMoves

LEMMA ResumeFastForwardKeeps ==
  ASSUME MergeInv, NEW t \in Task, ResumeFastForward(t)
  PROVE  MergeInv'
<1>1. TypeOK /\ Local(t) /\ published \subseteq target /\ entry[t] \in Entry
  BY Parts DEF TypeOK
<1>2. /\ UNCHANGED <<upstream, lock, up, on, final, entry, work>>
      /\ resume[t] = "ff" /\ entry[t].status = "blocked"
      /\ target \subseteq entry[t].integ /\ target' = entry[t].integ
      /\ published' = published \cup {t}
      /\ accepted' = accepted \cup (entry[t].integ \cap Outside)
      /\ t \in entry[t].integ /\ entry[t].integ \in Head
  BY <1>1 DEF ResumeFastForward, FastForwards, Local, Integrated, Entry
<1>3. /\ resume' \in [Task -> Resumption] /\ resume'[t] = "finish"
      /\ \A u \in Task \ {t} : resume'[u] = resume[u]
  BY <1>1 DEF ResumeFastForward, Resumes, TypeOK, Resumption
<1>4. TypeOK' /\ Grows
  BY <1>1, <1>2, <1>3 DEF TypeOK, Grows
<1>5. \A u \in Task \ {t} : Stays(u)
  BY <1>2, <1>3 DEF Stays, FinalStays
<1>6. Local(t)'
  <2>1. work[t] \in {"none", "release"}
    BY <1>1, <1>2 DEF Local, AtWork, Integrated, Work, TypeOK
  <2> QED BY <1>1, <1>2, <1>3, <2>1 DEF Local, AtWork, Integrated, Runs
<1>7. Ordered(t) /\ Alone(t)
  BY <1>2 DEF Ordered, Alone, Begun
<1> QED BY <1>4, <1>5, <1>6, <1>7, TaskMoves

\* Steps that change an entry nobody processes: a new baseline, the old one, the queue again,
\* an upstream, a commit in the integration worktree.
LEMMA EntryMoves ==
  ASSUME MergeInv, NEW t \in Task, NEW r \in Entry, NEW s \in Resumption, Runs(t),
         entry' = [entry EXCEPT ![t] = r], resume' = [resume EXCEPT ![t] = s],
         UNCHANGED <<target, upstream, published, lock, up, on, final, work>>,
         accepted' \subseteq Outside, accepted \subseteq accepted',
         r.behind = entry[t].behind, r.seen = entry[t].seen,
         \/ /\ resume[t] = "validate" /\ s = "publish" /\ r.status = entry[t].status
            /\ r.integ = entry[t].integ /\ t \in r.integ
         \/ /\ resume[t] \in {"publish", "ff"} /\ s = "abandon" /\ r.status = entry[t].status
            /\ r.integ = entry[t].integ
         \/ /\ resume[t] = "requeue" /\ s = "requeued" /\ r.status = "queued"
            /\ r.expects \cap Outside \subseteq accepted'
         \/ /\ resume[t] = "requeued" /\ s = "release" /\ r.status = entry[t].status
            /\ r.integ = entry[t].integ /\ r.expects = entry[t].expects
            /\ r.before = entry[t].before
         \/ /\ resume[t] = "none" /\ s = "none" /\ entry[t].status = "blocked"
            /\ r.status = entry[t].status
  PROVE  MergeInv'
<1>1. TypeOK /\ Local(t) /\ published \subseteq target
  BY Parts
<1>2. /\ resume' \in [Task -> Resumption] /\ resume'[t] = s
      /\ \A u \in Task \ {t} : resume'[u] = resume[u]
  BY <1>1 DEF TypeOK
<1>3. /\ entry' \in [Task -> Entry] /\ entry'[t] = r
      /\ \A u \in Task \ {t} : entry'[u] = entry[u]
  BY <1>1, EntryShape
<1>4. TypeOK' /\ Grows
  BY <1>1, <1>2, <1>3 DEF TypeOK, Grows
<1>5. \A u \in Task \ {t} : Stays(u)
  BY <1>2, <1>3 DEF Stays, FinalStays
<1>6. Local(t)'
  <2>1. work[t] \in {"none", "lock"} \/ (resume[t] = "none" /\ work[t] = "release")
    BY <1>1 DEF Local, AtWork, Integrated, Work, TypeOK
  <2> QED BY <1>1, <1>2, <1>3, <2>1 DEF Local, AtWork, Integrated, Runs
<1>7. Ordered(t) /\ Alone(t)
  <2>1. resume[t] = "none" \/ entry[t].status # "merged" \/ r.status = "merged"
    BY <1>1 DEF Local
  <2> QED BY <1>1, <1>3, <2>1 DEF Ordered, Alone, Begun, Local
<1> QED BY <1>4, <1>5, <1>6, <1>7, TaskMoves

LEMMA ResumeKeeps ==
  ASSUME MergeInv, MergeAssumption, NEW t \in Task, ResumeAfterResolution(t) \/ ResumeStep(t)
  PROVE  MergeInv'
<1> USE DEF git, Resumes
<1>1. TypeOK /\ Local(t) /\ entry[t] \in Entry /\ target \in Head /\ upstream \in Head
  BY Parts DEF TypeOK
<1>2. {"none", "lock", "validate", "requeue", "requeued", "publish", "ff", "release",
       "abandon"} \subseteq Resumption
  BY DEF Resumption
<1>3. CASE ResumeAfterResolution(t)
  <2>1. resume[t] = "none"
    BY <1>3 DEF ResumeAfterResolution, QueueOf
  <2> QED BY <1>2, <1>3, <2>1, ResumeWalks DEF ResumeAfterResolution
<1>4. CASE ResumeLocks(t)
  <2>1. CASE lock = NoTask /\ lock' = t
             /\ Resumes(t, IF entry[t].tree = "added" THEN "validate" ELSE "requeue")
    BY <1>2, <1>4, <2>1, ResumeWalks DEF ResumeLocks
  <2>2. CASE UNCHANGED lock /\ Resumes(t, "none")
    BY <1>2, <1>4, <2>2, ResumeWalks DEF ResumeLocks
  <2> QED BY <1>4, <2>1, <2>2 DEF ResumeLocks
<1>5. CASE ResumeValidates(t)
  <2>1. CASE Resumes(t, "abandon") /\ UNCHANGED entry
    BY <1>2, <1>5, <2>1, ResumeWalks DEF ResumeValidates
  <2>2. CASE ~(Resumes(t, "abandon") /\ UNCHANGED entry)
    <3> DEFINE r == [entry[t] EXCEPT
                       !.was = [expects |-> entry[t].expects, upstream |-> entry[t].upstream],
                       !.expects = target, !.upstream = upstream]
    <3>1. /\ r \in Entry /\ r.status = entry[t].status /\ r.behind = entry[t].behind
          /\ r.seen = entry[t].seen /\ r.integ = entry[t].integ
      BY <1>1 DEF Entry
    <3>2. entry' = [entry EXCEPT ![t] = r]
      BY <1>1, <1>5, <2>2 DEF ResumeValidates, TypeOK
    <3>3. t \in entry[t].integ
      BY <1>5, <2>2 DEF ResumeValidates
    <3> HIDE DEF r
    <3> QED BY <1>1, <1>2, <1>5, <2>2, <3>1, <3>2, <3>3, EntryMoves DEF ResumeValidates, TypeOK
  <2> QED BY <2>1, <2>2
<1>6. CASE resume[t] \in {"publish", "ff"} /\ Runs(t) /\ Restores(t)
           /\ UNCHANGED <<git, lock, up, on, final, work>>
  <2> DEFINE r == [entry[t] EXCEPT !.expects = entry[t].was.expects,
                                   !.upstream = entry[t].was.upstream]
  <2>1. /\ r \in Entry /\ r.status = entry[t].status /\ r.behind = entry[t].behind
        /\ r.seen = entry[t].seen /\ r.integ = entry[t].integ
    BY <1>1 DEF Entry
  <2>2. entry' = [entry EXCEPT ![t] = r] /\ Resumes(t, "abandon")
    BY <1>1, <1>6 DEF Restores, TypeOK
  <2> HIDE DEF r
  <2> QED BY <1>1, <1>2, <1>6, <2>1, <2>2, EntryMoves DEF TypeOK
<1>7. CASE ResumePublishes(t)
  <2>1. CASE ~Drifted(t) /\ Resumes(t, "ff") /\ UNCHANGED entry
    BY <1>2, <1>7, <2>1, ResumeWalks DEF ResumePublishes
  <2> QED BY <1>6, <1>7, <2>1 DEF ResumePublishes
<1>8. CASE ResumeRefused(t)
  BY <1>6, <1>8 DEF ResumeRefused
<1>9. CASE Requeue(t)
  <2>1. CASE Resumes(t, "abandon") /\ UNCHANGED <<entry, accepted>>
    BY <1>2, <1>9, <2>1, ResumeWalks DEF Requeue
  <2>2. CASE ~(Resumes(t, "abandon") /\ UNCHANGED <<entry, accepted>>)
    <3> DEFINE r == [entry[t] EXCEPT !.status = "queued", !.expects = target]
    <3>1. /\ r \in Entry /\ r.status = "queued" /\ r.behind = entry[t].behind
          /\ r.seen = entry[t].seen /\ r.expects = target
      BY <1>1 DEF Entry, EntryStatus
    <3>2. entry' = [entry EXCEPT ![t] = r]
      BY <1>1, <1>9, <2>2 DEF Requeue, TypeOK
    <3>3. /\ accepted' = accepted \cup (target \cap Outside) /\ resume[t] = "requeue"
          /\ Resumes(t, "requeued")
      BY <1>9, <2>2 DEF Requeue
    <3> HIDE DEF r
    <3>4. /\ accepted' \subseteq Outside /\ accepted \subseteq accepted'
          /\ r.expects \cap Outside \subseteq accepted'
      BY <1>1, <3>1, <3>3 DEF TypeOK
    <3> QED BY <1>2, <1>9, <3>1, <3>2, <3>3, <3>4, EntryMoves DEF Requeue
  <2> QED BY <2>1, <2>2
<1>10. CASE RequeueAnswers(t)
  <2> DEFINE r == [entry[t] EXCEPT !.upstream = upstream]
  <2>1. /\ r \in Entry /\ r.status = entry[t].status /\ r.behind = entry[t].behind
        /\ r.seen = entry[t].seen /\ r.integ = entry[t].integ
        /\ r.expects = entry[t].expects /\ r.before = entry[t].before
    BY <1>1 DEF Entry
  <2>2. entry' = [entry EXCEPT ![t] = r]
    BY <1>1, <1>10 DEF RequeueAnswers, TypeOK
  <2> HIDE DEF r
  <2> QED BY <1>1, <1>2, <1>10, <2>1, <2>2, EntryMoves DEF RequeueAnswers, TypeOK
<1> QED BY <1>3, <1>4, <1>5, <1>7, <1>8, <1>9, <1>10, ResumeFastForwardKeeps, FinishKeeps,
           ResumeReleasesKeeps DEF ResumeStep

LEMMA ResolveKeeps ==
  ASSUME MergeInv, NEW t \in Task, Resolve(t)
  PROVE  MergeInv'
<1>1. TypeOK /\ entry[t] \in Entry /\ target \in Head /\ upstream \in Head
  BY Parts DEF TypeOK
<1>2. PICK more \in {{}, target, upstream, target \cup upstream} :
        entry' = [entry EXCEPT ![t].integ = @ \cup {t} \cup more]
  BY DEF Resolve
<1> DEFINE r == [entry[t] EXCEPT !.integ = entry[t].integ \cup {t} \cup more]
<1>3. entry[t].integ \cup {t} \cup more \in Head
  BY <1>1 DEF Entry, Head
<1>4. /\ r \in Entry /\ r.status = entry[t].status /\ r.behind = entry[t].behind
      /\ r.seen = entry[t].seen
  BY <1>1, <1>3 DEF Entry
<1>5. entry' = [entry EXCEPT ![t] = r]
  BY <1>1, <1>2 DEF TypeOK
<1>6. resume' = [resume EXCEPT ![t] = "none"]
  BY <1>1 DEF Resolve, TypeOK
<1> HIDE DEF r
<1> QED BY <1>1, <1>4, <1>5, <1>6, EntryMoves DEF Resolve, git, TypeOK, Resumption

LEMMA OutsideKeeps ==
  ASSUME MergeInv, NEW u \in Outside, OutsideCommits(u)
  PROVE  MergeInv'
<1>1. TypeOK /\ published \subseteq target
  BY Parts
<1>2. TypeOK' /\ Grows
  BY <1>1 DEF OutsideCommits, TypeOK, Grows, Head
<1>3. \A s \in Task : Stays(s)
  BY DEF OutsideCommits, Stays, FinalStays
<1> QED BY <1>2, <1>3, Untouched, Assembled

\* Nothing is asked of the awaits of a dead host but the fast-forward that goes on.
LEMMA DeathKeeps ==
  ASSUME MergeInv, MergeAssumption, NEW h \in Host, Dies(h)
  PROVE  MergeInv'
<1> USE DEF git
<1>1. TypeOK /\ published \subseteq target /\ OneAtWork /\ Order /\ \A s \in Task : Local(s)
  BY Parts
<1>2. TypeOK' /\ Grows
  BY <1>1 DEF Dies, TypeOK, Grows, Work, Resumption
<1>3. ASSUME NEW s \in Task PROVE Local(s)' /\ Ordered(s) /\ Alone(s)
  <2>1. Local(s)
    BY <1>1
  <2>2. /\ UNCHANGED <<target, published, accepted, on, final, entry>>
        /\ work'[s] \in {work[s], "none"} /\ resume'[s] \in {resume[s], "none"}
    BY DEF Dies
  <2>3. CASE on[s] = h
    <3>1. ~Runs(s)'
      BY <1>1, <2>3 DEF Dies, Runs
    <3> QED BY <2>1, <2>2, <3>1 DEF Local, Ordered, Alone, Begun, AtWork, Integrated
  <2>4. CASE on[s] # h
    <3>1. /\ work'[s] = work[s] /\ resume'[s] = resume[s]
          /\ Runs(s)' <=> Runs(s)
          /\ lock = s => lock' = s
      BY <1>1, <2>4 DEF Dies, Runs, QueueOf
    <3> QED BY <2>1, <2>2, <3>1 DEF Local, Ordered, Alone, Begun, AtWork, Integrated
  <2> QED BY <2>3, <2>4
<1> QED BY <1>2, <1>3, Assembled

LEMMA ProcessKeeps ==
  ASSUME MergeInv, MergeAssumption, NEW t \in Task, Process(t)
  PROVE  MergeInv'
<1>1. CASE Publish(t)
  <2>1. CASE Drifted(t) /\ Stops(t, TRUE)
    BY <1>1, <2>1, StopsKeeps DEF Publish
  <2>2. CASE ~Drifted(t)
    BY <1>1, <2>2, WorkKeeps DEF Publish
  <2> QED BY <1>1, <2>1, <2>2 DEF Publish
<1>2. CASE CheckFails(t) \/ FastForwardRefused(t)
  BY <1>2, StopsKeeps DEF CheckFails, FastForwardRefused
<1>3. CASE FastForward(t)
  BY <1>3, WorkKeeps
<1> QED BY <1>1, <1>2, <1>3, LockTargetKeeps, NotesKeep, FinishKeeps, ReleaseKeeps DEF Process

-----------------------------------------------------------------------------
(* The theorems.                                                           *)

LEMMA InitInvariant ==
  ASSUME MergeAssumption, Init
  PROVE  MergeInv
<1>1. Blank \in Entry
  BY DEF Blank, Entry, EntryStatus, Tree, Head
<1>2. TypeOK
  BY <1>1 DEF Init, TypeOK, Head, Finalization, Work, Resumption
<1>3. \A t \in Task : entry[t] = Blank /\ Blank.status = "absent" /\ Blank.behind = {}
                      /\ work[t] = "none" /\ resume[t] = "none" /\ final[t] = "none"
  BY DEF Init, Blank
<1>4. OneAtWork /\ Order /\ published \subseteq target /\ published = {}
  BY <1>3 DEF Init, OneAtWork, Order
<1>5. \A t \in Task : Local(t)
  BY <1>3, <1>4 DEF Local, AtWork, Integrated
<1> QED BY <1>2, <1>4, <1>5, Whole

LEMMA NextInvariant ==
  ASSUME MergeAssumption, MergeInv, [Next]_vars
  PROVE  MergeInv'
<1>1. CASE UNCHANGED vars
  <2>1. Grows /\ TypeOK'
    BY <1>1, Parts DEF vars, Grows, TypeOK
  <2>2. \A s \in Task : Stays(s)
    BY <1>1 DEF vars, Stays, FinalStays
  <2> QED BY <2>1, <2>2, Untouched, Assembled
<1>2. ASSUME NEW t \in Task, Call(t) PROVE MergeInv'
  BY <1>2, CallKeeps, EnqueueKeeps DEF Call
<1> QED BY <1>1, <1>2, FinalizeKeeps, ProcessKeeps, ResumeKeeps, ResolveKeeps, OutsideKeeps,
           DeathKeeps DEF Next

\* The inductive invariant of the merge queues holds in every state.
THEOREM MergeInvariant == Spec => []MergeInv
<1>1. Init => MergeInv
  BY MergeAssumption, InitInvariant
<1>2. MergeInv /\ [Next]_vars => MergeInv'
  BY MergeAssumption, NextInvariant
<1> QED BY <1>1, <1>2, PTL DEF Spec

\* What is called merged, or in no need of a merge, is in the target branch, and a published
\* merge of a host that lives is never queued again or shown as blocked.
THEOREM VerdictsTell == Spec => []VerdictTells
<1>1. MergeInv => VerdictTells
  BY DEF MergeInv
<1> QED BY <1>1, MergeInvariant, PTL

\* In the queue of a host nobody is merged before a task that was enqueued earlier.
THEOREM SerialInOrder == Spec => []InOrder
<1>1. MergeInv => InOrder
  BY DEF MergeInv
<1> QED BY <1>1, MergeInvariant, PTL

\* No commit of somebody else is merged over unseen.
THEOREM OutsidersSeen == Spec => []OutsiderIsSeen
<1>1. MergeInv => OutsiderIsSeen
  BY DEF MergeInv
<1> QED BY <1>1, MergeInvariant, PTL

\* The lock excludes: of all queues of the repository one integrates and publishes at a time,
\* whichever hosts have died on the way.
THEOREM OneIntegrates ==
  Spec => [](\A s, t \in Task :
               /\ Runs(s) /\ work[s] \notin {"none", "lock"}
               /\ Runs(t) /\ work[t] \notin {"none", "lock"}
               => s = t)
<1>1. MergeInv => \A s, t \in Task :
                    /\ Runs(s) /\ work[s] \notin {"none", "lock"}
                    /\ Runs(t) /\ work[t] \notin {"none", "lock"}
                    => s = t
  BY DEF MergeInv, Locking
<1> QED BY <1>1, MergeInvariant, PTL
================================================================================
