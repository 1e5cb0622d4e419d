-------------------------- MODULE SessionFork_proofs --------------------------
(***************************************************************************)
(* Proofs about SessionFork, for every set of hosts, operations and        *)
(* targets.  The argument is one of rely and guarantee: every step of a    *)
(* call minds its operation and its target (Minds); what minds them leaves *)
(* every other call and every row sound; and it leaves its own call sound. *)
(***************************************************************************)
EXTENDS SessionFork, TLAPS

\* What a step may make of a row: it creates it, stops in the phase the row is in, goes on
\* from there, records the next phase, whose effects are there, aborts what is gone, or seals.
RowMoves(o, row) ==
  \/ row = journal[o]
  \/ ~HasRow(o) /\ row.state = "prepared" /\ staging[o] # "none"
  \/ /\ journal[o].state \in Unfinished /\ row.state = "needs_attention"
     /\ row.phase = journal[o].state
  \/ journal[o].state = "needs_attention" /\ row.state = journal[o].phase
  \/ /\ journal[o].state \in Unfinished /\ row.state = Following(journal[o].state)
     /\ journal[o].state = "workspace_applied" => staging[o] = "sidecars"
     /\ journal[o].state = "sidecars_committed" => IsWhole(o)
     /\ request[o].target \notin cleaned =>
          /\ journal[o].state = "prepared" /\ request[o].kind = "both" => o \in applied
          /\ journal[o].state = "workspace_applied" => request[o].target \in clone
  \/ /\ journal[o].state = "needs_attention" /\ row.state = "aborted"
     /\ runtime[request[o].target].of # o /\ request[o].target \notin clone
  \/ /\ journal[o].state = "needs_attention" /\ row.state = "needs_attention"
     /\ row.phase = journal[o].phase

\* Of the other calls it takes away nothing but the freshness of what they have read.
SparesCalls(h) ==
  \A g \in Host \ {h} :
    \/ call'[g] = call[g] /\ (call[g].op = OpOf(h) /\ call[g].fresh =>
                                journal'[OpOf(h)] = journal[OpOf(h)])
    \/ call[g].op = OpOf(h) /\ call'[g] = [call[g] EXCEPT !.fresh = FALSE]
\* It writes nothing but the row and the files of its operation and the target of that.
SparesOthers(h) ==
  /\ goal' = goal /\ request' = request
  /\ \A p \in Op \ {OpOf(h)} :
       journal'[p] = journal[p] /\ staging'[p] = staging[p] /\ (p \in applied' <=> p \in applied)
  /\ \A u \in Target \ {TargetOf(h)} :
       runtime'[u] = runtime[u] /\ lock'[u] = lock[u] /\ (u \in clone' <=> u \in clone)
  /\ cleaned \subseteq cleaned'
\* Without the lease it leaves the target alone, and the lease only goes to it or from it.
NeedsLease(h) ==
  /\ lock'[TargetOf(h)] = lock[TargetOf(h)] \/ lock[TargetOf(h)] \in {NoHost, h}
  /\ call[h].step \notin Leased =>
       /\ runtime' = runtime /\ clone' = clone /\ applied' = applied
       /\ journal'[OpOf(h)].state = "aborted" => journal[OpOf(h)].state = "aborted"
\* It builds the target of an operation that is not aborted.
Builds(h) == call[h].step \in Working /\ journal'[OpOf(h)] = journal[OpOf(h)]
\* What becomes of its operation and its target.
TargetMoves(h) ==
  LET o == OpOf(h)
      t == TargetOf(h)
  IN /\ \/ staging'[o] = staging[o]
        \/ staging'[o] = "none" /\ OutOfTheWay(o)
        \/ staging[o] = "none" /\ staging'[o] = "frozen"
        \/ staging'[o] = "sidecars" /\ (t \notin cleaned => t \in clone)
     /\ \/ runtime'[t] = runtime[t]
        \/ runtime[t].part # "published" /\ runtime'[t] = [of |-> NoOp, part |-> "none"]
        \/ runtime[t].part # "published" /\ runtime'[t].of = o /\ Builds(h)
     /\ t \in clone' \ clone => Builds(h)
     /\ t \in clone \ clone' => t \in cleaned'
     /\ o \in applied \ applied' => t \in cleaned'
Minds(h) ==
  /\ SparesCalls(h) /\ SparesOthers(h) /\ NeedsLease(h) /\ TargetMoves(h)
  /\ RowMoves(OpOf(h), journal'[OpOf(h)])

-----------------------------------------------------------------------------
(* What a step that minds its own leaves sound.                            *)

\* A row that is there stays, and one that is out of the way stays as it is.
LEMMA RowsStay ==
  ASSUME NEW o \in Op, RowMoves(o, journal'[o]), CanGoOn(o)
  PROVE  /\ HasRow(o) => journal'[o].state # "absent"
         /\ OutOfTheWay(o) => journal'[o] = journal[o]
  BY DEF RowMoves, CanGoOn, HasRow, OutOfTheWay, Unfinished, Following

LEMMA IdleIsSound ==
  ASSUME NEW h \in Host, call'[h] = Idle
  PROVE  CallIsSound(h)'
  BY DEF Idle, CallIsSound, IsAsked, HoldsLease, ReadsTrue, FitsRow, HasBundle, KnowsTarget,
         HasEffect, Busy, Leased, Working, OpOf, TargetOf

LEMMA OthersStaySound ==
  ASSUME ForkAssumption, TypeOK, TypeOK', NEW h \in Host, Busy(h), Minds(h),
         CallIsSound(h), \A o \in Op : RowIsSound(o),
         NEW g \in Host, g # h, CallIsSound(g)
  PROVE  CallIsSound(g)'
<1> DEFINE o == OpOf(h)
           t == TargetOf(h)
           p == OpOf(g)
           u == TargetOf(g)
<1>o. o \in Op /\ t \in Target /\ CanGoOn(o)
  BY DEF CallIsSound, IsAsked, RowIsSound
<1>rows. /\ HasRow(o) => journal'[o].state # "absent"
         /\ OutOfTheWay(o) => journal'[o] = journal[o]
  BY <1>o, RowsStay DEF Minds
<1>c. /\ call'[g].op = p /\ call'[g].step = call[g].step /\ call'[g].at = call[g].at
      /\ call'[g].what = call[g].what
      /\ call'[g].fresh => call[g].fresh /\ (p = o => journal'[o] = journal[o])
  <2>1. call[g] \in Call
    BY DEF TypeOK
  <2>2. CASE call'[g] = call[g]
    <3>1. ASSUME call'[g].fresh, p = o PROVE journal'[o] = journal[o]
      <4>1. call'[g] # [call[g] EXCEPT !.fresh = FALSE]
        BY <2>1, <3>1 DEF Call
      <4>2. call[g].op = OpOf(h) /\ call[g].fresh
        BY <2>2, <3>1 DEF OpOf
      <4> QED BY <4>1, <4>2 DEF Minds, SparesCalls
    <3> QED BY <2>2, <3>1 DEF OpOf
  <2>3. CASE call'[g] = [call[g] EXCEPT !.fresh = FALSE]
    BY <2>1, <2>3 DEF OpOf, Call
  <2> QED
    BY <2>2, <2>3 DEF Minds, SparesCalls
<1>idle. CASE ~Busy(g)
  <2>1. call[g] = Idle
    BY <1>idle DEF CallIsSound, IsAsked
  <2>2. call'[g] = Idle
    BY <2>1 DEF Minds, SparesCalls, Idle
  <2> QED BY <2>2, IdleIsSound
<1>busy. CASE Busy(g)
  <2>p. p \in Op /\ u \in Target
    BY <1>busy DEF CallIsSound, IsAsked
  <2>same. /\ OpOf(g)' = p /\ TargetOf(g)' = u /\ Busy(g)' /\ goal' = goal
           /\ request' = request
    BY <1>c, <1>busy DEF OpOf, TargetOf, Busy, Minds, SparesOthers
  <2>row. /\ HasRow(p) => journal'[p].state # "absent"
          /\ OutOfTheWay(p) => journal'[p] = journal[p]
          /\ call'[g].fresh => call[g].fresh /\ journal'[p] = journal[p]
    BY <1>rows, <1>c, <2>p DEF Minds, SparesOthers, HasRow
  <2>lease. call[g].step \in Leased =>
              /\ lock'[u] = lock[u] /\ runtime'[u] = runtime[u] /\ (u \in clone' <=> u \in clone)
              /\ p \in applied' <=> p \in applied
              /\ journal'[p].state = "aborted" => journal[p].state = "aborted"
    <3> SUFFICES ASSUME call[g].step \in Leased
                 PROVE  /\ lock'[u] = lock[u] /\ runtime'[u] = runtime[u]
                        /\ u \in clone' <=> u \in clone
                        /\ p \in applied' <=> p \in applied
                        /\ journal'[p].state = "aborted" => journal[p].state = "aborted"
      OBVIOUS
    <3>1. lock[u] = g
      BY DEF CallIsSound, HoldsLease
    <3>2. CASE u # t
      <4>1. p # o
        BY <3>2 DEF TargetOf, OpOf
      <4> QED BY <4>1, <3>2, <2>p DEF Minds, SparesOthers
    <3>3. CASE u = t
      <4>1. call[h].step \notin Leased
        BY <3>1, <3>3 DEF CallIsSound, HoldsLease
      <4>2. lock[t] \notin {NoHost, h}
        BY <3>1, <3>3 DEF ForkAssumption
      <4> QED BY <4>1, <4>2, <3>3, <2>p DEF Minds, SparesOthers, NeedsLease
    <3> QED BY <3>2, <3>3
  <2>1. IsAsked(g)'
    BY <2>p, <2>same, <1>c, <1>busy DEF IsAsked, CallIsSound
  <2>2. HoldsLease(g)'
    BY <2>lease, <2>same, <1>c DEF HoldsLease, CallIsSound
  <2>3. ReadsTrue(g)'
    BY <2>row, <2>same, <1>c DEF ReadsTrue, CallIsSound, HasRow
  <2>4. FitsRow(g)'
    BY <2>row, <2>same, <2>lease, <1>c
       DEF FitsRow, CallIsSound, OutOfTheWay, Working, Leased
  <2>5. HasBundle(g)'
    <3>1. CASE p # o
      BY <3>1, <2>p, <2>same, <2>row, <1>c
         DEF HasBundle, CallIsSound, Minds, SparesOthers, HasRow
    <3>2. CASE p = o
      BY <3>2, <2>p, <2>same, <2>row, <1>c
         DEF HasBundle, CallIsSound, Minds, TargetMoves, HasRow, ReadsTrue, OutOfTheWay
    <3> QED BY <3>1, <3>2
  <2>6. runtime[u].part = "published" => runtime'[u] = runtime[u]
    BY <2>p DEF Minds, SparesOthers, TargetMoves
  <2>7. KnowsTarget(g)'
    <3>1. call[g].step \in Leased => (OwnsRuntime(p) <=> OwnsRuntime(OpOf(g))')
      BY <2>lease, <2>same DEF OwnsRuntime, TargetOf, OpOf
    <3>2. KnowsTarget(g)
      BY DEF CallIsSound
    <3> QED
      BY <3>1, <3>2, <2>6, <2>lease, <2>same, <1>c DEF KnowsTarget, Leased
  <2>8. HasEffect(g)'
    <3>1. u \notin cleaned' => u \notin cleaned
      BY DEF Minds, SparesOthers
    <3>2. HasEffect(g) /\ Busy(g)
      BY <1>busy DEF CallIsSound
    <3>3. call[g].step \in {"erase", "unclone", "drop"} => u \in cleaned'
      BY <3>1, <3>2 DEF HasEffect
    <3>4. u \notin cleaned' =>
            /\ call[g].step = "note" => u \in clone'
            /\ call[g].step = "advance" /\ call[g].at = "prepared" /\ request[p].kind = "both"
                 => p \in applied'
            /\ call[g].step = "advance" /\ call[g].at = "workspace_applied" => u \in clone'
      BY <3>1, <3>2, <2>lease DEF HasEffect, Leased
    <3> QED
      BY <3>3, <3>4, <2>same, <1>c DEF HasEffect
  <2> QED
    BY <2>1, <2>2, <2>3, <2>4, <2>5, <2>7, <2>8 DEF CallIsSound
<1> QED
  BY <1>idle, <1>busy

LEMMA TargetsStayApart ==
  ASSUME TypeOK, TargetsAreApart, NEW h \in Host, Busy(h), Minds(h), CallIsSound(h)
  PROVE  TargetsAreApart'
<1> DEFINE o == OpOf(h)
           t == TargetOf(h)
<1>1. o \in Op /\ t \in Target /\ t = request[o].target
  BY DEF CallIsSound, IsAsked, TargetOf, OpOf
<1>2. request' = request
  BY DEF Minds, SparesOthers
<1>3. ASSUME NEW u \in Target, runtime'[u].part \in {"begun", "published"}
      PROVE  runtime'[u].of \in Op /\ request[runtime'[u].of].target = u
  <2>1. CASE runtime'[u] = runtime[u]
    BY <1>3, <2>1 DEF TargetsAreApart
  <2>2. CASE runtime'[u] # runtime[u]
    <3>1. u = t
      BY <2>2 DEF Minds, SparesOthers
    <3>2. runtime'[u].of = o
      BY <1>3, <2>2, <3>1 DEF Minds, TargetMoves
    <3> QED BY <1>1, <3>1, <3>2
  <2> QED BY <2>1, <2>2
<1> QED
  BY <1>2, <1>3 DEF TargetsAreApart

LEMMA RowsStaySound ==
  ASSUME ForkAssumption, ForkInv, TypeOK', NEW h \in Host, Busy(h), Minds(h),
         NEW p \in Op
  PROVE  RowIsSound(p)'
<1> DEFINE o == OpOf(h)
           t == TargetOf(h)
           u == request[p].target
<1>inv. CallIsSound(h) /\ RowIsSound(o) /\ RowIsSound(p)
  BY DEF ForkInv, CallIsSound, IsAsked
<1>o. o \in Op /\ t \in Target /\ t = request[o].target
  BY <1>inv DEF CallIsSound, IsAsked, TargetOf, OpOf
<1>same. request' = request /\ cleaned \subseteq cleaned'
  BY DEF Minds, SparesOthers
<1>move. RowMoves(o, journal'[o])
  BY DEF Minds
<1>rows. /\ HasRow(o) => journal'[o].state # "absent"
         /\ OutOfTheWay(o) => journal'[o] = journal[o]
  BY <1>o, <1>inv, <1>move, RowsStay DEF RowIsSound
<1>other. ASSUME p # o
          PROVE  /\ journal'[p] = journal[p] /\ staging'[p] = staging[p]
                 /\ p \in applied' <=> p \in applied
  BY <1>other DEF Minds, SparesOthers
<1>clone. u \in Target /\ u \notin cleaned' => u \notin cleaned /\ (u \in clone => u \in clone')
  BY <1>o, <1>same DEF Minds, SparesOthers, TargetMoves
<1>applied. u \notin cleaned' /\ p \in applied => p \in applied'
  BY <1>o, <1>other DEF Minds, TargetMoves
<1>1. HasTarget(p)'
  <2>1. HasRow(p)' \/ staging'[p] # "none" => u \in Target
    <3>1. CASE p = o
      BY <3>1, <1>o
    <3>2. CASE p # o
      BY <3>2, <1>other, <1>inv DEF RowIsSound, HasTarget, HasRow
    <3> QED BY <3>1, <3>2
  <2> QED BY <2>1, <1>same, <1>inv DEF RowIsSound, HasTarget, Unused
<1>2. CanGoOn(p)'
  <2>1. CASE p # o
    BY <2>1, <1>other, <1>inv DEF RowIsSound, CanGoOn, Reached, HasRow, OutOfTheWay
  <2>2. CASE p = o
    <3>1. \/ staging'[o] = staging[o]
          \/ staging'[o] = "none" /\ OutOfTheWay(o)
          \/ staging[o] = "none" /\ staging'[o] = "frozen"
          \/ staging'[o] = "sidecars"
      BY DEF Minds, TargetMoves
    <3>2. CanGoOn(o)
      BY <1>inv DEF RowIsSound
    <3>3. journal'[o].state = "needs_attention" => journal'[o].phase \in Unfinished
      BY <1>move, <3>2 DEF CanGoOn, RowMoves, Following, Unfinished
    <3>4. journal'[o].state \notin {"absent", "completed", "aborted"} => staging'[o] # "none"
      BY <1>move, <1>rows, <3>1, <3>2
         DEF CanGoOn, RowMoves, Following, Unfinished, HasRow, OutOfTheWay
    <3>5. \/ journal'[o].state = "sidecars_committed"
          \/ journal'[o].state = "needs_attention" /\ journal'[o].phase = "sidecars_committed"
          => staging'[o] = "sidecars"
      BY <1>move, <1>rows, <3>1, <3>2
         DEF CanGoOn, RowMoves, Following, Unfinished, HasRow, OutOfTheWay, Reached
    <3> QED
      BY <2>2, <3>3, <3>4, <3>5 DEF CanGoOn, Reached, HasRow, OutOfTheWay
  <2> QED BY <2>1, <2>2
<1>3. FollowsEffects(p)'
  <2>1. CASE p # o
    <3>1. Reached(p, {"workspace_applied", "sidecars_committed"})' <=>
            Reached(p, {"workspace_applied", "sidecars_committed"})
      BY <2>1, <1>other DEF Reached
    <3>2. Reached(p, {"sidecars_committed"})' <=> Reached(p, {"sidecars_committed"})
      BY <2>1, <1>other DEF Reached
    <3>3. Reached(p, {"sidecars_committed"}) => u \in Target
      BY <1>inv DEF RowIsSound, HasTarget, HasRow, Reached
    <3> QED
      BY <3>1, <3>2, <3>3, <1>same, <1>clone, <1>applied, <1>inv DEF RowIsSound, FollowsEffects
  <2>2. CASE p = o
    <3> SUFFICES ASSUME u \notin cleaned'
                 PROVE  /\ Reached(p, {"workspace_applied", "sidecars_committed"})'
                             /\ request[p].kind = "both" => p \in applied'
                        /\ Reached(p, {"sidecars_committed"})' => u \in clone'
      BY <1>same DEF FollowsEffects
    <3>1. u \notin cleaned /\ (u \in clone => u \in clone') /\ (p \in applied => p \in applied')
      BY <1>clone, <1>applied, <1>o, <2>2
    <3>2. /\ Reached(p, {"workspace_applied", "sidecars_committed"})
               /\ request[p].kind = "both" => p \in applied
          /\ Reached(p, {"sidecars_committed"}) => u \in clone
      BY <1>inv, <3>1 DEF RowIsSound, FollowsEffects
    <3>3. CanGoOn(p) /\ RowMoves(p, journal'[p])
      BY <1>inv, <1>move, <2>2 DEF RowIsSound
    <3> QED
      BY <3>1, <3>2, <3>3 DEF Reached, RowMoves, CanGoOn, Following, Unfinished, HasRow
  <2> QED BY <2>1, <2>2
<1>4. NotesAreTrue(p)'
  <2> SUFFICES ASSUME staging'[p] = "sidecars", u \notin cleaned'
               PROVE  u \in clone'
    BY <1>same DEF NotesAreTrue
  <2>1. u \in Target
    BY <1>1, <1>same DEF HasTarget
  <2>2. staging[p] = "sidecars" \/ u \in clone
    BY <1>other, <1>o, <1>clone, <2>1 DEF Minds, TargetMoves
  <2> QED BY <2>1, <2>2, <1>clone, <1>inv DEF RowIsSound, NotesAreTrue
<1>5. ASSUME journal'[p].state = "completed"
      PROVE  IsWhole(p)'
  <2>1. IsWhole(p)
    BY <1>5, <1>other, <1>move, <1>inv
       DEF RowIsSound, RowMoves, Following, Unfinished, CanGoOn
  <2>2. u \in Target
    BY <1>1, <1>5, <1>same DEF HasTarget, HasRow
  <2> QED
    BY <2>1, <2>2, <1>same DEF IsWhole, Minds, SparesOthers, TargetMoves
<1>6. ASSUME journal'[p].state = "aborted"
      PROVE  IsGone(p)'
  <2>0. u \in Target /\ NoOp # p
    BY <1>1, <1>6, <1>same DEF HasTarget, HasRow, ForkAssumption
  <2>own. Builds(h) => journal'[o].state # "aborted"
    BY <1>inv DEF CallIsSound, FitsRow, Builds
  <2>1. IsGone(p)
    BY <1>6, <1>other, <1>move, <1>inv, <1>o
       DEF RowIsSound, RowMoves, Following, Unfinished, CanGoOn, IsGone
  <2>2. runtime'[u].of # p
    BY <2>0, <2>1, <2>own, <1>6 DEF IsGone, Minds, SparesOthers, TargetMoves
  <2>3. ASSUME u \in clone'
        PROVE  \E q \in Op \ {p} : request[q].target = u /\ journal'[q].state # "aborted"
    <3>1. CASE u \in clone
      <4>1. PICK q \in Op \ {p} : request[q].target = u /\ journal[q].state # "aborted"
        BY <2>1, <3>1 DEF IsGone
      <4>2. q # o => journal'[q] = journal[q]
        BY DEF Minds, SparesOthers
      <4>3. journal[o].state # "aborted" /\ t \in clone => journal'[o].state # "aborted"
        BY <1>move, <1>inv, <1>o DEF RowMoves, Following, Unfinished, RowIsSound, CanGoOn
      <4> QED BY <4>1, <4>2, <4>3, <3>1, <1>o
    <3>2. CASE u \notin clone
      <4>1. u = t
        BY <2>0, <2>3, <3>2 DEF Minds, SparesOthers
      <4>2. journal'[o].state # "aborted"
        BY <2>own, <2>3, <3>2, <4>1 DEF Minds, TargetMoves
      <4> QED BY <4>1, <4>2, <1>o, <1>6
    <3> QED BY <3>1, <3>2
  <2> QED BY <2>2, <2>3, <1>same DEF IsGone
<1> QED
  BY <1>1, <1>2, <1>3, <1>4, <1>5, <1>6 DEF RowIsSound

-----------------------------------------------------------------------------
(* Shapes of steps.                                                        *)

\* Of the calls only that of h changes, to c.
Turns(h, c) == call' = [call EXCEPT ![h] = c]

\* A step that touches nothing but its call, the source and the lease of its target.
Quiet == UNCHANGED <<asked, journal, staging, world, up>>

LEMMA QuietStep ==
  ASSUME ForkAssumption, ForkInv, NEW h \in Host, Busy(h), Quiet, NEW c \in Call, Turns(h, c),
         source' \in {source, h, NoHost}, 
         \/ lock' = lock
         \/ /\ lock[TargetOf(h)] \in {NoHost, h}
            /\ \/ lock' = [lock EXCEPT ![TargetOf(h)] = h]
               \/ lock' = [lock EXCEPT ![TargetOf(h)] = NoHost]
  PROVE  TypeOK' /\ Minds(h) /\ call'[h] = c
<1>1. TypeOK /\ CallIsSound(h)
  BY DEF ForkInv
<1>2. OpOf(h) \in Op /\ TargetOf(h) \in Target
  BY <1>1 DEF CallIsSound, IsAsked
<1>3. call'[h] = c /\ \A g \in Host \ {h} : call'[g] = call[g]
  BY <1>1 DEF Turns, TypeOK
<1>4. TypeOK'
  <2>1. lock' \in [Target -> Host \cup {NoHost}]
    <3>1. lock \in [Target -> Host \cup {NoHost}]
      BY <1>1 DEF TypeOK
    <3>2. /\ [lock EXCEPT ![TargetOf(h)] = h] \in [Target -> Host \cup {NoHost}]
          /\ [lock EXCEPT ![TargetOf(h)] = NoHost] \in [Target -> Host \cup {NoHost}]
      BY <3>1
    <3> QED BY <3>1, <3>2
  <2>2. call' \in [Host -> Call] /\ source' \in Host \cup {NoHost}
    BY <1>1 DEF TypeOK, Turns
  <2> QED
    BY <1>1, <2>1, <2>2 DEF TypeOK, Quiet, asked, world
<1>5. Minds(h)
  BY <1>1, <1>2, <1>3 DEF TypeOK, Quiet, asked, world, Minds, SparesCalls, SparesOthers, NeedsLease,
      TargetMoves, RowMoves
<1> QED BY <1>3, <1>4, <1>5

\* A step that writes the row of its operation, in the version it has read.
LEMMA WriteStep ==
  ASSUME ForkAssumption, ForkInv, NEW h \in Host, Busy(h), NEW row \in Row, NEW c \in Call,
         UNCHANGED <<asked, staging, world, lock, up>>, source' \in {source, NoHost},
         journal' = [journal EXCEPT ![OpOf(h)] = row],
         call' = [g \in Host |->
                    IF g = h THEN c
                    ELSE IF call[g].op = OpOf(h) THEN [call[g] EXCEPT !.fresh = FALSE]
                    ELSE call[g]],
         RowMoves(OpOf(h), row), row.state = "aborted" => call[h].step \in Leased
  PROVE  TypeOK' /\ Minds(h) /\ call'[h] = c /\ journal'[OpOf(h)] = row
<1>1. TypeOK /\ CallIsSound(h)
  BY DEF ForkInv
<1>2. OpOf(h) \in Op /\ TargetOf(h) \in Target
  BY <1>1 DEF CallIsSound, IsAsked
<1>3. /\ journal' \in [Op -> Row] /\ journal'[OpOf(h)] = row
      /\ \A p \in Op \ {OpOf(h)} : journal'[p] = journal[p]
  BY <1>1, <1>2 DEF TypeOK
<1>4. call' \in [Host -> Call]
  <2>1. ASSUME NEW g \in Host PROVE [call[g] EXCEPT !.fresh = FALSE] \in Call
    BY <1>1 DEF TypeOK, Call
  <2> QED BY <1>1, <2>1 DEF TypeOK
<1>5. TypeOK'
  BY <1>1, <1>3, <1>4 DEF TypeOK, asked, world
<1>6. SparesCalls(h)
  BY DEF SparesCalls
<1>7. Minds(h)
  BY <1>3, <1>6 DEF asked, world, Minds, SparesOthers, NeedsLease, TargetMoves
<1> QED BY <1>3, <1>5, <1>7

\* What is known of a call that does something, and of its operation.
Known(h) ==
  LET o == OpOf(h)
      t == TargetOf(h)
  IN /\ TypeOK /\ Busy(h) /\ CallIsSound(h) /\ RowIsSound(o)
     /\ call[h] \in Call /\ o \in Op /\ t \in Target /\ t = request[o].target
     /\ call[h].op = o
     /\ call[h].what \in {"fork", "recover", "retry", "abort", "settle"}
     /\ journal[o] \in Row /\ journal[o].state \in Unfinished \cup Terminal \cup {"absent"}
     /\ staging[o] \in Staging
     /\ runtime[t] \in [of : Op \cup {NoOp}, part : Part]
LEMMA Knowledge ==
  ASSUME ForkInv, NEW h \in Host, Busy(h)
  PROVE  Known(h)
<1>1. TypeOK /\ CallIsSound(h)
  BY DEF ForkInv
<1>2. OpOf(h) \in Op /\ TargetOf(h) \in Target
  BY <1>1 DEF CallIsSound, IsAsked
<1>3. call[h] \in Call /\ call[h].what # "none"
  BY <1>1 DEF TypeOK, CallIsSound, IsAsked
<1> QED BY <1>1, <1>2, <1>3 DEF Known, ForkInv, TypeOK, Call, Row, What, OpOf, TargetOf

\* The proofs end so.
Keeps(h) == TypeOK' /\ Minds(h) /\ CallIsSound(h)'

-----------------------------------------------------------------------------
(* A call ends, gives up or throws.                                        *)

LEMMA GivesUpKeeps ==
  ASSUME ForkAssumption, ForkInv, NEW h \in Host, Busy(h), GivesUp(h),
         UNCHANGED <<asked, staging, world, lock, up>>
  PROVE  Keeps(h)
<1>1. Idle \in Call
  BY DEF Idle, Call, What, Step
<1>2. TypeOK' /\ Minds(h) /\ call'[h] = Idle
  BY <1>1, QuietStep DEF GivesUp, Turns, Quiet
<1> QED BY <1>2, IdleIsSound DEF Keeps

LEMMA ThrowsKeeps ==
  ASSUME ForkAssumption, ForkInv, NEW h \in Host, call[h].step \in Leased, Throws(h),
         UNCHANGED <<asked, staging, world, lock, source, up>>
  PROVE  Keeps(h)
<1>1. Busy(h)
  BY DEF Busy, Leased
<1>k. Known(h)
  BY <1>1, Knowledge
<1> DEFINE c == [call[h] EXCEPT !.step = "throw", !.at = "thrown", !.fresh = FALSE]
<1>2. /\ c \in Call /\ c.step = "throw" /\ c.at = "thrown" /\ ~c.fresh
      /\ c.op = OpOf(h) /\ c.what = call[h].what
  BY <1>k DEF Known, Call, Step, Leased, OpOf
<1>3. TypeOK' /\ Minds(h) /\ call'[h] = c
  <2>1. Turns(h, c) /\ Quiet
    BY DEF Throws, Turns, Quiet
  <2> HIDE DEF c
  <2> QED BY <1>1, <1>2, <2>1, QuietStep
<1>4. /\ request' = request /\ journal' = journal /\ lock' = lock
      /\ OpOf(h)' = OpOf(h) /\ TargetOf(h)' = TargetOf(h) /\ Busy(h)'
  BY <1>2, <1>3 DEF Throws, asked, OpOf, TargetOf, Busy
<1>5. HasRow(OpOf(h)) /\ lock[TargetOf(h)] = h
      /\ (call[h].what = "settle" => request[OpOf(h)].kind \in Settling)
  BY <1>k DEF Known, CallIsSound, ReadsTrue, HoldsLease, FitsRow, Leased
<1>6. IsAsked(h)' /\ HoldsLease(h)' /\ ReadsTrue(h)' /\ FitsRow(h)'
  BY <1>k, <1>2, <1>3, <1>4, <1>5
     DEF Known, IsAsked, HoldsLease, ReadsTrue, FitsRow, HasRow, Working, CallIsSound
<1>7. HasBundle(h)' /\ KnowsTarget(h)' /\ HasEffect(h)'
  BY <1>2, <1>3 DEF HasBundle, KnowsTarget, HasEffect
<1> QED BY <1>3, <1>6, <1>7 DEF Keeps, CallIsSound

\* The end of a call, with what has become of the row as it knows: the row is there unless
\* the fork is the first to try, and a settlement looks at what it can settle.
EndsWell(h, at) ==
  /\ at \in Terminal \cup {"thrown"}
  /\ call[h].fresh => at \in {journal[OpOf(h)].state, "thrown"}
  /\ call[h].what = "settle" => HasRow(OpOf(h))
LEMMA EndKeeps ==
  ASSUME ForkAssumption, ForkInv, NEW h \in Host, Busy(h), NEW at, Ends(h, at), EndsWell(h, at),
         Quiet,
         \/ lock' = lock
         \/ lock[TargetOf(h)] = h /\ lock' = [lock EXCEPT ![TargetOf(h)] = NoHost]
  PROVE  Keeps(h)
<1>k. Known(h)
  BY Knowledge
<1>1. CASE ~GoesOn(h, at)
  <2>1. Idle \in Call
    BY DEF Idle, Call, What, Step
  <2>2. TypeOK' /\ Minds(h) /\ call'[h] = Idle
    BY <1>1, <2>1, QuietStep DEF Ends, Turns
  <2> QED BY <2>2, IdleIsSound DEF Keeps
<1>2. CASE GoesOn(h, at)
  <2> DEFINE s == IF call[h].what = "fork" THEN "find"
                  ELSE IF at = "thrown" THEN "reread" ELSE "look"
             c == [call[h] EXCEPT !.what = "settle", !.at = at, !.step = s]
  <2>1. /\ s \in {"find", "reread", "look"} /\ s \in Step
        /\ s # "find" => call[h].what = "settle"
        /\ s = "look" => at \in {"aborted", "needs_attention"}
    BY <1>2 DEF GoesOn, EndsWell, Terminal, Step
  <2>2. /\ c \in Call /\ c.step = s /\ c.at = at /\ c.fresh = call[h].fresh
        /\ c.op = OpOf(h) /\ c.what = "settle"
    BY <1>k, <2>1 DEF Known, Call, What, EndsWell
  <2>3. TypeOK' /\ Minds(h) /\ call'[h] = c
    <3>1. Turns(h, c) /\ source' = source
      BY <1>2 DEF Ends, Turns
    <3> HIDE DEF c
    <3> QED BY <2>2, <3>1, QuietStep
  <2>4. /\ request' = request /\ journal' = journal
        /\ OpOf(h)' = OpOf(h) /\ TargetOf(h)' = TargetOf(h) /\ Busy(h)'
    BY <2>1, <2>2, <2>3 DEF Quiet, asked, OpOf, TargetOf, Busy
  <2>5. request[OpOf(h)].kind \in Settling
    BY <1>2, <1>k DEF GoesOn, Known, CallIsSound, FitsRow
  <2> HIDE DEF s, c
  <2>6. IsAsked(h)' /\ ReadsTrue(h)' /\ FitsRow(h)'
    BY <1>k, <2>1, <2>2, <2>3, <2>4, <2>5
       DEF Known, IsAsked, ReadsTrue, FitsRow, HasRow, Working, EndsWell, CallIsSound
  <2>7. HoldsLease(h)' /\ HasBundle(h)' /\ KnowsTarget(h)' /\ HasEffect(h)'
    BY <2>1, <2>2, <2>3 DEF HoldsLease, HasBundle, KnowsTarget, HasEffect, Leased
  <2> QED BY <2>3, <2>6, <2>7 DEF Keeps, CallIsSound
<1> QED BY <1>1, <1>2

-----------------------------------------------------------------------------
(* The steps that only turn a call.                                        *)

\* A call may go on as c when nothing but itself has changed.
Suits(h, c) ==
  LET o == OpOf(h) IN
  /\ c \in Call /\ c.op = o /\ c.what # "none"
  /\ c.step \notin {"none", "insert", "note", "fill", "finish", "advance", "erase", "unclone",
                   "drop"}
  /\ c.what = "settle" => call[h].what = "settle"
  /\ c.step = "freeze" => c.what = "fork"
  /\ c.step \notin {"freeze", "find"} => HasRow(o)
  /\ c.fresh => HasRow(o) /\ c.at \in {journal[o].state, "thrown"}
  /\ c.step \in {"reload", "lease", "owned"} => c.what \in Forward \/ c.at = "needs_attention"
  /\ c.step \in {"restore", "cleanup", "only", "throw"} => c.at = "needs_attention"
  /\ c.step \in {"check", "seal"} => c.at \in Unfinished
  /\ c.step = "apply" => c.at = "prepared"
  /\ c.step = "clone" => c.at = "workspace_applied"
  /\ c.step \in {"open", "commit"} => c.at = "sidecars_committed"
  /\ c.step = "look" => c.at \in Unfinished \cup {"aborted", "needs_attention"}
  /\ c.step = "release" => c.at \in Terminal
  /\ c.step \in {"clean", "tidy"} => c.at = "completed" /\ journal[o].state = "completed"
  /\ c.step \in Working => journal[o].state # "aborted"
  /\ c.step \in {"find", "reread", "look", "commit", "seal", "only"} => c.what = "settle"
  /\ c.step = "open" => OwnsRuntime(o)
  /\ c.step = "commit" => IsPublished(TargetOf(h))

LEMMA TurnKeeps ==
  ASSUME ForkAssumption, ForkInv, NEW h \in Host, Busy(h), Quiet, NEW c, Turns(h, c), Suits(h, c),
         source' \in {source, h, NoHost},
         \/ lock' = lock
         \/ lock[TargetOf(h)] \in {NoHost, h} /\ lock' = [lock EXCEPT ![TargetOf(h)] = h],
         c.step \in Leased => lock'[TargetOf(h)] = h
  PROVE  Keeps(h)
<1>k. Known(h)
  BY Knowledge
<1>1. TypeOK' /\ Minds(h) /\ call'[h] = c
  BY QuietStep DEF Suits
<1>2. /\ request' = request /\ journal' = journal /\ runtime' = runtime /\ goal' = goal
      /\ OpOf(h)' = OpOf(h) /\ TargetOf(h)' = TargetOf(h) /\ Busy(h)'
  BY <1>1 DEF Quiet, asked, world, OpOf, TargetOf, Busy, Suits
<1>3. IsAsked(h)' /\ HoldsLease(h)' /\ HasBundle(h)' /\ HasEffect(h)'
  BY <1>k, <1>1, <1>2 DEF Known, IsAsked, HoldsLease, HasBundle, HasEffect, Suits
<1>4. KnowsTarget(h)'
  BY <1>k, <1>1, <1>2 DEF Known, KnowsTarget, OwnsRuntime, IsPublished, Suits
<1>5. ReadsTrue(h)'
  BY <1>1, <1>2 DEF ReadsTrue, HasRow, Suits
<1>6. FitsRow(h)'
  BY <1>k, <1>1, <1>2 DEF Known, CallIsSound, FitsRow, OutOfTheWay, Forward, Suits
<1> QED BY <1>1, <1>3, <1>4, <1>5, <1>6 DEF Keeps, CallIsSound

LEMMA ReloadKeeps ==
  ASSUME ForkAssumption, ForkInv, NEW h \in Host, Reload(h)
  PROVE  Keeps(h)
<1>b. Busy(h) /\ call[h].step = "reload" /\ Quiet
  BY DEF Reload, At, Busy, Quiet
<1>k. Known(h)
  BY <1>b, Knowledge
<1>r. HasRow(OpOf(h))
  BY <1>b, <1>k DEF Known, CallIsSound, ReadsTrue
<1>1. CASE Returns(h) /\ journal[OpOf(h)].state = "completed"
  <2> DEFINE c == [call[h] EXCEPT !.step = "tidy", !.at = "completed", !.fresh = TRUE]
  <2>1. Turns(h, c) /\ source' = source /\ lock' = lock
    BY <1>1 DEF Returns, Reads, Turns, Reload
  <2>2. Suits(h, c) /\ c.step \notin Leased
    BY <1>b, <1>k, <1>r, <1>1 DEF Known, Suits, Call, Step, Unfinished, Terminal, Working, Leased
  <2> HIDE DEF c
  <2> QED BY <1>b, <2>1, <2>2, TurnKeeps
<1>2. CASE Returns(h) /\ journal[OpOf(h)].state # "completed"
  <2>1. Ends(h, journal[OpOf(h)].state) /\ lock' = lock
    BY <1>2 DEF Returns, Reload
  <2>2. EndsWell(h, journal[OpOf(h)].state)
    BY <1>2, <1>r DEF Returns, EndsWell
  <2> QED BY <1>b, <2>1, <2>2, EndKeeps
<1>3. CASE journal[OpOf(h)].state \in Unfinished /\ Goes(h, "lease") /\ UNCHANGED source
  <2> DEFINE c == [call[h] EXCEPT !.step = "lease"]
  <2>1. Turns(h, c) /\ source' = source /\ lock' = lock
    BY <1>3 DEF Goes, Turns, Reload
  <2>2. Suits(h, c) /\ c.step \notin Leased
    BY <1>b, <1>k, <1>r DEF Known, CallIsSound, ReadsTrue, FitsRow, Suits, Call, Step, Unfinished,
       Terminal, Working, Leased, Forward
  <2> HIDE DEF c
  <2> QED BY <1>b, <2>1, <2>2, TurnKeeps
<1> QED BY <1>1, <1>2, <1>3 DEF Reload

LEMMA AcquireLeaseKeeps ==
  ASSUME ForkAssumption, ForkInv, NEW h \in Host, AcquireLease(h)
  PROVE  Keeps(h)
<1>b. Busy(h) /\ call[h].step = "lease" /\ Quiet
  BY DEF AcquireLease, At, Busy, Quiet
<1>k. Known(h)
  BY <1>b, Knowledge
<1> DEFINE c == [call[h] EXCEPT !.step = "owned"]
<1>1. /\ Turns(h, c) /\ source' = source /\ lock[TargetOf(h)] = NoHost
      /\ lock' = [lock EXCEPT ![TargetOf(h)] = h]
  BY DEF AcquireLease, Goes, Turns, LockFree
<1>2. Suits(h, c)
  BY <1>b, <1>k DEF Known, CallIsSound, ReadsTrue, FitsRow, Suits, Call, Step, Leased, Unfinished,
     Terminal, Working, Forward
<1>3. lock'[TargetOf(h)] = h
  BY <1>k, <1>1 DEF Known, TypeOK
<1> HIDE DEF c
<1> QED BY <1>b, <1>1, <1>2, <1>3, TurnKeeps

LEMMA LeaseTimeoutKeeps ==
  ASSUME ForkAssumption, ForkInv, NEW h \in Host, LeaseTimeout(h)
  PROVE  Keeps(h)
<1>b. Busy(h) /\ call[h].step = "lease" /\ Quiet
  BY DEF LeaseTimeout, At, Busy, Quiet
<1>k. Known(h)
  BY <1>b, Knowledge
<1>r. HasRow(OpOf(h))
  BY <1>b, <1>k DEF Known, CallIsSound, ReadsTrue
<1>1. CASE Returns(h) /\ journal[OpOf(h)].state = "completed"
  <2> DEFINE c == [call[h] EXCEPT !.step = "tidy", !.at = "completed", !.fresh = TRUE]
  <2>1. Turns(h, c) /\ source' = source /\ lock' = lock
    BY <1>1 DEF Returns, Reads, Turns, LeaseTimeout, Unfinished
  <2>2. Suits(h, c) /\ c.step \notin Leased
    BY <1>b, <1>k, <1>r, <1>1 DEF Known, Suits, Call, Step, Unfinished, Terminal, Working, Leased
  <2> HIDE DEF c
  <2> QED BY <1>b, <2>1, <2>2, TurnKeeps
<1>2. CASE Returns(h) /\ journal[OpOf(h)].state # "completed"
  <2>1. Ends(h, journal[OpOf(h)].state) /\ lock' = lock
    BY <1>2 DEF Returns, LeaseTimeout
  <2>2. EndsWell(h, journal[OpOf(h)].state)
    BY <1>2, <1>r DEF Returns, EndsWell
  <2> QED BY <1>b, <2>1, <2>2, EndKeeps
<1>3. CASE Ends(h, "thrown")
  <2>1. EndsWell(h, "thrown") /\ lock' = lock
    BY <1>r DEF EndsWell, LeaseTimeout
  <2> QED BY <1>b, <1>3, <2>1, EndKeeps
<1> QED BY <1>1, <1>2, <1>3 DEF LeaseTimeout

LEMMA OwnedKeeps ==
  ASSUME ForkAssumption, ForkInv, NEW h \in Host, Owned(h)
  PROVE  Keeps(h)
<1>b. Busy(h) /\ call[h].step = "owned" /\ Quiet /\ source' = source /\ lock' = lock
  BY DEF Owned, At, Busy, Quiet
<1>k. Known(h)
  BY <1>b, Knowledge
<1>r. HasRow(OpOf(h)) /\ lock[TargetOf(h)] = h
  BY <1>b, <1>k DEF Known, CallIsSound, ReadsTrue, HoldsLease, Leased
<1>1. ASSUME NEW s \in Step, Reads(h, s), call[h].what \in Forward,
             s = IF journal[OpOf(h)].state \in Unfinished THEN "check"
                 ELSE IF journal[OpOf(h)].state = "completed" THEN "clean" ELSE "release"
      PROVE  Keeps(h)
  <2> DEFINE c == [call[h] EXCEPT !.step = s, !.at = journal[OpOf(h)].state, !.fresh = TRUE]
  <2>1. Turns(h, c)
    BY <1>1 DEF Reads, Turns
  <2>2. Suits(h, c)
    <3>1. /\ c \in Call /\ c.op = OpOf(h) /\ c.what = call[h].what /\ c.step = s /\ c.fresh
          /\ c.at = journal[OpOf(h)].state
      BY <1>1, <1>k DEF Known, Call
    <3>2. c.at \in Unfinished \cup Terminal
      BY <1>k, <1>r, <3>1 DEF Known, HasRow
    <3> HIDE DEF c
    <3> QED BY <1>1, <1>k, <1>r, <3>1, <3>2 DEF Known, Suits, Unfinished, Terminal, Working
  <2> HIDE DEF c
  <2> QED BY <1>b, <1>r, <2>1, <2>2, TurnKeeps
<1>2. ASSUME NEW s \in {"throw", "restore", "cleanup"}, Goes(h, s), call[h].what \notin Forward
      PROVE  Keeps(h)
  <2> DEFINE c == [call[h] EXCEPT !.step = s]
  <2>1. Turns(h, c)
    BY <1>2 DEF Goes, Turns
  <2>2. Suits(h, c)
    BY <1>2, <1>b, <1>k, <1>r
       DEF Known, CallIsSound, ReadsTrue, FitsRow, Suits, Call, Step, Leased, Unfinished, Terminal,
           Working, Forward
  <2> HIDE DEF c
  <2> QED BY <1>b, <1>r, <2>1, <2>2, TurnKeeps
<1> QED
  BY <1>1, <1>2 DEF Owned, Step, Leased

LEMMA ReleasedKeeps ==
  ASSUME ForkAssumption, ForkInv, NEW h \in Host, Released(h)
  PROVE  Keeps(h)
<1>b. Busy(h) /\ call[h].step \in {"release", "throw"} /\ Quiet
  BY DEF Released, At, Busy, Quiet
<1>k. Known(h)
  BY <1>b, Knowledge
<1>1. lock[TargetOf(h)] = h
  BY <1>b, <1>k DEF Known, CallIsSound, HoldsLease, Leased
<1>2. EndsWell(h, call[h].at)
  BY <1>b, <1>k DEF Known, CallIsSound, ReadsTrue, FitsRow, EndsWell, Terminal
<1> QED BY <1>b, <1>1, <1>2, EndKeeps DEF Released

LEMMA FindCandidateKeeps ==
  ASSUME ForkAssumption, ForkInv, NEW h \in Host, FindCandidate(h)
  PROVE  Keeps(h)
<1>b. /\ Busy(h) /\ call[h].step = "find" /\ UNCHANGED <<asked, staging, world, lock, up>>
      /\ lock' = lock
  BY DEF FindCandidate, At, Busy
<1>k. Known(h)
  BY <1>b, Knowledge
<1>1. CASE GivesUp(h)
  BY <1>1, <1>b, GivesUpKeeps
<1>2. ASSUME NEW s \in {"reload", "look"}, Reads(h, s), UNCHANGED <<journal, source>>,
             journal[OpOf(h)].state \notin {"absent", "completed"},
             s = IF journal[OpOf(h)].state \in Unfinished THEN "reload" ELSE "look"
      PROVE  Keeps(h)
  <2> DEFINE c == [call[h] EXCEPT !.step = s, !.at = journal[OpOf(h)].state, !.fresh = TRUE]
  <2>1. Turns(h, c) /\ Quiet
    BY <1>b, <1>2 DEF Reads, Turns, Quiet
  <2>2. Suits(h, c) /\ c.step \notin Leased
    BY <1>2, <1>b, <1>k DEF Known, CallIsSound, FitsRow, Suits, Call, Step, Leased, Unfinished,
       Terminal, Working, Forward, HasRow
  <2> HIDE DEF c
  <2> QED BY <1>b, <1>2, <2>1, <2>2, TurnKeeps
<1> QED
  BY <1>1, <1>2 DEF FindCandidate

LEMMA RereadKeeps ==
  ASSUME ForkAssumption, ForkInv, NEW h \in Host, Reread(h)
  PROVE  Keeps(h)
<1>b. /\ Busy(h) /\ call[h].step = "reread" /\ UNCHANGED <<asked, staging, world, lock, up>>
      /\ lock' = lock
  BY DEF Reread, At, Busy
<1>k. Known(h)
  BY <1>b, Knowledge
<1>1. CASE GivesUp(h)
  BY <1>1, <1>b, GivesUpKeeps
<1>2. CASE /\ Reads(h, "look") /\ UNCHANGED <<journal, source>>
           /\ journal[OpOf(h)].state # "completed"
  <2> DEFINE c == [call[h] EXCEPT !.step = "look", !.at = journal[OpOf(h)].state, !.fresh = TRUE]
  <2>1. Turns(h, c) /\ Quiet /\ source' = source
    BY <1>b, <1>2 DEF Reads, Turns, Quiet
  <2>2. Suits(h, c) /\ c.step \notin Leased
    BY <1>2, <1>b, <1>k DEF Known, CallIsSound, ReadsTrue, FitsRow, Suits, Call, Step, Leased,
       Unfinished, Terminal, Working, HasRow
  <2> HIDE DEF c
  <2> QED BY <1>b, <2>1, <2>2, TurnKeeps
<1> QED
  BY <1>1, <1>2 DEF Reread

LEMMA LookKeeps ==
  ASSUME ForkAssumption, ForkInv, NEW h \in Host, Look(h)
  PROVE  Keeps(h)
<1>b. /\ Busy(h) /\ call[h].step = "look" /\ UNCHANGED <<asked, staging, world, lock, up>>
      /\ lock' = lock
  BY DEF Look, At, Busy
<1>k. Known(h)
  BY <1>b, Knowledge
<1>1. CASE GivesUp(h)
  BY <1>1, <1>b, GivesUpKeeps
<1>2. ASSUME NEW s \in {"commit", "seal", "only"}, Goes(h, s), UNCHANGED <<journal, source>>,
             s = "commit" => IsPublished(TargetOf(h)) /\ call[h].at = "sidecars_committed",
             s = "seal" => call[h].at \in Unfinished,
             s = "only" => call[h].at \notin Unfinished \cup {"aborted"}
      PROVE  Keeps(h)
  <2> DEFINE c == [call[h] EXCEPT !.step = s]
  <2>1. Turns(h, c) /\ Quiet
    BY <1>b, <1>2 DEF Goes, Turns, Quiet
  <2>2. Suits(h, c) /\ c.step \notin Leased
    BY <1>2, <1>b, <1>k DEF Known, CallIsSound, ReadsTrue, FitsRow, Suits, Call, Step, Leased,
       Unfinished, Terminal, Working
  <2> HIDE DEF c
  <2> QED BY <1>b, <1>2, <2>1, <2>2, TurnKeeps
<1> QED
  BY <1>1, <1>2 DEF Look

-----------------------------------------------------------------------------
(* The steps that write a row.                                             *)

\* A call has written a row and goes on as c.
Fits(h, row, c) ==
  /\ row \in Row /\ c \in Call /\ c.op = OpOf(h) /\ c.what = call[h].what
  /\ c.at = row.state /\ c.fresh
  /\ RowMoves(OpOf(h), row)
  /\ row.state \in Unfinished \cup Terminal
  /\ row.state = "aborted" => call[h].step \in Leased
  /\ call[h].step \in Leased <=> c.step \in Leased
  /\ \/ c.step = "check" /\ row.state \in Unfinished
     \/ c.step = "release" /\ row.state \in Terminal
     \/ c.step = "clean" /\ row.state \in {"completed", "aborted"}
     \/ c.step = "only" /\ row.state = "needs_attention" /\ c.what = "settle"
LEMMA WriteKeeps ==
  ASSUME ForkAssumption, ForkInv, NEW h \in Host, Busy(h), NEW row, NEW c, Fits(h, row, c),
         UNCHANGED <<asked, staging, world, lock, source, up>>,
         journal' = [journal EXCEPT ![OpOf(h)] = row],
         call' = [g \in Host |->
                    IF g = h THEN c
                    ELSE IF call[g].op = OpOf(h) THEN [call[g] EXCEPT !.fresh = FALSE]
                    ELSE call[g]]
  PROVE  Keeps(h)
<1>k. Known(h)
  BY Knowledge
<1>1. TypeOK' /\ Minds(h) /\ call'[h] = c /\ journal'[OpOf(h)] = row
  BY WriteStep DEF Fits
<1>2. /\ request' = request /\ lock' = lock /\ OpOf(h)' = OpOf(h) /\ TargetOf(h)' = TargetOf(h)
      /\ Busy(h)'
  BY <1>1 DEF asked, OpOf, TargetOf, Busy, Fits
<1>3. IsAsked(h)' /\ HoldsLease(h)' /\ HasBundle(h)' /\ KnowsTarget(h)' /\ HasEffect(h)'
  BY <1>k, <1>1, <1>2
     DEF Known, CallIsSound, IsAsked, HoldsLease, HasBundle, KnowsTarget, HasEffect, Fits
<1>4. ReadsTrue(h)'
  BY <1>1, <1>2 DEF ReadsTrue, HasRow, Fits, Unfinished, Terminal
<1>5. FitsRow(h)'
  BY <1>k, <1>1, <1>2
     DEF Known, CallIsSound, FitsRow, OutOfTheWay, Working, Fits, Unfinished, Terminal
<1> QED BY <1>1, <1>3, <1>4, <1>5 DEF Keeps, CallIsSound

\* What a call writes with WritesRow, and how it goes on.
LEMMA WritesRowKeeps ==
  ASSUME ForkAssumption, ForkInv, NEW h \in Host, Busy(h), NEW row, NEW s,
         WritesRow(h, row, s), UNCHANGED <<asked, staging, world, lock, source, up>>,
         Fits(h, row, [call[h] EXCEPT !.step = s, !.at = row.state])
  PROVE  Keeps(h)
<1>1. call' = [g \in Host |->
                 IF g = h THEN [call[h] EXCEPT !.step = s, !.at = row.state]
                 ELSE IF call[g].op = OpOf(h) THEN [call[g] EXCEPT !.fresh = FALSE]
                 ELSE call[g]]
  BY DEF WritesRow
<1> QED
  BY <1>1, WriteKeeps DEF WritesRow

LEMMA ConflictKeeps ==
  ASSUME ForkAssumption, ForkInv, NEW h \in Host, NEW b \in BOOLEAN, Conflict(h, b),
         call[h].step \in {"check", "apply", "clone", "open"},
         UNCHANGED <<asked, staging, world, lock, source, up>>
  PROVE  Keeps(h)
<1>b. Busy(h) /\ call[h].step \in Leased
  BY DEF Busy, Leased
<1>k. Known(h)
  BY <1>b, Knowledge
<1>1. CASE Throws(h)
  BY <1>1, <1>b, ThrowsKeeps
<1>2. CASE ~Throws(h)
  <2> DEFINE row == [journal[OpOf(h)] EXCEPT !.state = "needs_attention", !.phase = call[h].at,
                                             !.lost = b]
             c == [call[h] EXCEPT !.step = "release", !.at = row.state]
  <2>1. WritesRow(h, row, "release") /\ call[h].fresh
    BY <1>2 DEF Conflict, WritesRow
  <2>2. call[h].at \in Unfinished /\ journal[OpOf(h)].state = call[h].at
    BY <2>1, <1>k DEF Known, CallIsSound, ReadsTrue, FitsRow, Unfinished
  <2>3. /\ row \in Row /\ row.state = "needs_attention" /\ row.phase = call[h].at
        /\ c \in Call /\ c.op = OpOf(h) /\ c.what = call[h].what /\ c.at = row.state
        /\ c.step = "release" /\ c.fresh
    BY <2>1, <2>2, <1>k DEF Known, Row, Call, Terminal, Step, Leased
  <2> HIDE DEF row
  <2>4. Fits(h, row, c)
    BY <2>2, <2>3, <1>b DEF Fits, RowMoves, Terminal, Leased
  <2> QED BY <1>b, <2>1, <2>4, WritesRowKeeps
<1> QED BY <1>1, <1>2

LEMMA RestoreKeeps ==
  ASSUME ForkAssumption, ForkInv, NEW h \in Host, Restore(h)
  PROVE  Keeps(h)
<1>b. /\ Busy(h) /\ call[h].step = "restore" /\ call[h].step \in Leased
      /\ UNCHANGED <<asked, staging, world, lock, source, up>>
  BY DEF Restore, At, Busy, Leased
<1>k. Known(h)
  BY <1>b, Knowledge
<1> DEFINE row == [journal[OpOf(h)] EXCEPT !.state = journal[OpOf(h)].phase, !.phase = "none",
                                           !.lost = FALSE]
           c == [call[h] EXCEPT !.step = "check", !.at = row.state]
<1>1. CASE Throws(h)
  BY <1>1, <1>b, ThrowsKeeps
<1>2. CASE WritesRow(h, row, "check")
  <2>1. journal[OpOf(h)].state = "needs_attention" /\ journal[OpOf(h)].phase \in Unfinished
        /\ call[h].fresh
    BY <1>2, <1>b, <1>k
       DEF Known, CallIsSound, ReadsTrue, FitsRow, RowIsSound, CanGoOn, WritesRow
  <2>2. /\ row \in Row /\ row.state = journal[OpOf(h)].phase
        /\ c \in Call /\ c.op = OpOf(h) /\ c.what = call[h].what /\ c.at = row.state
        /\ c.step = "check" /\ c.fresh
    BY <2>1, <1>k DEF Known, Row, Call, Step, Leased
  <2> HIDE DEF row
  <2>3. Fits(h, row, c)
    BY <2>1, <2>2, <1>b DEF Fits, RowMoves, Leased, Unfinished
  <2> QED BY <1>2, <1>b, <2>3, WritesRowKeeps
<1> QED BY <1>1, <1>2 DEF Restore

LEMMA DropKeeps ==
  ASSUME ForkAssumption, ForkInv, NEW h \in Host, Drop(h)
  PROVE  Keeps(h)
<1>b. /\ Busy(h) /\ call[h].step = "drop" /\ call[h].step \in Leased
      /\ UNCHANGED <<asked, staging, world, lock, source, up>>
  BY DEF Drop, At, Busy, Leased
<1>k. Known(h)
  BY <1>b, Knowledge
<1> DEFINE row == [journal[OpOf(h)] EXCEPT !.state = "aborted"]
           c == [call[h] EXCEPT !.step = "clean", !.at = row.state]
<1>1. CASE Throws(h)
  BY <1>1, <1>b, ThrowsKeeps
<1>2. CASE WritesRow(h, row, "clean")
  <2>1. /\ journal[OpOf(h)].state = "needs_attention" /\ call[h].fresh
        /\ runtime[TargetOf(h)].of # OpOf(h) /\ TargetOf(h) \notin clone
    BY <1>2, <1>b, <1>k DEF Known, CallIsSound, ReadsTrue, FitsRow, KnowsTarget, WritesRow
  <2>2. /\ row \in Row /\ row.state = "aborted"
        /\ c \in Call /\ c.op = OpOf(h) /\ c.what = call[h].what /\ c.at = row.state
        /\ c.step = "clean" /\ c.fresh
    <3>1. row \in Row /\ row.state = "aborted"
      BY <1>k DEF Known, Row, Terminal
    <3> HIDE DEF row
    <3> QED BY <3>1, <2>1, <1>k DEF Known, Call, Step, Leased, Terminal
  <2> HIDE DEF row
  <2>3. Fits(h, row, c)
    BY <2>1, <2>2, <1>b, <1>k DEF Fits, RowMoves, Leased, Terminal, Known
  <2> QED BY <1>2, <1>b, <2>3, WritesRowKeeps
<1> QED BY <1>1, <1>2 DEF Drop

LEMMA AdvanceKeeps ==
  ASSUME ForkAssumption, ForkInv, NEW h \in Host, Advance(h)
  PROVE  Keeps(h)
<1>b. /\ Busy(h) /\ call[h].step = "advance" /\ call[h].step \in Leased
      /\ UNCHANGED <<asked, staging, world, lock, source, up>>
  BY DEF Advance, At, Busy, Leased
<1>k. Known(h)
  BY <1>b, Knowledge
<1> DEFINE next == Following(call[h].at)
           s == IF next = "completed" THEN "clean" ELSE "check"
           row == [journal[OpOf(h)] EXCEPT !.state = next]
           c == [call[h] EXCEPT !.step = s, !.at = row.state]
<1>1. CASE Throws(h)
  BY <1>1, <1>b, ThrowsKeeps
<1>2. CASE WritesRow(h, row, s)
  <2>1. /\ journal[OpOf(h)].state = call[h].at /\ call[h].at \in Unfinished /\ call[h].fresh
        /\ next \in Unfinished \cup {"completed"}
    BY <1>2, <1>b, <1>k
       DEF Known, CallIsSound, ReadsTrue, FitsRow, WritesRow, Following, Unfinished
  <2>2. /\ row \in Row /\ row.state = next
        /\ c \in Call /\ c.op = OpOf(h) /\ c.what = call[h].what /\ c.at = row.state
        /\ c.step = s /\ c.fresh
    BY <2>1, <1>k DEF Known, Row, Call, Step, Leased, Terminal
  <2>3. RowMoves(OpOf(h), row)
    <3>1. call[h].at = "workspace_applied" => staging[OpOf(h)] = "sidecars"
      BY <1>b, <1>k, <2>1 DEF Known, CallIsSound, HasBundle
    <3>2. call[h].at = "sidecars_committed" => IsWhole(OpOf(h))
      BY <1>b, <1>k, <2>1 DEF Known, CallIsSound, KnowsTarget, IsWhole
    <3>3. request[OpOf(h)].target \notin cleaned =>
            /\ call[h].at = "prepared" /\ request[OpOf(h)].kind = "both" => OpOf(h) \in applied
            /\ call[h].at = "workspace_applied" => request[OpOf(h)].target \in clone
      BY <1>b, <1>k, <2>1 DEF Known, CallIsSound, HasEffect
    <3> HIDE DEF row
    <3> QED BY <2>1, <2>2, <3>1, <3>2, <3>3 DEF RowMoves
  <2> HIDE DEF row, next
  <2>4. Fits(h, row, c)
    BY <2>1, <2>2, <2>3, <1>b DEF Fits, Leased, Terminal, Unfinished
  <2> QED BY <1>2, <1>b, <2>4, WritesRowKeeps
<1> QED BY <1>1, <1>2 DEF Advance

LEMMA SettleSealsKeeps ==
  ASSUME ForkAssumption, ForkInv, NEW h \in Host, SettleSeals(h)
  PROVE  Keeps(h)
<1>b. Busy(h) /\ call[h].step = "seal" /\ UNCHANGED <<asked, staging, world, lock, up>>
  BY DEF SettleSeals, At, Busy
<1>k. Known(h)
  BY <1>b, Knowledge
<1> DEFINE row == [journal[OpOf(h)] EXCEPT
                     !.state = "needs_attention", !.phase = call[h].at, !.lost = FALSE,
                     !.sealed = @ \/ request[OpOf(h)].kind = "both"]
           c == [call[h] EXCEPT !.step = "only", !.at = row.state]
<1>1. CASE GivesUp(h)
  BY <1>1, <1>b, GivesUpKeeps
<1>2. CASE WritesRow(h, row, "only") /\ UNCHANGED source
  <2>1. /\ journal[OpOf(h)].state = call[h].at /\ call[h].at \in Unfinished /\ call[h].fresh
        /\ call[h].what = "settle"
    BY <1>2, <1>b, <1>k DEF Known, CallIsSound, ReadsTrue, FitsRow, WritesRow, Unfinished
  <2>2. /\ row \in Row /\ row.state = "needs_attention" /\ row.phase = call[h].at
        /\ c \in Call /\ c.op = OpOf(h) /\ c.what = call[h].what /\ c.at = row.state
        /\ c.step = "only" /\ c.fresh
    BY <2>1, <1>k DEF Known, Row, Call, Step, Leased, Terminal
  <2> HIDE DEF row
  <2>3. Fits(h, row, c)
    BY <2>1, <2>2, <1>b DEF Fits, RowMoves, Leased, Terminal
  <2> QED BY <1>2, <1>b, <2>3, WritesRowKeeps
<1> QED BY <1>1, <1>2 DEF SettleSeals

LEMMA SettleAbandonsKeeps ==
  ASSUME ForkAssumption, ForkInv, NEW h \in Host, SettleAbandons(h)
  PROVE  Keeps(h)
<1>b. /\ Busy(h) /\ call[h].step = "only" /\ UNCHANGED <<asked, staging, world, lock, up>>
      /\ lock' = lock
  BY DEF SettleAbandons, At, Busy
<1>k. Known(h)
  BY <1>b, Knowledge
<1>1. CASE GivesUp(h)
  BY <1>1, <1>b, GivesUpKeeps
<1>2. CASE /\ call' = [call EXCEPT ![h].what = "abort", ![h].step = "lease"]
           /\ UNCHANGED <<journal, source>>
  <2> DEFINE c == [call[h] EXCEPT !.what = "abort", !.step = "lease"]
  <2>1. Turns(h, c) /\ Quiet /\ source' = source
    BY <1>2, <1>b DEF Turns, Quiet
  <2>2. Suits(h, c) /\ c.step \notin Leased
    BY <1>b, <1>k DEF Known, CallIsSound, ReadsTrue, FitsRow, Suits, Call, What, Step, Leased,
       Unfinished, Terminal, Working
  <2> HIDE DEF c
  <2> QED BY <1>b, <2>1, <2>2, TurnKeeps
<1>3. CASE /\ WritesRow(h, [journal[OpOf(h)] EXCEPT !.sealed = TRUE], "only")
           /\ UNCHANGED source
  <2> DEFINE row == [journal[OpOf(h)] EXCEPT !.sealed = TRUE]
             c == [call[h] EXCEPT !.step = "only", !.at = row.state]
  <2>1. /\ journal[OpOf(h)].state = "needs_attention" /\ call[h].fresh /\ call[h].what = "settle"
    BY <1>3, <1>b, <1>k DEF Known, CallIsSound, ReadsTrue, FitsRow, WritesRow
  <2>2. /\ row \in Row /\ row.state = "needs_attention" /\ row.phase = journal[OpOf(h)].phase
        /\ c \in Call /\ c.op = OpOf(h) /\ c.what = call[h].what /\ c.at = row.state
        /\ c.step = "only" /\ c.fresh
    BY <2>1, <1>k DEF Known, Row, Call, Step, Leased, Terminal
  <2> HIDE DEF row
  <2>3. Fits(h, row, c)
    BY <2>1, <2>2, <1>b DEF Fits, RowMoves, Leased, Terminal
  <2>4. WritesRow(h, row, "only")
    BY <1>3 DEF row
  <2> QED BY <1>3, <1>b, <2>3, <2>4, WritesRowKeeps
<1> QED BY <1>1, <1>2, <1>3 DEF SettleAbandons

LEMMA SettleCommitsKeeps ==
  ASSUME ForkAssumption, ForkInv, NEW h \in Host, SettleCommits(h)
  PROVE  Keeps(h)
<1>b. /\ Busy(h) /\ call[h].step = "commit" /\ UNCHANGED <<asked, staging, world, lock, up>>
      /\ lock' = lock
  BY DEF SettleCommits, At, Busy
<1>k. Known(h)
  BY <1>b, Knowledge
<1> DEFINE row == [journal[OpOf(h)] EXCEPT !.state = "completed"]
<1>1. CASE GivesUp(h)
  BY <1>1, <1>b, GivesUpKeeps
<1>2. CASE ~GivesUp(h)
  <2>1. /\ call[h].fresh /\ journal' = [journal EXCEPT ![OpOf(h)] = row]
        /\ call' = [g \in Host |->
                      IF g = h THEN Idle
                      ELSE IF call[g].op = OpOf(h) THEN [call[g] EXCEPT !.fresh = FALSE]
                      ELSE call[g]]
        /\ source' \in {source, NoHost}
    BY <1>2 DEF SettleCommits
  <2>2. /\ call[h].at = "sidecars_committed" /\ journal[OpOf(h)].state = "sidecars_committed"
        /\ call[h].what = "settle" /\ request[OpOf(h)].kind \in Settling
        /\ runtime[TargetOf(h)].part = "published"
    BY <2>1, <1>b, <1>k DEF Known, CallIsSound, ReadsTrue, FitsRow, KnowsTarget
  <2>3. row \in Row /\ row.state = "completed"
    BY <1>k DEF Known, Row, Terminal
  <2>4. IsWhole(OpOf(h))
    <3>1. /\ runtime[TargetOf(h)].of \in Op
          /\ request[runtime[TargetOf(h)].of].target = request[OpOf(h)].target
      BY <2>2, <1>k DEF Known, ForkInv, TargetsAreApart
    <3>2. runtime[TargetOf(h)].of = OpOf(h)
      BY <3>1, <2>2, <1>k DEF Known, ForkInv, TargetsAreApart, Settling
    <3> QED BY <3>2, <2>2, <1>k DEF Known, IsWhole
  <2> HIDE DEF row
  <2>5. RowMoves(OpOf(h), row)
    BY <2>2, <2>3, <2>4 DEF RowMoves, Following, Unfinished
  <2>6. Idle \in Call
    BY DEF Idle, Call, What, Step
  <2>7. TypeOK' /\ Minds(h) /\ call'[h] = Idle
    BY <1>b, <2>1, <2>3, <2>5, <2>6, WriteStep
  <2> QED BY <2>7, IdleIsSound DEF Keeps
<1> QED BY <1>1, <1>2

-----------------------------------------------------------------------------
(* The steps that do something to the target, the staging or the file.     *)

\* A call goes on to step s, whatever it has done to the world, with the row it has read.
GoneTo(h, s) ==
  /\ call'[h].step = s /\ call'[h].at = call[h].at /\ call'[h].what = call[h].what
  /\ call'[h].fresh = call[h].fresh /\ call'[h].op = OpOf(h)
  /\ OpOf(h)' = OpOf(h) /\ TargetOf(h)' = TargetOf(h)
  /\ request' = request /\ journal' = journal /\ goal' = goal /\ up' = up
  /\ call' \in [Host -> Call] /\ SparesCalls(h)
LEMMA Going ==
  ASSUME ForkInv, NEW h \in Host, Busy(h), NEW s \in Step, Goes(h, s),
         UNCHANGED <<goal, request, journal, up>>
  PROVE  GoneTo(h, s) /\ Known(h)
<1>k. Known(h)
  BY Knowledge
<1> DEFINE c == [call[h] EXCEPT !.step = s]
<1>1. /\ c \in Call /\ c.step = s /\ c.at = call[h].at /\ c.what = call[h].what
      /\ c.fresh = call[h].fresh /\ c.op = OpOf(h)
  BY <1>k DEF Known, Call
<1>2. call' = [call EXCEPT ![h] = c]
  BY DEF Goes
<1> HIDE DEF c
<1>3. call'[h] = c /\ call' \in [Host -> Call] /\ SparesCalls(h)
  BY <1>1, <1>2, <1>k DEF Known, TypeOK, SparesCalls
<1> QED BY <1>1, <1>3, <1>k DEF GoneTo, OpOf, TargetOf

\* The parts of a call's soundness that a step within the lease carries on.
LEMMA StaysOn ==
  ASSUME ForkInv, NEW h \in Host, Busy(h), Known(h), NEW s \in Leased, GoneTo(h, s),
         call[h].step \in Leased, lock' = lock,
         s \notin {"check", "apply", "release", "throw", "clean"},
         s \in {"clone", "note"} => call[h].at = "workspace_applied",
         s \in {"open", "fill", "finish"} => call[h].at = "sidecars_committed",
         s = "advance" => call[h].at \in Unfinished,
         s \in Working => call[h].step \in Working,
         s \notin Working => call[h].at = "needs_attention"
  PROVE  IsAsked(h)' /\ HoldsLease(h)' /\ ReadsTrue(h)' /\ FitsRow(h)'
<1>1. IsAsked(h)' /\ HoldsLease(h)' /\ Busy(h)'
  BY DEF Known, CallIsSound, IsAsked, HoldsLease, GoneTo, Busy, Leased
<1>2. ReadsTrue(h)'
  BY <1>1 DEF Known, CallIsSound, ReadsTrue, GoneTo, HasRow, Leased
<1>3. FitsRow(h)'
  BY DEF Known, CallIsSound, FitsRow, GoneTo, Leased, Working
<1> QED BY <1>1, <1>2, <1>3

LEMMA CheckKeeps ==
  ASSUME ForkAssumption, ForkInv, NEW h \in Host, Check(h)
  PROVE  Keeps(h)
<1>b. /\ Busy(h) /\ call[h].step = "check"
      /\ UNCHANGED <<asked, staging, world, lock, source, up>>
  BY DEF Check, At, Busy
<1>k. Known(h)
  BY <1>b, Knowledge
<1>1. ASSUME NEW x \in BOOLEAN, Conflict(h, x)
      PROVE  Keeps(h)
  BY <1>1, <1>b, ConflictKeeps
<1>2. ASSUME NEW s \in {"apply", "clone", "open"}, Goes(h, s), UNCHANGED journal,
             s = CASE call[h].at = "prepared" -> "apply"
                   [] call[h].at = "workspace_applied" -> "clone"
                   [] OTHER -> "open",
             call[h].at = "sidecars_committed" => OwnsRuntime(OpOf(h))
      PROVE  Keeps(h)
  <2> DEFINE c == [call[h] EXCEPT !.step = s]
  <2>1. Turns(h, c) /\ Quiet
    BY <1>b, <1>2 DEF Goes, Turns, Quiet
  <2>2. Suits(h, c) /\ lock[TargetOf(h)] = h
    BY <1>2, <1>b, <1>k DEF Known, CallIsSound, HoldsLease, ReadsTrue, FitsRow, Suits, Call, Step,
       Leased, Unfinished, Terminal, Working
  <2> HIDE DEF c
  <2> QED BY <1>b, <1>2, <2>1, <2>2, TurnKeeps
<1> QED
  BY <1>1, <1>2 DEF Check

LEMMA ApplyKeeps ==
  ASSUME ForkAssumption, ForkInv, NEW h \in Host, Apply(h)
  PROVE  Keeps(h)
<1>b. /\ Busy(h) /\ call[h].step = "apply" /\ call[h].step \in Leased
      /\ UNCHANGED <<asked, staging, runtime, clone, cleaned, lock, source, up>>
  BY DEF Apply, At, Busy, Leased
<1>1. CASE Conflict(h, FALSE) /\ UNCHANGED <<file, applied>>
  BY <1>1, <1>b, ConflictKeeps DEF world
<1>2. CASE ~(Conflict(h, FALSE) /\ UNCHANGED <<file, applied>>)
  <2>1. Goes(h, "advance") /\ journal' = journal
    BY <1>2 DEF Apply
  <2>2. GoneTo(h, "advance") /\ Known(h)
    BY <1>b, <2>1, Going DEF asked, Step, Leased
  <2>3. /\ file' \in Op \cup {Base, Edited} /\ applied' \subseteq Op
        /\ \A p \in Op \ {OpOf(h)} : p \in applied' <=> p \in applied
        /\ OpOf(h) \in applied => OpOf(h) \in applied'
        /\ request[OpOf(h)].kind = "both" => OpOf(h) \in applied'
    BY <1>2, <2>2 DEF Apply, Known, TypeOK
  <2>4. call[h].at = "prepared"
    BY <1>b, <2>2 DEF Known, CallIsSound, FitsRow
  <2>5. TypeOK'
    BY <1>b, <2>2, <2>3 DEF Known, GoneTo, TypeOK, asked
  <2>6. Minds(h)
    BY <1>b, <2>2, <2>3
       DEF GoneTo, Minds, SparesOthers, NeedsLease, TargetMoves, RowMoves
  <2>7. IsAsked(h)' /\ HoldsLease(h)' /\ ReadsTrue(h)' /\ FitsRow(h)'
    BY <1>b, <2>2, <2>4, StaysOn DEF Leased, Working, Unfinished
  <2>8. HasBundle(h)' /\ KnowsTarget(h)' /\ HasEffect(h)'
    BY <2>2, <2>3, <2>4 DEF GoneTo, HasBundle, KnowsTarget, HasEffect
  <2> QED BY <2>5, <2>6, <2>7, <2>8 DEF Keeps, CallIsSound
<1> QED BY <1>1, <1>2

LEMMA CloneHistoryKeeps ==
  ASSUME ForkAssumption, ForkInv, NEW h \in Host, CloneHistory(h)
  PROVE  Keeps(h)
<1>b. /\ Busy(h) /\ call[h].step = "clone" /\ call[h].step \in Leased
      /\ UNCHANGED <<asked, staging, file, runtime, applied, cleaned, lock, source, up>>
  BY DEF CloneHistory, At, Busy, Leased
<1>1. CASE Conflict(h, FALSE) /\ UNCHANGED clone
  BY <1>1, <1>b, ConflictKeeps DEF world
<1>2. CASE ~(Conflict(h, FALSE) /\ UNCHANGED clone)
  <2>1. PICK s \in {"advance", "note"} :
          /\ Goes(h, s) /\ journal' = journal
          /\ s = "advance" => staging[OpOf(h)] = "sidecars" /\ clone' = clone
          /\ s = "note" => clone' = clone \cup {TargetOf(h)}
    BY <1>2 DEF CloneHistory
  <2>2. GoneTo(h, s) /\ Known(h)
    BY <1>b, <2>1, Going DEF asked, Step, Leased
  <2>3. call[h].at = "workspace_applied"
    BY <1>b, <2>2 DEF Known, CallIsSound, FitsRow
  <2>4. clone' \subseteq Target
    BY <2>1, <2>2 DEF Known, TypeOK
  <2>5. TypeOK'
    BY <1>b, <2>2, <2>4 DEF Known, GoneTo, TypeOK, asked
  <2>6. Minds(h)
    <3>1. \A u \in Target \ {TargetOf(h)} : u \in clone' <=> u \in clone
      BY <2>1
    <3>2. Builds(h) /\ (TargetOf(h) \in clone => TargetOf(h) \in clone')
      BY <1>b, <2>1 DEF Builds, Working
    <3> QED BY <1>b, <2>2, <3>1, <3>2
          DEF GoneTo, Minds, SparesOthers, NeedsLease, TargetMoves, RowMoves
  <2>7. IsAsked(h)' /\ HoldsLease(h)' /\ ReadsTrue(h)' /\ FitsRow(h)'
    BY <1>b, <2>1, <2>2, <2>3, StaysOn DEF Leased, Working, Unfinished
  <2>8. HasBundle(h)' /\ KnowsTarget(h)' /\ HasEffect(h)'
    BY <1>b, <2>1, <2>2, <2>3
       DEF GoneTo, HasBundle, KnowsTarget, HasEffect, Known, RowIsSound, NotesAreTrue
  <2> QED BY <2>5, <2>6, <2>7, <2>8 DEF Keeps, CallIsSound
<1> QED BY <1>1, <1>2

LEMMA NoteSidecarsKeeps ==
  ASSUME ForkAssumption, ForkInv, NEW h \in Host, NoteSidecars(h)
  PROVE  Keeps(h)
<1>b. /\ Busy(h) /\ call[h].step = "note" /\ call[h].step \in Leased
      /\ UNCHANGED <<asked, journal, world, lock, source, up>>
  BY DEF NoteSidecars, At, Busy, Leased
<1>1. GoneTo(h, "advance") /\ Known(h)
  BY <1>b, Going DEF NoteSidecars, asked, Step, Leased
<1>2. /\ staging' \in [Op -> Staging] /\ staging'[OpOf(h)] = "sidecars"
      /\ \A p \in Op \ {OpOf(h)} : staging'[p] = staging[p]
  BY <1>1 DEF NoteSidecars, Known, TypeOK, Staging
<1>3. /\ call[h].at = "workspace_applied"
      /\ TargetOf(h) \notin cleaned => TargetOf(h) \in clone
  BY <1>b, <1>1 DEF Known, CallIsSound, FitsRow, HasEffect
<1>4. TypeOK'
  BY <1>b, <1>1, <1>2 DEF Known, GoneTo, TypeOK, asked, world
<1>5. Minds(h)
  BY <1>b, <1>1, <1>2, <1>3
     DEF GoneTo, Minds, SparesOthers, NeedsLease, TargetMoves, RowMoves, world
<1>6. IsAsked(h)' /\ HoldsLease(h)' /\ ReadsTrue(h)' /\ FitsRow(h)'
  BY <1>b, <1>1, <1>3, StaysOn DEF Leased, Working, Unfinished
<1>7. HasBundle(h)' /\ KnowsTarget(h)' /\ HasEffect(h)'
  BY <1>b, <1>1, <1>2, <1>3 DEF GoneTo, HasBundle, KnowsTarget, HasEffect, world
<1> QED BY <1>4, <1>5, <1>6, <1>7 DEF Keeps, CallIsSound

LEMMA OpenTargetKeeps ==
  ASSUME ForkAssumption, ForkInv, NEW h \in Host, OpenTarget(h)
  PROVE  Keeps(h)
<1>b. /\ Busy(h) /\ call[h].step = "open" /\ call[h].step \in Leased
      /\ UNCHANGED <<asked, staging, file, clone, applied, cleaned, lock, source, up>>
  BY DEF OpenTarget, At, Busy, Leased
<1> DEFINE t == TargetOf(h)
<1>1. CASE Conflict(h, FALSE) /\ UNCHANGED runtime
  BY <1>1, <1>b, ConflictKeeps DEF world
<1>2. CASE ~(Conflict(h, FALSE) /\ UNCHANGED runtime)
  <2>1. /\ Goes(h, "fill") /\ journal' = journal
        /\ runtime' = IF runtime[t].part = "none"
                      THEN [runtime EXCEPT ![t] = [of |-> OpOf(h), part |-> "session"]]
                      ELSE runtime
    BY <1>2 DEF OpenTarget
  <2>2. GoneTo(h, "fill") /\ Known(h)
    BY <1>b, <2>1, Going DEF asked, Step, Leased
  <2>3. call[h].at = "sidecars_committed" /\ OwnsRuntime(OpOf(h))
    BY <1>b, <2>2 DEF Known, CallIsSound, FitsRow, KnowsTarget
  <2>4. /\ runtime' \in [Target -> [of : Op \cup {NoOp}, part : Part]]
        /\ \A u \in Target \ {t} : runtime'[u] = runtime[u]
        /\ runtime'[t] = IF runtime[t].part = "none" THEN [of |-> OpOf(h), part |-> "session"]
                         ELSE runtime[t]
    BY <2>1, <2>2 DEF Known, TypeOK, Part
  <2>5. TypeOK'
    BY <1>b, <2>2, <2>4 DEF Known, GoneTo, TypeOK, asked
  <2>6. Builds(h)
    BY <1>b, <2>1 DEF Builds, Working
  <2>7. Minds(h)
    BY <1>b, <2>2, <2>4, <2>6
       DEF GoneTo, Minds, SparesOthers, NeedsLease, TargetMoves, RowMoves
  <2>8. IsAsked(h)' /\ HoldsLease(h)' /\ ReadsTrue(h)' /\ FitsRow(h)'
    BY <1>b, <2>2, <2>3, StaysOn DEF Leased, Working, Unfinished
  <2>9. KnowsTarget(h)'
    BY <2>2, <2>3, <2>4 DEF Known, GoneTo, KnowsTarget, OwnsRuntime
  <2>10. HasBundle(h)' /\ HasEffect(h)'
    BY <2>2 DEF GoneTo, HasBundle, HasEffect
  <2> QED BY <2>5, <2>7, <2>8, <2>9, <2>10 DEF Keeps, CallIsSound
<1> QED BY <1>1, <1>2

LEMMA FillTargetKeeps ==
  ASSUME ForkAssumption, ForkInv, NEW h \in Host, FillTarget(h)
  PROVE  Keeps(h)
<1>b. /\ Busy(h) /\ call[h].step = "fill" /\ call[h].step \in Leased
      /\ UNCHANGED <<asked, journal, staging, file, clone, applied, cleaned, lock, source, up>>
  BY DEF FillTarget, At, Busy, Leased
<1> DEFINE t == TargetOf(h)
<1>1. GoneTo(h, "finish") /\ Known(h)
  BY <1>b, Going DEF FillTarget, asked, Step, Leased
<1>2. call[h].at = "sidecars_committed" /\ OwnsRuntime(OpOf(h))
  BY <1>b, <1>1 DEF Known, CallIsSound, FitsRow, KnowsTarget
<1>3. /\ runtime' \in [Target -> [of : Op \cup {NoOp}, part : Part]]
      /\ \A u \in Target \ {t} : runtime'[u] = runtime[u]
      /\ runtime'[t] = IF runtime[t].part = "published" THEN runtime[t]
                       ELSE [of |-> OpOf(h), part |-> "begun"]
  BY <1>1 DEF FillTarget, Known, TypeOK, Part
<1>4. TypeOK'
  BY <1>b, <1>1, <1>3 DEF Known, GoneTo, TypeOK, asked
<1>5. Builds(h)
  BY <1>b DEF Builds, Working
<1>6. Minds(h)
  BY <1>b, <1>1, <1>3, <1>5
     DEF GoneTo, Minds, SparesOthers, NeedsLease, TargetMoves, RowMoves
<1>7. IsAsked(h)' /\ HoldsLease(h)' /\ ReadsTrue(h)' /\ FitsRow(h)'
  BY <1>b, <1>1, <1>2, StaysOn DEF Leased, Working, Unfinished
<1>8. KnowsTarget(h)'
  BY <1>1, <1>2, <1>3 DEF Known, GoneTo, KnowsTarget, OwnsRuntime
<1>9. HasBundle(h)' /\ HasEffect(h)'
  BY <1>1 DEF GoneTo, HasBundle, HasEffect
<1> QED BY <1>4, <1>6, <1>7, <1>8, <1>9 DEF Keeps, CallIsSound

LEMMA PublishTargetKeeps ==
  ASSUME ForkAssumption, ForkInv, NEW h \in Host, PublishTarget(h)
  PROVE  Keeps(h)
<1>b. /\ Busy(h) /\ call[h].step = "finish" /\ call[h].step \in Leased
      /\ UNCHANGED <<asked, journal, staging, file, clone, applied, cleaned, lock, source, up>>
  BY DEF PublishTarget, At, Busy, Leased
<1> DEFINE t == TargetOf(h)
<1>1. GoneTo(h, "advance") /\ Known(h)
  BY <1>b, Going DEF PublishTarget, asked, Step, Leased
<1>2. call[h].at = "sidecars_committed" /\ runtime[t].of = OpOf(h)
  BY <1>b, <1>1 DEF Known, CallIsSound, FitsRow, KnowsTarget
<1>3. /\ runtime' \in [Target -> [of : Op \cup {NoOp}, part : Part]]
      /\ \A u \in Target \ {t} : runtime'[u] = runtime[u]
      /\ runtime'[t] = [of |-> OpOf(h), part |-> "published"]
      /\ runtime[t].part = "published" => runtime'[t] = runtime[t]
  BY <1>1, <1>2 DEF PublishTarget, Known, TypeOK, Part
<1>4. TypeOK'
  BY <1>b, <1>1, <1>3 DEF Known, GoneTo, TypeOK, asked
<1>5. Builds(h)
  BY <1>b DEF Builds, Working
<1>6. Minds(h)
  BY <1>b, <1>1, <1>3, <1>5
     DEF GoneTo, Minds, SparesOthers, NeedsLease, TargetMoves, RowMoves
<1>7. IsAsked(h)' /\ HoldsLease(h)' /\ ReadsTrue(h)' /\ FitsRow(h)'
  BY <1>b, <1>1, <1>2, StaysOn DEF Leased, Working, Unfinished
<1>8. KnowsTarget(h)' /\ HasBundle(h)' /\ HasEffect(h)'
  BY <1>1, <1>2, <1>3 DEF GoneTo, KnowsTarget, HasBundle, HasEffect
<1> QED BY <1>4, <1>6, <1>7, <1>8 DEF Keeps, CallIsSound

LEMMA RollBackKeeps ==
  ASSUME ForkAssumption, ForkInv, NEW h \in Host, RollBack(h)
  PROVE  Keeps(h)
<1>b. /\ Busy(h) /\ call[h].step = "cleanup" /\ call[h].step \in Leased
      /\ UNCHANGED <<asked, staging, runtime, clone, lock, source, up>>
  BY DEF RollBack, At, Busy, Leased
<1>1. CASE Throws(h) /\ UNCHANGED <<file, applied, cleaned>>
  BY <1>1, <1>b, ThrowsKeeps DEF world
<1>2. CASE ~(Throws(h) /\ UNCHANGED <<file, applied, cleaned>>)
  <2>1. /\ Goes(h, "erase") /\ journal' = journal
        /\ file' = IF request[OpOf(h)].kind = "both" THEN original[OpOf(h)] ELSE file
        /\ applied' = applied \ {OpOf(h)} /\ cleaned' = cleaned \cup {TargetOf(h)}
        /\ runtime[TargetOf(h)].part # "published"
    BY <1>2 DEF RollBack, IsPublished
  <2>2. GoneTo(h, "erase") /\ Known(h)
    BY <1>b, <2>1, Going DEF asked, Step, Leased
  <2>3. call[h].at = "needs_attention"
    BY <1>b, <2>2 DEF Known, CallIsSound, FitsRow
  <2>4. TypeOK'
    BY <1>b, <2>1, <2>2 DEF Known, GoneTo, TypeOK, asked
  <2>5. Minds(h)
    BY <1>b, <2>1, <2>2
       DEF GoneTo, Known, Minds, SparesOthers, NeedsLease, TargetMoves, RowMoves
  <2>6. IsAsked(h)' /\ HoldsLease(h)' /\ ReadsTrue(h)' /\ FitsRow(h)'
    BY <1>b, <2>2, <2>3, StaysOn DEF Leased, Working, Unfinished
  <2>7. HasBundle(h)' /\ KnowsTarget(h)' /\ HasEffect(h)'
    BY <1>b, <2>1, <2>2 DEF GoneTo, HasBundle, KnowsTarget, HasEffect
  <2> QED BY <2>4, <2>5, <2>6, <2>7 DEF Keeps, CallIsSound
<1> QED BY <1>1, <1>2

LEMMA EraseKeeps ==
  ASSUME ForkAssumption, ForkInv, NEW h \in Host, Erase(h)
  PROVE  Keeps(h)
<1>b. /\ Busy(h) /\ call[h].step = "erase" /\ call[h].step \in Leased
      /\ UNCHANGED <<asked, staging, file, clone, applied, cleaned, lock, source, up>>
  BY DEF Erase, At, Busy, Leased
<1> DEFINE t == TargetOf(h)
<1>1. CASE Throws(h) /\ UNCHANGED runtime
  BY <1>1, <1>b, ThrowsKeeps DEF world
<1>2. CASE ~(Throws(h) /\ UNCHANGED runtime)
  <2>1. /\ Goes(h, "unclone") /\ journal' = journal
        /\ runtime' = [runtime EXCEPT ![t] = [of |-> NoOp, part |-> "none"]]
    BY <1>2 DEF Erase
  <2>2. GoneTo(h, "unclone") /\ Known(h)
    BY <1>b, <2>1, Going DEF asked, Step, Leased
  <2>3. /\ call[h].at = "needs_attention" /\ runtime[t].part # "published" /\ t \in cleaned
        /\ NoOp # OpOf(h)
    BY <1>b, <2>2 DEF Known, CallIsSound, FitsRow, KnowsTarget, HasEffect, ForkAssumption
  <2>4. /\ runtime' \in [Target -> [of : Op \cup {NoOp}, part : Part]]
        /\ \A u \in Target \ {t} : runtime'[u] = runtime[u]
        /\ runtime'[t] = [of |-> NoOp, part |-> "none"]
    BY <2>1, <2>2 DEF Known, TypeOK, Part
  <2>5. TypeOK'
    BY <1>b, <2>2, <2>4 DEF Known, GoneTo, TypeOK, asked
  <2>6. Minds(h)
    BY <1>b, <2>2, <2>3, <2>4
       DEF GoneTo, Minds, SparesOthers, NeedsLease, TargetMoves, RowMoves
  <2>7. IsAsked(h)' /\ HoldsLease(h)' /\ ReadsTrue(h)' /\ FitsRow(h)'
    BY <1>b, <2>2, <2>3, StaysOn DEF Leased, Working, Unfinished
  <2>8. HasBundle(h)' /\ KnowsTarget(h)' /\ HasEffect(h)'
    BY <1>b, <2>2, <2>3, <2>4 DEF GoneTo, HasBundle, KnowsTarget, HasEffect
  <2> QED BY <2>5, <2>6, <2>7, <2>8 DEF Keeps, CallIsSound
<1> QED BY <1>1, <1>2

LEMMA UncloneKeeps ==
  ASSUME ForkAssumption, ForkInv, NEW h \in Host, Unclone(h)
  PROVE  Keeps(h)
<1>b. /\ Busy(h) /\ call[h].step = "unclone" /\ call[h].step \in Leased
      /\ clone' = clone \ {TargetOf(h)}
      /\ UNCHANGED <<asked, journal, staging, file, runtime, applied, cleaned, lock, source, up>>
  BY DEF Unclone, At, Busy, Leased
<1>1. GoneTo(h, "drop") /\ Known(h)
  BY <1>b, Going DEF Unclone, asked, Step, Leased
<1>2. /\ call[h].at = "needs_attention" /\ runtime[TargetOf(h)].of # OpOf(h)
      /\ TargetOf(h) \in cleaned
  BY <1>b, <1>1 DEF Known, CallIsSound, FitsRow, KnowsTarget, HasEffect
<1>3. TypeOK'
  BY <1>b, <1>1 DEF Known, GoneTo, TypeOK, asked
<1>4. Minds(h)
  BY <1>b, <1>1, <1>2
     DEF GoneTo, Minds, SparesOthers, NeedsLease, TargetMoves, RowMoves
<1>5. IsAsked(h)' /\ HoldsLease(h)' /\ ReadsTrue(h)' /\ FitsRow(h)'
  BY <1>b, <1>1, <1>2, StaysOn DEF Leased, Working, Unfinished
<1>6. HasBundle(h)' /\ KnowsTarget(h)' /\ HasEffect(h)'
  BY <1>b, <1>1, <1>2 DEF GoneTo, HasBundle, KnowsTarget, HasEffect
<1> QED BY <1>3, <1>4, <1>5, <1>6 DEF Keeps, CallIsSound

LEMMA CleanStagingKeeps ==
  ASSUME ForkAssumption, ForkInv, NEW h \in Host, CleanStaging(h)
  PROVE  Keeps(h)
<1>b. /\ Busy(h) /\ call[h].step \in {"clean", "tidy"}
      /\ staging' = [staging EXCEPT ![OpOf(h)] = "none"]
      /\ UNCHANGED <<asked, journal, world, lock, up>>
  BY DEF CleanStaging, At, Busy
<1>k. Known(h)
  BY <1>b, Knowledge
<1>1. /\ staging' \in [Op -> Staging] /\ staging'[OpOf(h)] = "none"
      /\ \A p \in Op \ {OpOf(h)} : staging'[p] = staging[p]
  BY <1>b, <1>k DEF Known, TypeOK, Staging
<1>2. OutOfTheWay(OpOf(h)) /\ HasRow(OpOf(h))
  BY <1>b, <1>k DEF Known, CallIsSound, FitsRow, OutOfTheWay, HasRow
<1>3. CASE call[h].step = "clean"
  <2>1. Goes(h, "release") /\ source' = source
    BY <1>3 DEF CleanStaging, At
  <2>2. GoneTo(h, "release")
    BY <1>b, <2>1, Going DEF asked, Step, Leased
  <2>3. TypeOK'
    BY <1>b, <1>k, <1>1, <2>1, <2>2 DEF Known, GoneTo, TypeOK, asked, world
  <2>4. Minds(h)
    BY <1>b, <1>k, <1>1, <1>2, <2>2
       DEF GoneTo, Minds, SparesOthers, NeedsLease, TargetMoves, RowMoves, world
  <2>5. IsAsked(h)' /\ HoldsLease(h)' /\ ReadsTrue(h)'
    BY <1>3, <1>b, <1>k, <2>2
       DEF Known, CallIsSound, IsAsked, HoldsLease, ReadsTrue, GoneTo, Busy, Leased, HasRow
  <2>6. call[h].at \in Terminal
    BY <1>3, <1>k DEF Known, CallIsSound, FitsRow, OutOfTheWay, Terminal
  <2>7. FitsRow(h)'
    BY <1>k, <2>2, <2>6 DEF Known, CallIsSound, FitsRow, GoneTo, Working
  <2>8. HasBundle(h)' /\ KnowsTarget(h)' /\ HasEffect(h)'
    BY <2>2 DEF GoneTo, HasBundle, KnowsTarget, HasEffect
  <2> QED BY <2>3, <2>4, <2>5, <2>7, <2>8 DEF Keeps, CallIsSound
<1>4. CASE call[h].step = "tidy"
  <2>1. Ends(h, "completed")
    BY <1>4 DEF CleanStaging, At
  <2>2. /\ call' = [call EXCEPT ![h] = Idle]
        /\ source' = IF source = h THEN NoHost ELSE source
    BY <2>1, <1>k DEF Ends, GoesOn
  <2>3. call'[h] = Idle /\ call' \in [Host -> Call] /\ SparesCalls(h)
    <3>1. Idle \in Call
      BY DEF Idle, Call, What, Step
    <3> QED BY <2>2, <3>1, <1>b, <1>k DEF Known, TypeOK, SparesCalls
  <2>4. TypeOK'
    BY <1>b, <1>k, <1>1, <2>2, <2>3 DEF Known, TypeOK, asked, world
  <2>5. Minds(h)
    BY <1>b, <1>k, <1>1, <1>2, <2>3
       DEF Minds, SparesOthers, NeedsLease, TargetMoves, RowMoves, asked, world
  <2> QED BY <2>3, <2>4, <2>5, IdleIsSound DEF Keeps
<1> QED BY <1>b, <1>3, <1>4

LEMMA FreezeKeeps ==
  ASSUME ForkAssumption, ForkInv, NEW h \in Host, Freeze(h)
  PROVE  Keeps(h)
<1>b. /\ Busy(h) /\ call[h].step = "freeze"
      /\ UNCHANGED <<goal, request, journal, world, lock, up>>
  BY DEF Freeze, At, Busy
<1>k. Known(h) /\ call[h].what = "fork"
  BY <1>b, Knowledge DEF Known, CallIsSound, FitsRow
<1>1. CASE Ends(h, "thrown") /\ UNCHANGED <<staging, original, earlier>>
  <2>1. EndsWell(h, "thrown")
    BY <1>k DEF EndsWell
  <2>2. Quiet /\ lock' = lock
    BY <1>1, <1>b DEF Quiet, asked
  <2> QED BY <1>1, <1>b, <2>1, <2>2, EndKeeps
<1>2. CASE ~(Ends(h, "thrown") /\ UNCHANGED <<staging, original, earlier>>)
  <2> DEFINE o == OpOf(h)
  <2>1. /\ staging' = [staging EXCEPT ![o] = IF @ = "none" THEN "frozen" ELSE @]
        /\ original' = IF staging[o] = "none" THEN [original EXCEPT ![o] = file] ELSE original
        /\ earlier' = [p \in Op |-> IF p = o THEN {q \in Op \ {o} : staging[q] # "none"
                                                     \/ HasRow(q)}
                                    ELSE earlier[p] \ {o}]
        /\ Goes(h, "insert") /\ source' = source
    BY <1>2 DEF Freeze
  <2>2. GoneTo(h, "insert")
    BY <1>b, <2>1, Going DEF Step
  <2>3. /\ staging' \in [Op -> Staging] /\ staging'[o] # "none"
        /\ \/ staging'[o] = staging[o]
           \/ staging[o] = "none" /\ staging'[o] = "frozen"
        /\ \A p \in Op \ {o} : staging'[p] = staging[p]
    BY <1>k, <2>1 DEF Known, TypeOK, Staging
  <2>4. original' \in [Op -> Op \cup {Base, Edited}]
    BY <1>k, <2>1 DEF Known, TypeOK
  <2>5. earlier' \in [Op -> SUBSET Op]
    BY <1>k, <2>1 DEF Known, TypeOK
  <2>6. TypeOK'
    BY <1>b, <1>k, <2>1, <2>2, <2>3, <2>4, <2>5 DEF Known, GoneTo, TypeOK, world
  <2>7. Minds(h)
    BY <1>b, <1>k, <2>2, <2>3
       DEF GoneTo, Minds, SparesOthers, NeedsLease, TargetMoves, RowMoves, world
  <2>8. IsAsked(h)' /\ ReadsTrue(h)'
    BY <1>b, <1>k, <2>2 DEF Known, CallIsSound, IsAsked, ReadsTrue, GoneTo, Busy, HasRow
  <2>9. FitsRow(h)'
    BY <1>k, <2>2 DEF Known, CallIsSound, FitsRow, GoneTo, Working
  <2>10. HoldsLease(h)' /\ HasBundle(h)' /\ KnowsTarget(h)' /\ HasEffect(h)'
    BY <2>2, <2>3 DEF GoneTo, HoldsLease, HasBundle, KnowsTarget, HasEffect, Leased
  <2> QED BY <2>6, <2>7, <2>8, <2>9, <2>10 DEF Keeps, CallIsSound
<1> QED BY <1>1, <1>2

\* Nobody can have read the row before it is there.
LEMMA InsertKeeps ==
  ASSUME ForkAssumption, ForkInv, NEW h \in Host, Insert(h)
  PROVE  Keeps(h)
<1>b. Busy(h) /\ call[h].step = "insert" /\ UNCHANGED <<asked, staging, world, lock, up>>
  BY DEF Insert, At, Busy
<1>k. Known(h) /\ call[h].what = "fork"
  BY <1>b, Knowledge DEF Known, CallIsSound, FitsRow
<1>1. CASE Ends(h, "thrown") /\ UNCHANGED journal
  <2>1. EndsWell(h, "thrown")
    BY <1>k DEF EndsWell
  <2>2. Quiet /\ lock' = lock
    BY <1>1, <1>b DEF Quiet
  <2> QED BY <1>1, <1>b, <2>1, <2>2, EndKeeps
<1>2. CASE ~(Ends(h, "thrown") /\ UNCHANGED journal)
  <2> DEFINE o == OpOf(h)
             c == [call[h] EXCEPT !.step = "reload"]
             row == [journal[o] EXCEPT !.state = "prepared"]
  <2>1. /\ ~HasRow(o) /\ source' = source
        /\ journal' = [journal EXCEPT ![o] = row] /\ call' = [call EXCEPT ![h] = c]
    BY <1>2 DEF Insert, Goes
  <2>2. /\ c \in Call /\ c.step = "reload" /\ c.what = "fork" /\ c.op = o
        /\ c.fresh = call[h].fresh /\ c.at = call[h].at
    BY <1>k DEF Known, Call, Step
  <2>3. row \in Row /\ row.state = "prepared" /\ staging[o] # "none" /\ ~call[h].fresh
    BY <1>b, <1>k, <2>1
       DEF Known, Row, CallIsSound, HasBundle, ReadsTrue, Unfinished
  <2> HIDE DEF c, row
  <2>4. /\ journal' \in [Op -> Row] /\ journal'[o] = row
        /\ \A p \in Op \ {o} : journal'[p] = journal[p]
        /\ call' \in [Host -> Call] /\ call'[h] = c
        /\ \A g \in Host \ {h} : call'[g] = call[g]
    BY <1>k, <2>1, <2>2, <2>3 DEF Known, TypeOK
  <2>5. TypeOK'
    BY <1>b, <1>k, <2>1, <2>4 DEF Known, TypeOK, asked, world
  <2>6. SparesCalls(h)
    <3>1. ASSUME NEW g \in Host, call[g].op = o, call[g].fresh PROVE FALSE
      BY <2>1, <3>1 DEF ForkInv, CallIsSound, ReadsTrue, OpOf
    <3> QED BY <2>4, <3>1 DEF SparesCalls
  <2>7. Minds(h)
    BY <1>b, <2>1, <2>3, <2>4, <2>6
       DEF Minds, SparesOthers, NeedsLease, TargetMoves, RowMoves, asked, world
  <2>8. OpOf(h)' = o /\ TargetOf(h)' = TargetOf(h) /\ Busy(h)'
    BY <1>b, <2>2, <2>4 DEF OpOf, TargetOf, Busy, asked
  <2>9. IsAsked(h)' /\ ReadsTrue(h)' /\ FitsRow(h)'
    BY <1>k, <2>2, <2>3, <2>4, <2>8 DEF Known, IsAsked, ReadsTrue, FitsRow, HasRow, Working
  <2>10. HoldsLease(h)' /\ HasBundle(h)' /\ KnowsTarget(h)' /\ HasEffect(h)'
    BY <2>2, <2>4 DEF HoldsLease, HasBundle, KnowsTarget, HasEffect, Leased
  <2> QED BY <2>5, <2>7, <2>9, <2>10 DEF Keeps, CallIsSound
<1> QED BY <1>1, <1>2

LEMMA FailsKeeps ==
  ASSUME ForkAssumption, ForkInv, NEW h \in Host, Fails(h)
  PROVE  Keeps(h)
<1>b. Busy(h) /\ UNCHANGED <<asked, staging, world, lock, up>>
  BY DEF Fails, Busy
<1>k. Known(h)
  BY <1>b, Knowledge
<1>1. CASE call[h].step \in Leased /\ Throws(h) /\ UNCHANGED source
  BY <1>1, <1>b, ThrowsKeeps
<1>2. CASE /\ call[h].step \in {"freeze", "insert", "reload", "lease", "tidy"}
           /\ Ends(h, "thrown") /\ UNCHANGED journal
  <2>1. EndsWell(h, "thrown")
    BY <1>2, <1>k DEF EndsWell, Known, CallIsSound, FitsRow, ReadsTrue
  <2>2. Quiet /\ lock' = lock
    BY <1>2, <1>b DEF Quiet
  <2> QED BY <1>2, <1>b, <2>1, <2>2, EndKeeps
<1>3. CASE GivesUp(h)
  BY <1>3, <1>b, GivesUpKeeps
<1> QED BY <1>1, <1>2, <1>3 DEF Fails

-----------------------------------------------------------------------------
(* The steps with which calls begin, and those of the rest of the world.   *)

\* A call to which nothing happens, be it that a host dies or that the file is edited.
LEMMA NothingHappens ==
  ASSUME NEW g \in Host, CallIsSound(g), call'[g] = call[g],
         call[g].step \in Leased => lock'[TargetOf(g)] = lock[TargetOf(g)],
         Busy(g) => request'[OpOf(g)] = request[OpOf(g)],
         UNCHANGED <<goal, journal, staging, runtime, clone, applied, cleaned>>
  PROVE  CallIsSound(g)'
<1>1. CASE ~Busy(g)
  BY <1>1, IdleIsSound DEF CallIsSound, IsAsked
<1>2. CASE Busy(g)
  <2>1. OpOf(g)' = OpOf(g) /\ TargetOf(g)' = TargetOf(g) /\ Busy(g)'
    BY <1>2 DEF OpOf, TargetOf, Busy
  <2>2. IsAsked(g)' /\ HoldsLease(g)' /\ ReadsTrue(g)' /\ FitsRow(g)'
    BY <1>2, <2>1 DEF CallIsSound, IsAsked, HoldsLease, ReadsTrue, FitsRow, HasRow, OutOfTheWay,
       OpOf
  <2>3. HasBundle(g)' /\ HasEffect(g)'
    BY <1>2, <2>1 DEF CallIsSound, HasBundle, HasEffect, HasRow, OpOf
  <2>4. KnowsTarget(g)'
    <3>1. OwnsRuntime(OpOf(g)) <=> OwnsRuntime(OpOf(g))'
      BY <1>2, <2>1 DEF OwnsRuntime, OpOf
    <3> QED BY <3>1, <2>1 DEF CallIsSound, KnowsTarget
  <2> QED BY <2>2, <2>3, <2>4 DEF CallIsSound
<1> QED BY <1>1, <1>2

\* What rows and targets promise does not depend on anything else.
LEMMA RowsAsTheyWere ==
  ASSUME ForkInv, UNCHANGED <<request, journal, staging, runtime, clone, applied, cleaned>>
  PROVE  TargetsAreApart' /\ \A o \in Op : RowIsSound(o)'
  BY DEF ForkInv, TargetsAreApart, RowIsSound, HasTarget, CanGoOn, FollowsEffects, NotesAreTrue,
         IsWhole, IsGone, Reached, HasRow, OutOfTheWay

\* The record with which a call begins.
LEMMA FirstStepIsSound ==
  ASSUME NEW h \in Host, NEW o \in Op, NEW c \in Call, call'[h] = c, c.op = o, c.what # "none",
         c.what # "settle", request'[o].target \in Target,
         \/ c.step = "freeze" /\ c.what = "fork" /\ ~c.fresh
         \/ c.step = "reload" /\ c.what \in Forward /\ journal'[o].state # "absent" /\ ~c.fresh
         \/ /\ c.step = "lease" /\ c.at = "needs_attention"
            /\ journal'[o].state = "needs_attention"
  PROVE  CallIsSound(h)'
<1>1. OpOf(h)' = o /\ TargetOf(h)' \in Target /\ Busy(h)'
  BY DEF OpOf, TargetOf, Busy
<1>2. IsAsked(h)' /\ ReadsTrue(h)' /\ FitsRow(h)'
  BY <1>1 DEF IsAsked, ReadsTrue, FitsRow, HasRow, Working, Forward
<1>3. HoldsLease(h)' /\ HasBundle(h)' /\ KnowsTarget(h)' /\ HasEffect(h)'
  BY DEF HoldsLease, HasBundle, KnowsTarget, HasEffect, Leased
<1> QED BY <1>2, <1>3 DEF CallIsSound

LEMMA BeginKeeps ==
  ASSUME ForkAssumption, ForkInv, NEW h \in Host, NEW o \in Op, NEW c, Turns(h, c),
         source' \in {source, h}, UNCHANGED <<asked, journal, staging, world, lock, up>>,
         \/ /\ request[o].kind \notin {"none", "fork"}
            /\ c = [Idle EXCEPT !.what = "fork", !.op = o,
                                !.step = IF HasRow(o) THEN "reload" ELSE "freeze"]
         \/ /\ journal[o].state \in Unfinished
            /\ c = [Idle EXCEPT !.what = "recover", !.op = o, !.step = "reload"]
         \/ /\ journal[o].state = "needs_attention"
            /\ \E w \in {"retry", "abort"} :
                 c = [what |-> w, op |-> o, step |-> "lease", at |-> "needs_attention",
                      fresh |-> TRUE]
  PROVE  ForkInv'
<1>1. /\ c \in Call /\ c.op = o /\ c.what \notin {"none", "settle"}
      /\ \/ c.step = "freeze" /\ c.what = "fork" /\ ~c.fresh
         \/ c.step = "reload" /\ c.what \in Forward /\ journal[o].state # "absent" /\ ~c.fresh
         \/ c.step = "lease" /\ c.at = "needs_attention" /\ journal[o].state = "needs_attention"
  <2>1. CASE c = [Idle EXCEPT !.what = "fork", !.op = o,
                              !.step = IF HasRow(o) THEN "reload" ELSE "freeze"]
    BY <2>1 DEF Idle, Call, What, Step, Forward, HasRow
  <2>2. CASE /\ journal[o].state \in Unfinished
             /\ c = [Idle EXCEPT !.what = "recover", !.op = o, !.step = "reload"]
    BY <2>2 DEF Idle, Call, What, Step, Forward, Unfinished
  <2>3. ASSUME NEW w \in {"retry", "abort"}, journal[o].state = "needs_attention",
               c = [what |-> w, op |-> o, step |-> "lease", at |-> "needs_attention",
                    fresh |-> TRUE]
        PROVE  /\ c \in Call /\ c.op = o /\ c.what \notin {"none", "settle"}
               /\ c.step = "lease" /\ c.at = "needs_attention"
    BY <2>3 DEF Call, What, Step, Terminal
  <2> QED BY <2>1, <2>2, <2>3
<1>2. call' \in [Host -> Call] /\ call'[h] = c /\ \A g \in Host \ {h} : call'[g] = call[g]
  BY <1>1 DEF ForkInv, TypeOK, Turns
<1>3. TypeOK'
  BY <1>2 DEF ForkInv, TypeOK, asked, world
<1>4. request[o].target \in Target /\ journal' = journal /\ request' = request
  <2>1. request[o] # Unused \/ HasRow(o)
    BY DEF Unused, HasRow, Unfinished
  <2> QED BY <2>1 DEF ForkInv, RowIsSound, HasTarget, asked
<1>5. CallIsSound(h)'
  BY <1>1, <1>2, <1>4, FirstStepIsSound
<1>6. ASSUME NEW g \in Host, g # h PROVE CallIsSound(g)'
  BY <1>2, <1>6, NothingHappens DEF ForkInv, asked, world
<1>7. TargetsAreApart' /\ \A p \in Op : RowIsSound(p)'
  BY RowsAsTheyWere DEF asked, world
<1> QED BY <1>3, <1>5, <1>6, <1>7 DEF ForkInv

LEMMA ForkBeginsKeeps ==
  ASSUME ForkAssumption, ForkInv, NEW h \in Host, NEW o \in Op, NEW k \in Kind, NEW t \in Target,
         ForkBegins(h, o, k, t)
  PROVE  ForkInv'
<1> DEFINE c == [Idle EXCEPT !.what = "fork", !.op = o, !.step = "freeze"]
<1>1. /\ call[h] = Idle /\ request[o] = Unused
      /\ \A p \in Op : request[p].target = t => k = "fork" /\ request[p].kind = "fork"
      /\ request' = [request EXCEPT ![o] = [kind |-> k, target |-> t]]
      /\ source' = h /\ call' = [call EXCEPT ![h] = c]
      /\ UNCHANGED <<goal, journal, earlier, staging, original, world, lock, up>>
  BY DEF ForkBegins
<1>2. c \in Call /\ c.op = o /\ c.what = "fork" /\ c.step = "freeze" /\ ~c.fresh
  BY DEF Idle, Call, What, Step
<1> HIDE DEF c
<1>3. /\ call' \in [Host -> Call] /\ call'[h] = c /\ \A g \in Host \ {h} : call'[g] = call[g]
      /\ request' \in [Op -> [kind : Kind \cup {"none"}, target : Target \cup {NoTarget}]]
      /\ request'[o] = [kind |-> k, target |-> t]
      /\ \A p \in Op \ {o} : request'[p] = request[p]
  BY <1>1, <1>2 DEF ForkInv, TypeOK
<1>4. TypeOK'
  BY <1>1, <1>3 DEF ForkInv, TypeOK, world
<1>5. CallIsSound(h)'
  BY <1>2, <1>3, FirstStepIsSound
<1>6. ASSUME NEW g \in Host, g # h PROVE CallIsSound(g)'
  <2>1. Busy(g) => request'[OpOf(g)] = request[OpOf(g)]
    BY <1>1, <1>3 DEF ForkInv, CallIsSound, IsAsked, TargetOf, OpOf, Unused, ForkAssumption
  <2> QED BY <1>1, <1>3, <1>6, <2>1, NothingHappens DEF ForkInv, world
<1>7. ~HasRow(o) /\ staging[o] = "none"
  BY <1>1 DEF ForkInv, RowIsSound, HasTarget, Unused, ForkAssumption
<1>8. TargetsAreApart'
  <2>1. ASSUME NEW p \in Op, NEW q \in Op, p # q, request'[p].target \in Target,
               request'[p].target = request'[q].target
        PROVE  request'[p].kind = "fork" /\ request'[q].kind = "fork"
    BY <1>1, <1>3, <2>1 DEF ForkInv, TargetsAreApart
  <2>2. ASSUME NEW u \in Target, runtime[u].part \in {"begun", "published"}
        PROVE  runtime[u].of \in Op /\ request'[runtime[u].of].target = u
    BY <1>1, <1>3, <2>2 DEF ForkInv, TargetsAreApart, Unused, ForkAssumption
  <2> QED BY <1>1, <2>1, <2>2 DEF TargetsAreApart, world
<1>9. ASSUME NEW p \in Op PROVE RowIsSound(p)'
  <2>1. CASE p = o
    BY <1>1, <1>3, <1>7, <2>1
       DEF RowIsSound, HasTarget, CanGoOn, FollowsEffects, NotesAreTrue, Reached, HasRow,
           Unfinished, Kind
  <2>2. CASE p # o
    <3>1. RowIsSound(p) /\ request'[p] = request[p]
      BY <1>3, <2>2 DEF ForkInv
    <3>2. HasTarget(p)' /\ CanGoOn(p)' /\ FollowsEffects(p)' /\ NotesAreTrue(p)'
      BY <1>1, <3>1 DEF RowIsSound, HasTarget, CanGoOn, FollowsEffects, NotesAreTrue, Reached,
         HasRow, OutOfTheWay, world
    <3>3. journal'[p].state = "completed" => IsWhole(p)'
      BY <1>1, <3>1 DEF RowIsSound, IsWhole, world
    <3>4. ASSUME journal'[p].state = "aborted" PROVE IsGone(p)'
      <4>1. IsGone(p) /\ request[p].target \in Target
        BY <1>1, <3>1, <3>4 DEF RowIsSound, HasTarget, HasRow
      <4>2. \A q \in Op : request[q].target = request[p].target => request'[q] = request[q]
        BY <1>1, <1>3, <4>1 DEF Unused, ForkAssumption
      <4> QED BY <1>1, <3>1, <4>1, <4>2 DEF IsGone, world
    <3> QED BY <3>2, <3>3, <3>4 DEF RowIsSound
  <2> QED BY <2>1, <2>2
<1> QED BY <1>4, <1>5, <1>6, <1>8, <1>9 DEF ForkInv

LEMMA DiesKeeps ==
  ASSUME ForkAssumption, ForkInv, NEW h \in Host, Dies(h)
  PROVE  ForkInv'
<1>1. call' = [call EXCEPT ![h] = Idle] /\ UNCHANGED <<asked, journal, staging, world>>
      /\ lock' = [t \in Target |-> IF lock[t] = h THEN NoHost ELSE lock[t]]
      /\ source' \in {source, NoHost} /\ up' \subseteq up
  BY DEF Dies
<1>2. Idle \in Call
  BY DEF Idle, Call, What, Step
<1>3. /\ call' \in [Host -> Call] /\ call'[h] = Idle
      /\ \A g \in Host \ {h} : call'[g] = call[g]
      /\ lock' \in [Target -> Host \cup {NoHost}]
  BY <1>1, <1>2 DEF ForkInv, TypeOK
<1>4. TypeOK'
  BY <1>1, <1>3 DEF ForkInv, TypeOK, asked, world
<1>5. ASSUME NEW g \in Host PROVE CallIsSound(g)'
  <2>1. CASE g = h
    BY <1>3, <2>1, IdleIsSound
  <2>2. CASE g # h
    <3>1. call[g].step \in Leased => lock'[TargetOf(g)] = lock[TargetOf(g)]
      <4>1. call[g].step \in Leased => lock[TargetOf(g)] = g /\ TargetOf(g) \in Target
        BY DEF ForkInv, CallIsSound, IsAsked, HoldsLease, Busy, Leased
      <4> QED BY <1>1, <2>2, <4>1
    <3> QED BY <1>1, <1>3, <2>2, <3>1, NothingHappens DEF ForkInv, asked, world
  <2> QED BY <2>1, <2>2
<1>6. TargetsAreApart' /\ \A p \in Op : RowIsSound(p)'
  BY <1>1, RowsAsTheyWere DEF asked, world
<1> QED BY <1>4, <1>5, <1>6 DEF ForkInv

LEMMA OutsideKeeps ==
  ASSUME ForkAssumption, ForkInv, Edit \/ UNCHANGED vars
  PROVE  ForkInv'
<1>1. /\ call' = call /\ lock' = lock /\ file' \in {file, Edited}
      /\ UNCHANGED <<asked, journal, staging, runtime, clone, applied, cleaned, source, up>>
  BY DEF Edit, vars, asked
<1>2. TypeOK'
  BY <1>1 DEF ForkInv, TypeOK, asked
<1>3. ASSUME NEW g \in Host PROVE CallIsSound(g)'
  BY <1>1, NothingHappens DEF ForkInv, asked
<1>4. TargetsAreApart' /\ \A p \in Op : RowIsSound(p)'
  BY <1>1, RowsAsTheyWere DEF asked
<1> QED BY <1>2, <1>3, <1>4 DEF ForkInv

-----------------------------------------------------------------------------
(* The theorems.                                                           *)

\* A host dies, or its call takes a step that minds its own.
LEMMA StepsKeep ==
  ASSUME ForkAssumption, ForkInv, NEW h \in Host, CallStep(h), ~Dies(h)
  PROVE  Busy(h) /\ Keeps(h)
<1>1. Busy(h)
  BY DEF CallStep, Freeze, Insert, Reload, AcquireLease, LeaseTimeout, Owned, Released, Check,
         Apply, CloneHistory, NoteSidecars, OpenTarget, FillTarget, PublishTarget, Advance,
         CleanStaging, Restore, RollBack, Erase, Unclone, Drop, FindCandidate, Reread, Look,
         SettleCommits, SettleSeals, SettleAbandons, Fails, At, Busy
<1>2. Keeps(h)
  BY FreezeKeeps, InsertKeeps, ReloadKeeps, AcquireLeaseKeeps, LeaseTimeoutKeeps, OwnedKeeps,
     ReleasedKeeps, CheckKeeps, ApplyKeeps, CloneHistoryKeeps, NoteSidecarsKeeps, OpenTargetKeeps,
     FillTargetKeeps, PublishTargetKeeps, AdvanceKeeps, CleanStagingKeeps, RestoreKeeps,
     RollBackKeeps, EraseKeeps, UncloneKeeps, DropKeeps, FindCandidateKeeps, RereadKeeps,
     LookKeeps, SettleCommitsKeeps, SettleSealsKeeps, SettleAbandonsKeeps, FailsKeeps
     DEF CallStep
<1> QED BY <1>1, <1>2

LEMMA NextKeeps ==
  ASSUME ForkAssumption, ForkInv, [Next]_vars
  PROVE  ForkInv'
<1>1. ASSUME NEW h \in Host, NEW o \in Op, NEW k \in Kind, NEW t \in Target,
             ForkBegins(h, o, k, t)
      PROVE  ForkInv'
  BY <1>1, ForkBeginsKeeps
<1>2. ASSUME NEW h \in Host, NEW o \in Op,
             \/ ForkAgain(h, o) \/ Recover(h, o)
             \/ \E w \in {"retry", "abort"} : Dispose(h, o, w)
      PROVE  ForkInv'
  <2>1. CASE ForkAgain(h, o)
    BY <2>1, BeginKeeps DEF ForkAgain, Turns, asked
  <2>2. CASE Recover(h, o)
    BY <2>2, BeginKeeps DEF Recover, Turns
  <2>3. CASE \E w \in {"retry", "abort"} : Dispose(h, o, w)
    BY <2>3, BeginKeeps DEF Dispose, Turns
  <2> QED BY <1>2, <2>1, <2>2, <2>3
<1>3. ASSUME NEW h \in Host, CallStep(h) PROVE ForkInv'
  <2>1. CASE Dies(h)
    BY <2>1, DiesKeeps
  <2>2. CASE ~Dies(h)
    <3>1. Busy(h) /\ Keeps(h) /\ TypeOK /\ TargetsAreApart /\ CallIsSound(h)
          /\ \A o \in Op : RowIsSound(o)
      BY <1>3, <2>2, StepsKeep DEF ForkInv
    <3>2. ASSUME NEW g \in Host PROVE CallIsSound(g)'
      <4>1. CallIsSound(g)
        BY DEF ForkInv
      <4> QED BY <3>1, <4>1, OthersStaySound DEF Keeps
    <3>3. TargetsAreApart'
      BY <3>1, TargetsStayApart DEF Keeps
    <3>4. \A p \in Op : RowIsSound(p)'
      BY <3>1, RowsStaySound DEF Keeps
    <3> QED BY <3>1, <3>2, <3>3, <3>4 DEF Keeps, ForkInv
  <2> QED BY <2>1, <2>2
<1>4. CASE Edit \/ UNCHANGED vars
  BY <1>4, OutsideKeeps
<1> QED BY <1>1, <1>2, <1>3, <1>4 DEF Next

LEMMA InitIsSound ==
  ASSUME ForkAssumption, Init
  PROVE  ForkInv
<1>1. Idle \in Call /\ Absent \in Row /\ Unused \in [kind : Kind \cup {"none"},
                                                    target : Target \cup {NoTarget}]
  BY DEF Idle, Absent, Unused, Call, Row, What, Step
<1>2. TypeOK
  BY <1>1 DEF Init, TypeOK, Staging, Part, ForkAssumption
<1>3. TargetsAreApart
  BY DEF Init, TargetsAreApart, Unused, ForkAssumption
<1>4. ASSUME NEW h \in Host PROVE CallIsSound(h)
  BY DEF Init, Idle, CallIsSound, IsAsked, HoldsLease, ReadsTrue, FitsRow, HasBundle,
         KnowsTarget, HasEffect, Busy, Leased, Working
<1>5. ASSUME NEW o \in Op PROVE RowIsSound(o)
  BY DEF Init, RowIsSound, HasTarget, CanGoOn, FollowsEffects, NotesAreTrue, Reached, HasRow,
         OutOfTheWay, Absent, Unused, Unfinished
<1> QED BY <1>2, <1>3, <1>4, <1>5 DEF ForkInv

\* Whatever calls, deaths, recoveries and dispositions come together, what rows, targets and
\* calls say of each other is true.
THEOREM ForkInvariant == Spec => []ForkInv
<1>1. Init => ForkInv
  BY InitIsSound, ForkAssumption
<1>2. ForkInv /\ [Next]_vars => ForkInv'
  BY NextKeeps, ForkAssumption
<1> QED BY <1>1, <1>2, PTL DEF Spec

\* A fork that is recorded as completed is published, as a whole and by itself.
THEOREM CompletedForksArePublished == Spec => []CompletedIsPublished
<1>1. ForkInv => CompletedIsPublished
  BY DEF ForkInv, RowIsSound, CompletedIsPublished
<1> QED BY <1>1, ForkInvariant, PTL

\* The journal never runs ahead of the restored workspace and the cloned history.
THEOREM TheJournalFollowsTheEffects == Spec => []EffectsPrecedeJournal
<1>1. ForkInv => EffectsPrecedeJournal
  BY DEF ForkInv, RowIsSound, EffectsPrecedeJournal
<1> QED BY <1>1, ForkInvariant, PTL

\* No step of any call takes away a published target or changes how an operation ended.
THEOREM EndsStand == Spec => NothingIsUndone
<1> DEFINE Stands == /\ \A t \in Target : runtime[t].part = "published" => runtime'[t] = runtime[t]
                     /\ \A o \in Op : OutOfTheWay(o) => journal'[o] = journal[o]
<1>1. ASSUME ForkInv, [Next]_vars PROVE [Stands]_vars
  <2>1. ASSUME NEW h \in Host, CallStep(h), ~Dies(h) PROVE Stands
    <3>1. Busy(h) /\ Minds(h) /\ Known(h)
      BY <1>1, <2>1, StepsKeep, Knowledge, ForkAssumption DEF Keeps
    <3>2. \A t \in Target : runtime[t].part = "published" => runtime'[t] = runtime[t]
      BY <3>1 DEF Minds, SparesOthers, TargetMoves
    <3>3. \A o \in Op \ {OpOf(h)} : journal'[o] = journal[o]
      BY <3>1 DEF Minds, SparesOthers
    <3>4. OutOfTheWay(OpOf(h)) => journal'[OpOf(h)] = journal[OpOf(h)]
      BY <3>1, RowsStay DEF Minds, Known, RowIsSound
    <3> QED BY <3>2, <3>3, <3>4
  <2>2. CASE UNCHANGED <<runtime, journal>>
    BY <2>2
  <2>3. \/ \E h \in Host : CallStep(h) /\ ~Dies(h)
        \/ UNCHANGED <<runtime, journal>>
    BY <1>1 DEF Next, ForkBegins, ForkAgain, Recover, Dispose, Dies, Edit, world, asked, vars
  <2> QED BY <2>1, <2>2, <2>3
<1>2. ForkInv /\ [Next]_vars => [Stands]_vars
  BY <1>1
<1> QED BY <1>2, ForkInvariant, PTL DEF Spec, NothingIsUndone

-----------------------------------------------------------------------------
(* The file.                                                               *)

\* A call goes on, or it ends: with the source it gives up what was asked.
Turned(h, s) ==
  call'[h].step = s /\ call'[h].op = OpOf(h) /\ call'[h].what = call[h].what
Ended(h) ==
  /\ call'[h].what \in {"none", "settle"} /\ call'[h].step \in {"none", "find", "reread", "look"}
  /\ source' = source \/ source = h

LEMMA Turning ==
  ASSUME TypeOK, NEW h \in Host
  PROVE  /\ \A s : Goes(h, s) \/ Reads(h, s) => Turned(h, s)
         /\ \A row, s : WritesRow(h, row, s) =>
              Turned(h, s) /\ (OpOf(h) \in Op => journal'[OpOf(h)] = row)
         /\ Throws(h) => Turned(h, "throw") /\ journal' = journal
         /\ GivesUp(h) => Ended(h) /\ journal' = journal
         /\ \A at : Ends(h, at) => Ended(h)
<1>1. call \in [Host -> Call] /\ call[h] \in Call /\ journal \in [Op -> Row]
  BY DEF TypeOK
<1>2. ASSUME NEW s, Goes(h, s) \/ Reads(h, s) PROVE Turned(h, s)
  BY <1>1, <1>2 DEF Goes, Reads, Turned, Call, OpOf
<1>3. ASSUME NEW row, NEW s, WritesRow(h, row, s)
      PROVE  Turned(h, s) /\ (OpOf(h) \in Op => journal'[OpOf(h)] = row)
  BY <1>1, <1>3 DEF WritesRow, Turned, Call, OpOf
<1>4. ASSUME Throws(h) PROVE Turned(h, "throw") /\ journal' = journal
  BY <1>1, <1>4 DEF Throws, Turned, Call, OpOf
<1>5. ASSUME GivesUp(h) PROVE Ended(h) /\ journal' = journal
  BY <1>1, <1>5 DEF GivesUp, Ended, Idle
<1>6. ASSUME NEW at, Ends(h, at) PROVE Ended(h)
  <2>1. CASE GoesOn(h, at)
    BY <1>1, <1>6, <2>1 DEF Ends, Ended, GoesOn, Call
  <2>2. CASE ~GoesOn(h, at)
    BY <1>1, <1>6, <2>2 DEF Ends, Ended, Idle
  <2> QED BY <2>1, <2>2
<1> QED BY <1>2, <1>3, <1>4, <1>5, <1>6

\* What a step of a call may do where the file is concerned, by the step it is at.
Careful(h) ==
  /\ source' = source \/ source = h
  /\ call'[h].what = "fork" => call[h].what = "fork" /\ source' = source
  /\ call'[h].step # "freeze"
  /\ call[h].step \in {"freeze", "find"} => journal' = journal
  /\ call'[h].step \in {"erase", "unclone", "drop"} =>
       call'[h].op = OpOf(h) /\ call[h].step \in {"cleanup", "erase", "unclone"}
  /\ journal'[OpOf(h)].state = "aborted" =>
       journal[OpOf(h)].state = "aborted" \/ call[h].step = "drop"
  /\ staging' = staging \/ call[h].step \in {"freeze", "note", "clean", "tidy"}
  /\ UNCHANGED <<file, original>> \/ call[h].step \in {"freeze", "apply", "cleanup"}

LEMMA EndingIsCareful ==
  ASSUME NEW h \in Host, Ended(h), UNCHANGED <<journal, file, original>>,
         staging' = staging \/ call[h].step = "tidy"
  PROVE  Careful(h)
  BY DEF Ended, Careful

LEMMA TurningIsCareful ==
  ASSUME NEW h \in Host, NEW s, Turned(h, s), s # "freeze", source' = source,
         call[h].step \in {"freeze", "find"} => journal' = journal,
         s \in {"erase", "unclone", "drop"} => call[h].step \in {"cleanup", "erase", "unclone"},
         journal'[OpOf(h)].state = "aborted" =>
           journal[OpOf(h)].state = "aborted" \/ call[h].step = "drop",
         staging' = staging \/ call[h].step \in {"freeze", "note", "clean", "tidy"},
         UNCHANGED <<file, original>> \/ call[h].step \in {"freeze", "apply", "cleanup"}
  PROVE  Careful(h)
  BY DEF Turned, Careful

LEMMA StepsAreCareful ==
  ASSUME ForkInv, NEW h \in Host, CallStep(h), ~Dies(h)
  PROVE  Careful(h)
<1>k. TypeOK /\ OpOf(h) \in Op /\ call[h] \in Call /\ journal[OpOf(h)] \in Row
  <2>1. Busy(h)
    BY DEF CallStep, Freeze, Insert, Reload, AcquireLease, LeaseTimeout, Owned, Released, Check,
           Apply, CloneHistory, NoteSidecars, OpenTarget, FillTarget, PublishTarget, Advance,
           CleanStaging, Restore, RollBack, Erase, Unclone, Drop, FindCandidate, Reread, Look,
           SettleCommits, SettleSeals, SettleAbandons, Fails, At, Busy
  <2> QED BY <2>1, Knowledge DEF Known
<1>t. /\ \A s : Goes(h, s) \/ Reads(h, s) => Turned(h, s)
      /\ \A row, s : WritesRow(h, row, s) => Turned(h, s) /\ journal'[OpOf(h)] = row
      /\ Throws(h) => Turned(h, "throw") /\ journal' = journal
      /\ GivesUp(h) => Ended(h) /\ journal' = journal
      /\ \A at : Ends(h, at) => Ended(h)
  BY <1>k, Turning
<1>throws. ASSUME Throws(h), UNCHANGED <<source, staging, file, original>> PROVE Careful(h)
  BY <1>t, <1>throws, TurningIsCareful
<1>writes. ASSUME NEW row, NEW s, WritesRow(h, row, s), UNCHANGED <<source, staging, file, original>>,
                  row.state = "aborted" => journal[OpOf(h)].state = "aborted" \/ call[h].step = "drop",
                  s \notin {"freeze", "erase", "unclone", "drop"},
                  call[h].step \notin {"freeze", "find"}
           PROVE  Careful(h)
  BY <1>t, <1>writes, TurningIsCareful
<1>conflict. ASSUME NEW lost \in BOOLEAN, Conflict(h, lost), call[h].step \notin {"freeze", "find"},
                    UNCHANGED <<source, staging, file, original>>
             PROVE  Careful(h)
  <2> DEFINE row == [journal[OpOf(h)] EXCEPT !.state = "needs_attention", !.phase = call[h].at,
                                             !.lost = lost]
  <2>1. row.state = "needs_attention"
    BY <1>k DEF Row
  <2>2. WritesRow(h, row, "release") \/ Throws(h)
    BY <1>conflict DEF Conflict
  <2> HIDE DEF row
  <2> QED BY <2>1, <2>2, <1>conflict, <1>throws, <1>writes
<1>1. CASE Freeze(h)
  <2>1. CASE Ends(h, "thrown") /\ UNCHANGED <<staging, original, earlier>>
    BY <1>1, <1>t, <2>1, EndingIsCareful DEF Freeze, world
  <2>2. CASE Goes(h, "insert") /\ UNCHANGED source
    BY <1>1, <1>t, <2>2, TurningIsCareful DEF Freeze, At, world
  <2> QED BY <1>1, <2>1, <2>2 DEF Freeze
<1>2. CASE Insert(h)
  <2>1. CASE Ends(h, "thrown") /\ UNCHANGED journal
    BY <1>2, <1>t, <2>1, EndingIsCareful DEF Insert, asked, world
  <2>2. CASE /\ journal' = [journal EXCEPT ![OpOf(h)].state = "prepared"]
             /\ Goes(h, "reload") /\ UNCHANGED source
    <3>1. journal'[OpOf(h)].state = "prepared"
      BY <1>k, <2>2 DEF TypeOK, Row
    <3> QED BY <1>2, <1>t, <2>2, <3>1, TurningIsCareful DEF Insert, At, asked, world
  <2> QED BY <1>2, <2>1, <2>2 DEF Insert
<1>returns. ASSUME Returns(h), UNCHANGED <<asked, journal, staging, world>> PROVE Careful(h)
  <2>1. CASE Reads(h, "tidy") /\ UNCHANGED source
    BY <1>returns, <1>t, <2>1, TurningIsCareful DEF asked, world
  <2>2. CASE Ends(h, journal[OpOf(h)].state)
    BY <1>returns, <1>t, <2>2, EndingIsCareful DEF asked, world
  <2> QED BY <1>returns, <2>1, <2>2 DEF Returns
<1>3. CASE Reload(h)
  <2>1. CASE Goes(h, "lease") /\ UNCHANGED source
    BY <1>3, <1>t, <2>1, TurningIsCareful DEF Reload, asked, world
  <2> QED BY <1>3, <1>returns, <2>1 DEF Reload
<1>4. CASE AcquireLease(h)
  BY <1>4, <1>t, TurningIsCareful DEF AcquireLease, asked, world
<1>5. CASE LeaseTimeout(h)
  <2>1. CASE Ends(h, "thrown")
    BY <1>5, <1>t, <2>1, EndingIsCareful DEF LeaseTimeout, asked, world
  <2> QED BY <1>5, <1>returns, <2>1 DEF LeaseTimeout
<1>6. CASE Owned(h)
  <2>1. \E s \in {"check", "clean", "release", "throw", "restore", "cleanup"} :
          Goes(h, s) \/ Reads(h, s)
    BY <1>6 DEF Owned
  <2> QED BY <1>6, <1>t, <2>1, TurningIsCareful DEF Owned, asked, world
<1>7. CASE Released(h)
  BY <1>7, <1>t, EndingIsCareful DEF Released, asked, world
<1>8. CASE Check(h)
  <2>1. CASE \E s \in {"apply", "clone", "open"} : Goes(h, s) /\ UNCHANGED journal
    BY <1>8, <1>t, <2>1, TurningIsCareful DEF Check, asked, world
  <2>2. CASE \E lost \in BOOLEAN : Conflict(h, lost)
    BY <1>8, <2>2, <1>conflict DEF Check, At, asked, world
  <2> QED BY <1>8, <2>1, <2>2 DEF Check
<1>9. CASE Apply(h)
  <2>1. CASE Goes(h, "advance") /\ UNCHANGED journal
    BY <1>9, <1>t, <2>1, TurningIsCareful DEF Apply, At, asked
  <2>2. CASE Conflict(h, FALSE) /\ UNCHANGED file
    BY <1>9, <2>2, <1>conflict DEF Apply, At, asked
  <2> QED BY <1>9, <2>1, <2>2 DEF Apply
<1>10. CASE CloneHistory(h)
  <2>1. CASE \E s \in {"advance", "note"} : Goes(h, s) /\ UNCHANGED journal
    BY <1>10, <1>t, <2>1, TurningIsCareful DEF CloneHistory, At, asked
  <2>2. CASE Conflict(h, FALSE)
    BY <1>10, <2>2, <1>conflict DEF CloneHistory, At, asked
  <2> QED BY <1>10, <2>1, <2>2 DEF CloneHistory
<1>11. CASE NoteSidecars(h)
  BY <1>11, <1>t, TurningIsCareful DEF NoteSidecars, At, asked, world
<1>12. CASE OpenTarget(h)
  <2>1. CASE Goes(h, "fill") /\ UNCHANGED journal
    BY <1>12, <1>t, <2>1, TurningIsCareful DEF OpenTarget, At, asked
  <2>2. CASE Conflict(h, FALSE)
    BY <1>12, <2>2, <1>conflict DEF OpenTarget, At, asked
  <2> QED BY <1>12, <2>1, <2>2 DEF OpenTarget
<1>13. CASE FillTarget(h)
  BY <1>13, <1>t, TurningIsCareful DEF FillTarget, asked
<1>14. CASE PublishTarget(h)
  BY <1>14, <1>t, TurningIsCareful DEF PublishTarget, asked
<1>15. CASE Advance(h)
  <2> DEFINE next == Following(call[h].at)
             row == [journal[OpOf(h)] EXCEPT !.state = next]
  <2>1. row.state # "aborted"
    BY <1>k DEF Row, Following
  <2>2. \E s \in {"clean", "check"} : WritesRow(h, row, s) \/ Throws(h)
    BY <1>15 DEF Advance
  <2> HIDE DEF row
  <2> QED BY <1>15, <2>1, <2>2, <1>throws, <1>writes DEF Advance, At, asked, world
<1>16. CASE CleanStaging(h)
  <2>1. CASE At(h, "clean") /\ Goes(h, "release") /\ UNCHANGED source
    BY <1>16, <1>t, <2>1, TurningIsCareful DEF CleanStaging, At, asked, world
  <2>2. CASE At(h, "tidy") /\ Ends(h, "completed")
    BY <1>16, <1>t, <2>2, EndingIsCareful DEF CleanStaging, At, asked, world
  <2> QED BY <1>16, <2>1, <2>2 DEF CleanStaging
<1>17. CASE Restore(h)
  <2> DEFINE row == [journal[OpOf(h)] EXCEPT !.state = journal[OpOf(h)].phase,
                                             !.phase = "none", !.lost = FALSE]
  <2>1. row.state # "aborted"
    BY <1>k DEF Row, Unfinished
  <2>2. WritesRow(h, row, "check") \/ Throws(h)
    BY <1>17 DEF Restore
  <2> HIDE DEF row
  <2> QED BY <1>17, <2>1, <2>2, <1>throws, <1>writes DEF Restore, At, asked, world
<1>18. CASE RollBack(h)
  <2>1. CASE Throws(h) /\ UNCHANGED file
    BY <1>18, <2>1, <1>throws DEF RollBack, asked
  <2>2. CASE Goes(h, "erase") /\ UNCHANGED journal
    BY <1>18, <1>t, <2>2, TurningIsCareful DEF RollBack, At, asked
  <2> QED BY <1>18, <2>1, <2>2 DEF RollBack
<1>19. CASE Erase(h)
  <2>1. CASE Throws(h)
    BY <1>19, <2>1, <1>throws DEF Erase, asked
  <2>2. CASE Goes(h, "unclone") /\ UNCHANGED journal
    BY <1>19, <1>t, <2>2, TurningIsCareful DEF Erase, At, asked
  <2> QED BY <1>19, <2>1, <2>2 DEF Erase
<1>20. CASE Unclone(h)
  BY <1>20, <1>t, TurningIsCareful DEF Unclone, At, asked
<1>21. CASE Drop(h)
  <2>1. \E row : WritesRow(h, row, "clean") \/ Throws(h)
    BY <1>21 DEF Drop
  <2> QED BY <1>21, <2>1, <1>throws, <1>writes DEF Drop, At, asked, world
<1>22. CASE FindCandidate(h)
  <2>1. CASE GivesUp(h)
    BY <1>22, <1>t, <2>1, EndingIsCareful DEF FindCandidate, asked, world
  <2>2. CASE \E s \in {"reload", "look"} : Reads(h, s) /\ UNCHANGED <<journal, source>>
    BY <1>22, <1>t, <2>2, TurningIsCareful DEF FindCandidate, asked, world
  <2> QED BY <1>22, <2>1, <2>2 DEF FindCandidate
<1>23. CASE Reread(h)
  <2>1. CASE GivesUp(h)
    BY <1>23, <1>t, <2>1, EndingIsCareful DEF Reread, asked, world
  <2>2. CASE Reads(h, "look") /\ UNCHANGED <<journal, source>>
    BY <1>23, <1>t, <2>2, TurningIsCareful DEF Reread, asked, world
  <2> QED BY <1>23, <2>1, <2>2 DEF Reread
<1>24. CASE Look(h)
  <2>1. CASE GivesUp(h)
    BY <1>24, <1>t, <2>1, EndingIsCareful DEF Look, asked, world
  <2>2. CASE \E s \in {"commit", "seal", "only"} : Goes(h, s) /\ UNCHANGED <<journal, source>>
    BY <1>24, <1>t, <2>2, TurningIsCareful DEF Look, asked, world
  <2> QED BY <1>24, <2>1, <2>2 DEF Look
<1>25. CASE SettleCommits(h)
  <2>1. CASE GivesUp(h)
    BY <1>25, <1>t, <2>1, EndingIsCareful DEF SettleCommits, asked, world
  <2>2. CASE ~GivesUp(h)
    <3>1. /\ journal' = [journal EXCEPT ![OpOf(h)].state = "completed"]
          /\ call' = [g \in Host |->
                        IF g = h THEN Idle
                        ELSE IF call[g].op = OpOf(h) THEN [call[g] EXCEPT !.fresh = FALSE]
                        ELSE call[g]]
          /\ source' = IF source = h THEN NoHost ELSE source
      BY <1>25, <2>2 DEF SettleCommits
    <3>2. call'[h] = Idle /\ journal'[OpOf(h)].state = "completed"
      BY <3>1, <1>k DEF TypeOK, Row
    <3> QED BY <1>25, <3>1, <3>2 DEF SettleCommits, Careful, Idle, At, asked, world
  <2> QED BY <2>1, <2>2
<1>26. CASE SettleSeals(h)
  <2> DEFINE row == [journal[OpOf(h)] EXCEPT
                       !.state = "needs_attention", !.phase = call[h].at, !.lost = FALSE,
                       !.sealed = @ \/ request[OpOf(h)].kind = "both"]
  <2>1. CASE GivesUp(h)
    BY <1>26, <1>t, <2>1, EndingIsCareful DEF SettleSeals, asked, world
  <2>2. CASE WritesRow(h, row, "only") /\ UNCHANGED source
    <3>1. row.state = "needs_attention"
      BY <1>k DEF Row
    <3> HIDE DEF row
    <3> QED BY <1>26, <2>2, <3>1, <1>writes DEF SettleSeals, At, asked, world
  <2> QED BY <1>26, <2>1, <2>2 DEF SettleSeals
<1>27. CASE SettleAbandons(h)
  <2> DEFINE row == [journal[OpOf(h)] EXCEPT !.sealed = TRUE]
  <2>1. CASE GivesUp(h)
    BY <1>27, <1>t, <2>1, EndingIsCareful DEF SettleAbandons, asked, world
  <2>2. CASE WritesRow(h, row, "only") /\ UNCHANGED source
    <3>1. row.state = journal[OpOf(h)].state
      BY <1>k DEF Row
    <3> HIDE DEF row
    <3> QED BY <1>27, <2>2, <3>1, <1>writes DEF SettleAbandons, At, asked, world
  <2>3. CASE /\ call' = [call EXCEPT ![h].what = "abort", ![h].step = "lease"]
             /\ UNCHANGED <<journal, source>>
    <3>1. call'[h].what = "abort" /\ call'[h].step = "lease"
      BY <2>3, <1>k DEF TypeOK, Call
    <3> QED BY <1>27, <2>3, <3>1 DEF SettleAbandons, Careful, asked, world
  <2> QED BY <1>27, <2>1, <2>2, <2>3 DEF SettleAbandons
<1>28. CASE Fails(h)
  <2>1. CASE Throws(h) /\ UNCHANGED source
    BY <1>28, <2>1, <1>throws DEF Fails, asked, world
  <2>2. CASE Ends(h, "thrown") /\ UNCHANGED journal
    BY <1>28, <1>t, <2>2, EndingIsCareful DEF Fails, asked, world
  <2>3. CASE GivesUp(h)
    BY <1>28, <1>t, <2>3, EndingIsCareful DEF Fails, asked, world
  <2> QED BY <1>28, <2>1, <2>2, <2>3 DEF Fails
<1> QED
  BY <1>1, <1>2, <1>3, <1>4, <1>5, <1>6, <1>7, <1>8, <1>9, <1>10, <1>11, <1>12, <1>13, <1>14,
     <1>15, <1>16, <1>17, <1>18, <1>19, <1>20, <1>21, <1>22, <1>23, <1>24, <1>25, <1>26, <1>27,
     <1>28 DEF CallStep

\* The other calls go on as they were, but for the freshness of what they have read.
LEMMA OthersGoOn ==
  ASSUME TypeOK, NEW h \in Host, SparesCalls(h), NEW g \in Host, g # h
  PROVE  /\ call'[g].what = call[g].what /\ call'[g].step = call[g].step
         /\ call'[g].op = OpOf(g)
<1>1. call[g] \in Call
  BY DEF TypeOK
<1>2. CASE call'[g] = call[g]
  BY <1>2 DEF OpOf
<1>3. CASE call'[g] = [call[g] EXCEPT !.fresh = FALSE]
  BY <1>1, <1>3 DEF Call, OpOf
<1> QED BY <1>2, <1>3 DEF SparesCalls

\* Nobody else begins while a fork has the source, or creates a row.
LEMMA SourceKept ==
  ASSUME ForkAssumption, ForkInv, \A g \in Host : AtSource(g), NEW h \in Host, Busy(h), Keeps(h),
         Careful(h), NEW g \in Host
  PROVE  AtSource(g)'
<1> DEFINE o == OpOf(h)
<1>k. Known(h)
  BY Knowledge
<1>1. CASE g = h
  BY <1>1 DEF AtSource, Careful
<1>2. CASE g # h
  <2>1. call'[g].what = call[g].what /\ call'[g].step = call[g].step /\ call'[g].op = OpOf(g)
    BY <1>2, OthersGoOn DEF ForkInv, Keeps, Minds
  <2>2. call[g].what = "fork" => source' = g
    BY <1>2 DEF AtSource, Careful
  <2>3. ASSUME call[g].step = "freeze" PROVE ~HasRow(OpOf(g))'
    <3>1. ~HasRow(OpOf(g)) /\ call[g].what = "fork" /\ source = g /\ OpOf(g) \in Op
      BY <2>3 DEF AtSource, ForkInv, CallIsSound, FitsRow, IsAsked, Busy
    <3>2. call[h].step # "insert"
      BY <1>2, <1>k, <3>1 DEF AtSource, Known, CallIsSound, FitsRow
    <3>3. OpOf(g)' = OpOf(g)
      BY <2>1 DEF OpOf
    <3>4. CASE OpOf(g) # o
      BY <3>1, <3>3, <3>4 DEF Keeps, Minds, SparesOthers, HasRow
    <3>5. CASE OpOf(g) = o
      <4>1. call[h].step \in {"freeze", "find"}
        BY <1>k, <3>1, <3>2, <3>5 DEF Known, CallIsSound, ReadsTrue, Busy
      <4> QED BY <3>1, <3>3, <4>1 DEF Careful, HasRow
    <3> QED BY <3>4, <3>5
  <2> QED BY <2>1, <2>2, <2>3 DEF AtSource
<1> QED BY <1>1, <1>2

\* What is frozen stays so, and only Freeze freezes.
LEMMA FrozenKept ==
  ASSUME ForkAssumption, ForkInv, NEW h \in Host, Busy(h), Keeps(h), Careful(h), NEW p \in Op
  PROVE  /\ Frozen(p) => Frozen(p)'
         /\ Frozen(p)' => Frozen(p) \/ (p = OpOf(h) /\ call[h].step = "freeze")
<1>k. Known(h)
  BY Knowledge
<1>1. CASE p # OpOf(h)
  BY <1>1 DEF Keeps, Minds, SparesOthers, Frozen, HasRow
<1>2. CASE p = OpOf(h)
  <2>1. RowMoves(p, journal'[p]) /\ CanGoOn(p) /\ (HasRow(p) => journal'[p].state # "absent")
    BY <1>2, <1>k, RowsStay DEF Known, RowIsSound, Keeps, Minds
  <2>2. Frozen(p) => staging'[p] # "none" \/ journal'[p].state # "absent"
    <3>1. CASE HasRow(p)
      BY <2>1, <3>1
    <3>2. CASE ~HasRow(p)
      BY <1>2, <3>2 DEF Keeps, Minds, TargetMoves, Frozen, HasRow, OutOfTheWay
    <3> QED BY <3>1, <3>2
  <2>3. journal'[p].state # "absent" => Frozen(p)
    BY <2>1 DEF RowMoves, Frozen, HasRow, Unfinished, OutOfTheWay
  <2>4. call[h].step # "freeze" /\ staging'[p] # "none" => Frozen(p)
    BY <1>2, <1>k DEF Careful, Frozen, Known, CallIsSound, ReadsTrue, Busy
  <2> QED BY <1>2, <2>2, <2>3, <2>4 DEF Frozen, HasRow
<1> QED BY <1>1, <1>2

\* Only a rollback takes a restoration back.
LEMMA TakenBackKept ==
  ASSUME ForkAssumption, ForkInv, NEW h \in Host, Busy(h), Keeps(h), Careful(h), NEW p \in Op,
         TakenBack(p)'
  PROVE  TakenBack(p) \/ (p = OpOf(h) /\ call[h].step = "cleanup")
<1> DEFINE o == OpOf(h)
<1>1. CASE journal'[p].state = "aborted"
  <2>1. CASE p # o
    BY <1>1, <2>1 DEF Keeps, Minds, SparesOthers, TakenBack
  <2>2. CASE p = o
    BY <1>1, <2>2 DEF Careful, TakenBack
  <2> QED BY <2>1, <2>2
<1>2. ASSUME NEW g \in Host, call'[g].op = p, call'[g].step \in {"erase", "unclone", "drop"}
      PROVE  TakenBack(p) \/ (p = o /\ call[h].step = "cleanup")
  <2>1. CASE g = h
    BY <1>2, <2>1 DEF Careful, TakenBack
  <2>2. CASE g # h
    <3>1. call'[g].step = call[g].step /\ call'[g].op = OpOf(g)
      BY <2>2, OthersGoOn DEF ForkInv, Keeps, Minds
    <3> QED BY <1>2, <3>1 DEF TakenBack
  <2> QED BY <2>1, <2>2
<1> QED BY <1>1, <1>2 DEF TakenBack, OpOf

\* A step that restores and freezes nothing leaves the layers as they are.
LEMMA LayersStay ==
  ASSUME ForkAssumption, NEW under \in [Op -> SUBSET Op], Layered(under),
         file' \in {file, Edited}, original' = original,
         \A p \in Op : /\ Frozen(p)' <=> Frozen(p)
                       /\ request'[p].kind = "both" \/ ~Frozen(p) \/ request[p].kind # "both"
                       /\ TakenBack(p)' => TakenBack(p)
  PROVE  Layered(under)'
<1>1. \A p \in Op : p \notin Layers(under, file) => p \notin Layers(under, file)'
  BY DEF Layers, ForkAssumption
<1>2. ASSUME NEW p \in Op, Frozen(p)'
      PROVE  under[p] = Layers(under, original[p])' /\ p \notin under[p]
  BY <1>2 DEF Layered, Layers
<1>3. ASSUME NEW p \in Op, ~Frozen(p)' \/ request'[p].kind # "both"
      PROVE  p \notin Layers(under, file)' /\ \A q \in Op : p \notin under[q]
  BY <1>1, <1>3 DEF Layered
<1>4. ASSUME NEW p \in Op, TakenBack(p)' PROVE p \notin Layers(under, file)'
  BY <1>1, <1>4 DEF Layered
<1> QED BY <1>2, <1>3, <1>4 DEF Layered

\* What is frozen lies over nothing, and that it will restore lies over the file.
LEMMA FreezeLayers ==
  ASSUME ForkAssumption, TypeOK, NEW under \in [Op -> SUBSET Op], Layered(under),
         NEW o \in Op, ~Frozen(o), file' = file, request' = request,
         original' = [original EXCEPT ![o] = file],
         \A p \in Op \ {o} : Frozen(p)' => Frozen(p),
         \A p \in Op : /\ Frozen(p) => Frozen(p)'
                       /\ TakenBack(p)' => TakenBack(p)
  PROVE  \E below \in [Op -> SUBSET Op] : Layered(below)'
<1>1. Layers(under, file) \in SUBSET Op /\ o \notin Layers(under, file)
  BY DEF Layers, Layered
<1>2. PICK below \in [Op -> SUBSET Op] :
        below[o] = Layers(under, file) /\ \A p \in Op \ {o} : below[p] = under[p]
  <2> DEFINE b == [under EXCEPT ![o] = Layers(under, file)]
  <2>1. b \in [Op -> SUBSET Op]
    BY <1>1
  <2>2. b[o] = Layers(under, file) /\ \A p \in Op \ {o} : b[p] = under[p]
    BY <1>1
  <2> HIDE DEF b
  <2> QED BY <2>1, <2>2
<1>3. file # o /\ Layers(below, file)' = Layers(under, file)
  <2>1. file # o
    BY <1>1 DEF Layers
  <2> QED BY <1>2, <2>1 DEF Layers
<1>4. \A q \in Op : below[q] = under[q] \/ below[q] = Layers(under, file)
  BY <1>2
<1>5. ASSUME NEW p \in Op, Frozen(p)'
      PROVE  below[p] = Layers(below, original[p])' /\ p \notin below[p]
  <2>1. CASE p = o
    <3>1. original'[p] = file
      BY <2>1 DEF TypeOK
    <3> QED BY <1>1, <1>2, <1>3, <2>1, <3>1 DEF Layers
  <2>2. CASE p # o
    <3>1. Frozen(p) /\ original'[p] = original[p]
      BY <1>5, <2>2 DEF TypeOK
    <3>2. under[p] = Layers(under, original[p]) /\ p \notin under[p] /\ o \notin under[p]
      BY <3>1 DEF Layered
    <3>3. original[p] # o
      BY <3>2 DEF Layers
    <3> QED BY <1>2, <2>2, <3>1, <3>2, <3>3 DEF Layers
  <2> QED BY <2>1, <2>2
<1>6. ASSUME NEW p \in Op, ~Frozen(p)' \/ request'[p].kind # "both"
      PROVE  p \notin Layers(below, file)' /\ \A q \in Op : p \notin below[q]
  <2>1. p \notin Layers(under, file) /\ \A q \in Op : p \notin under[q]
    BY <1>6 DEF Layered
  <2> QED BY <1>3, <1>4, <2>1
<1>7. ASSUME NEW p \in Op, TakenBack(p)' PROVE p \notin Layers(below, file)'
  BY <1>3, <1>7 DEF Layered
<1>8. Layered(below)'
  BY <1>5, <1>6, <1>7 DEF Layered
<1> QED BY <1>2, <1>8

\* A restoration is laid over what was frozen, and a rollback uncovers that.
LEMMA RestorationLayers ==
  ASSUME ForkAssumption, TypeOK, NEW under \in [Op -> SUBSET Op], Layered(under),
         NEW o \in Op, Frozen(o), request[o].kind = "both", Undisturbed(o),
         UNCHANGED <<original, request>>,
         \A p \in Op : Frozen(p)' <=> Frozen(p),
         \A p \in Op \ {o} : TakenBack(p)' => TakenBack(p),
         \/ file' = o /\ ~TakenBack(o)'
         \/ file' = original[o]
  PROVE  Layered(under)'
<1>1. /\ under[o] = Layers(under, original[o]) /\ o \notin under[o]
      /\ file = o \/ file = original[o]
  BY DEF Layered, Undisturbed
<1>2. \A p \in Op : p \notin Layers(under, file) => p \notin under[o]
  BY <1>1 DEF Layers
<1>3. Layers(under, file)' = under[o] \/ Layers(under, file)' = {o} \cup under[o]
  BY <1>1 DEF Layers
<1>4. \A p \in Op \ {o} : p \notin Layers(under, file) => p \notin Layers(under, file)'
  BY <1>2, <1>3
<1>5. ASSUME NEW p \in Op, Frozen(p)'
      PROVE  under[p] = Layers(under, original[p])' /\ p \notin under[p]
  BY <1>5 DEF Layered, Layers
<1>6. ASSUME NEW p \in Op, ~Frozen(p)' \/ request'[p].kind # "both"
      PROVE  p \notin Layers(under, file)' /\ \A q \in Op : p \notin under[q]
  BY <1>4, <1>6 DEF Layered
<1>7. ASSUME NEW p \in Op, TakenBack(p)' PROVE p \notin Layers(under, file)'
  <2>1. CASE p # o
    BY <1>4, <1>7, <2>1 DEF Layered
  <2>2. CASE p = o
    BY <1>1, <1>7, <2>2 DEF Layers
  <2> QED BY <2>1, <2>2
<1> QED BY <1>5, <1>6, <1>7 DEF Layered

LEMMA FileStep ==
  ASSUME ForkAssumption, ForkInv, ForkInv', NEW h \in Host, CallStep(h), ~Dies(h),
         \A g \in Host : AtSource(g), NEW under \in [Op -> SUBSET Op], Layered(under)
  PROVE  \E below \in [Op -> SUBSET Op] : Layered(below)'
<1>k. Busy(h) /\ Keeps(h) /\ Careful(h) /\ Known(h) /\ TypeOK
  BY StepsKeep, StepsAreCareful, Knowledge DEF Known
<1>o. PICK o \in Op : o = OpOf(h) /\ request' = request
  BY <1>k DEF Known, Keeps, Minds, SparesOthers
<1>f. \A p \in Op : /\ Frozen(p) => Frozen(p)'
                    /\ Frozen(p)' => Frozen(p) \/ (p = o /\ call[h].step = "freeze")
  BY <1>k, <1>o, FrozenKept
<1>t. \A p \in Op : TakenBack(p)' => TakenBack(p) \/ (p = o /\ call[h].step = "cleanup")
  BY <1>k, <1>o, TakenBackKept
<1>same. ASSUME \A p \in Op : Frozen(p)' => Frozen(p), UNCHANGED <<file, original>>,
                call[h].step # "cleanup"
         PROVE  Layered(under)'
  BY <1>same, <1>o, <1>f, <1>t, LayersStay
<1>1. CASE call[h].step \notin {"freeze", "apply", "cleanup"}
  BY <1>1, <1>f, <1>k, <1>same DEF Careful
<1>2. CASE call[h].step = "freeze"
  <2>1. Freeze(h) \/ (Fails(h) /\ UNCHANGED <<staging, file, original>>)
    BY <1>2
       DEF CallStep, Insert, Reload, AcquireLease, LeaseTimeout, Owned, Released, Check,
           Apply, CloneHistory, NoteSidecars, OpenTarget, FillTarget, PublishTarget, Advance,
           CleanStaging, Restore, RollBack, Erase, Unclone, Drop, FindCandidate, Reread, Look,
           SettleCommits, SettleSeals, SettleAbandons, Fails, At, asked, world
  <2>2. ~HasRow(o) /\ journal' = journal
    BY <1>2, <1>k, <1>o DEF AtSource, Careful
  <2>3. CASE staging' = staging /\ UNCHANGED <<file, original>>
    <3>1. \A p \in Op : Frozen(p)' => Frozen(p)
      BY <2>2, <2>3 DEF Frozen, HasRow
    <3> QED BY <1>2, <1>same, <2>3, <3>1
  <2>4. CASE /\ staging' = [staging EXCEPT ![o] = IF @ = "none" THEN "frozen" ELSE @]
             /\ original' = IF staging[o] = "none" THEN [original EXCEPT ![o] = file] ELSE original
             /\ file' = file
    <3>1. CASE staging[o] # "none"
      <4>1. staging' = staging
        BY <1>k, <2>4, <3>1 DEF TypeOK
      <4> QED BY <2>3, <2>4, <3>1, <4>1
    <3>2. CASE staging[o] = "none"
      <4>1. ~Frozen(o) /\ original' = [original EXCEPT ![o] = file]
        BY <2>2, <2>4, <3>2 DEF Frozen
      <4>2. \A p \in Op : TakenBack(p)' => TakenBack(p)
        BY <1>2, <1>t
      <4>3. \A p \in Op \ {o} : Frozen(p)' => Frozen(p)
        BY <1>f
      <4> QED BY <1>k, <1>o, <1>f, <2>4, <4>1, <4>2, <4>3, FreezeLayers
    <3> QED BY <3>1, <3>2
  <2> QED BY <1>o, <2>1, <2>3, <2>4 DEF Freeze, world
<1>3. CASE call[h].step = "apply"
  <2>1. CASE UNCHANGED <<file, original>>
    BY <1>3, <1>f, <1>same, <2>1
  <2>2. CASE ~UNCHANGED <<file, original>>
    <3>1. Apply(h)
      BY <1>3, <2>2
         DEF CallStep, Freeze, Insert, Reload, AcquireLease, LeaseTimeout, Owned, Released, Check,
             CloneHistory, NoteSidecars, OpenTarget, FillTarget, PublishTarget, Advance,
             CleanStaging, Restore, RollBack, Erase, Unclone, Drop, FindCandidate, Reread, Look,
             SettleCommits, SettleSeals, SettleAbandons, Fails, At, asked, world
    <3>2. /\ request[o].kind = "both" /\ Undisturbed(o) /\ file' = o
          /\ original' = original /\ journal' = journal
      BY <1>o, <2>2, <3>1 DEF Apply, asked
    <3>3. HasRow(o) /\ journal[o].state # "aborted" /\ lock[TargetOf(h)] = h
      BY <1>3, <1>k, <1>o DEF Known, CallIsSound, ReadsTrue, FitsRow, HoldsLease, Working, Leased
    <3>4. ~TakenBack(o)
      <4>1. ASSUME NEW g \in Host, OpOf(g) = o, call[g].step \in {"erase", "unclone", "drop"}
            PROVE  FALSE
        <5>1. lock[TargetOf(g)] = g
          BY <4>1 DEF ForkInv, CallIsSound, HoldsLease, Leased
        <5> QED BY <1>3, <1>o, <3>3, <4>1, <5>1 DEF TargetOf, OpOf
      <4> QED BY <3>3, <4>1 DEF TakenBack
    <3>5. Frozen(o) /\ (\A p \in Op : Frozen(p)' <=> Frozen(p)) /\ ~TakenBack(o)'
          /\ \A p \in Op \ {o} : TakenBack(p)' => TakenBack(p)
      BY <1>3, <1>o, <1>f, <1>t, <3>3, <3>4 DEF Frozen
    <3> QED BY <1>k, <1>o, <3>2, <3>5, RestorationLayers
  <2> QED BY <2>1, <2>2
<1>4. CASE call[h].step = "cleanup"
  <2>r. HasRow(o)
    BY <1>4, <1>k, <1>o DEF Known, CallIsSound, ReadsTrue
  <2>f. Frozen(o) /\ \A p \in Op : Frozen(p)' <=> Frozen(p)
    BY <1>4, <1>f, <1>o, <2>r DEF Frozen
  <2>1. RollBack(h) \/ (Fails(h) /\ Throws(h) /\ UNCHANGED <<file, original>>)
    BY <1>4
       DEF CallStep, Freeze, Insert, Reload, AcquireLease, LeaseTimeout, Owned, Released, Check,
           Apply, CloneHistory, NoteSidecars, OpenTarget, FillTarget, PublishTarget, Advance,
           CleanStaging, Restore, Erase, Unclone, Drop, FindCandidate, Reread, Look,
           SettleCommits, SettleSeals, SettleAbandons, Fails, At, asked, world
  <2>2. CASE Throws(h) /\ UNCHANGED <<file, original>>
    <3>1. call'[h].step = "throw" /\ journal' = journal
      BY <1>k, <2>2, Turning DEF Turned
    <3>2. ASSUME NEW p \in Op, TakenBack(p)' PROVE TakenBack(p)
      <4>1. CASE journal'[p].state = "aborted"
        BY <3>1, <4>1 DEF TakenBack
      <4>2. ASSUME NEW g \in Host, call'[g].op = p, call'[g].step \in {"erase", "unclone", "drop"}
            PROVE  TakenBack(p)
        <5>1. g # h
          BY <3>1, <4>2
        <5>2. call'[g].step = call[g].step /\ call'[g].op = OpOf(g)
          BY <1>k, <5>1, OthersGoOn DEF Keeps, Minds
        <5> QED BY <4>2, <5>2 DEF TakenBack
      <4> QED BY <3>2, <4>1, <4>2 DEF TakenBack, OpOf
    <3>3. Layered(under)'
      BY <1>o, <2>2, <2>f, <3>2, LayersStay
    <3> QED BY <3>3
  <2>3. CASE /\ file' = IF request[o].kind = "both" THEN original[o] ELSE file
             /\ request[o].kind = "both" => Undisturbed(o)
             /\ original' = original
    <3>1. \A p \in Op \ {o} : TakenBack(p)' => TakenBack(p)
      BY <1>t
    <3>2. CASE request[o].kind = "both"
      BY <1>k, <1>o, <2>3, <2>f, <3>1, <3>2, RestorationLayers
    <3>3. CASE request[o].kind # "both"
      <4>1. o \notin Layers(under, file)
        BY <1>o, <3>3 DEF Layered
      <4>2. Layers(under, file)' = Layers(under, file) /\ file' = file
        BY <2>3, <3>3 DEF Layers
      <4>3. ASSUME NEW p \in Op, Frozen(p)'
            PROVE  under[p] = Layers(under, original[p])' /\ p \notin under[p]
        BY <2>3, <2>f, <4>3 DEF Layered, Layers
      <4>4. ASSUME NEW p \in Op, ~Frozen(p)' \/ request'[p].kind # "both"
            PROVE  p \notin Layers(under, file)' /\ \A q \in Op : p \notin under[q]
        BY <1>o, <2>f, <4>2, <4>4 DEF Layered
      <4>5. ASSUME NEW p \in Op, TakenBack(p)' PROVE p \notin Layers(under, file)'
        BY <3>1, <4>1, <4>2, <4>5 DEF Layered
      <4>6. Layered(under)'
        BY <4>3, <4>4, <4>5 DEF Layered
      <4> QED BY <4>6
    <3> QED BY <3>2, <3>3
  <2> QED BY <1>o, <2>1, <2>2, <2>3 DEF RollBack, asked
<1> QED BY <1>1, <1>2, <1>3, <1>4

\* Calls begin and end, and the file is edited.
LEMMA OthersSpareTheFile ==
  ASSUME ForkAssumption, ForkInv, FileInv, file' \in {file, Edited},
         UNCHANGED <<journal, staging, original>>,
         \A p \in Op : request'[p] = request[p] \/ ~Frozen(p),
         \A g \in Host : call'[g].step \in {"erase", "unclone", "drop"} => call'[g] = call[g],
         \A g \in Host : AtSource(g)'
  PROVE  FileInv'
<1>1. PICK under \in [Op -> SUBSET Op] : Layered(under)
  BY DEF FileInv
<1>2. \A p \in Op : Frozen(p)' <=> Frozen(p)
  BY DEF Frozen, HasRow
<1>3. \A p \in Op : TakenBack(p)' => TakenBack(p)
  BY DEF TakenBack, OpOf
<1>4. Layered(under)'
  BY <1>1, <1>2, <1>3, LayersStay
<1> QED BY <1>4 DEF FileInv

LEMMA FileKept ==
  ASSUME ForkAssumption, ForkInv, ForkInv', FileInv, [Next]_vars
  PROVE  FileInv'
<1>k. call \in [Host -> Call]
  BY DEF ForkInv, TypeOK
<1>begin. ASSUME NEW h \in Host, NEW c, Turns(h, c), c.step \in {"freeze", "reload", "lease"},
                 file' = file, UNCHANGED <<journal, staging, original>>,
                 \A p \in Op : request'[p] = request[p] \/ ~Frozen(p),
                 \/ c.what # "fork" /\ c.step # "freeze" /\ source' = source
                 \/ source = NoHost /\ source' = h /\ (c.step = "freeze" => ~HasRow(c.op))
          PROVE  FileInv'
  <2>1. call'[h] = c /\ \A g \in Host \ {h} : call'[g] = call[g]
    BY <1>k, <1>begin DEF Turns
  <2>2. ASSUME NEW g \in Host PROVE AtSource(g)'
    <3>1. CASE g = h
      BY <1>begin, <2>1, <3>1 DEF AtSource, OpOf, HasRow
    <3>2. CASE g # h
      <4>1. AtSource(g) /\ call'[g] = call[g]
        BY <2>1, <3>2 DEF FileInv
      <4>2. source' = source \/ source = NoHost
        BY <1>begin
      <4> QED BY <1>begin, <4>1, <4>2 DEF AtSource, OpOf, HasRow, ForkAssumption
    <3> QED BY <3>1, <3>2
  <2>3. \A g \in Host : call'[g].step \in {"erase", "unclone", "drop"} => call'[g] = call[g]
    BY <1>begin, <2>1
  <2> QED BY <1>begin, <2>2, <2>3, OthersSpareTheFile
<1>1. ASSUME NEW h \in Host, NEW o \in Op, NEW k \in Kind, NEW t \in Target,
             ForkBegins(h, o, k, t)
      PROVE  FileInv'
  <2> DEFINE c == [Idle EXCEPT !.what = "fork", !.op = o, !.step = "freeze"]
  <2>1. c.step = "freeze" /\ c.op = o /\ Turns(h, c)
    BY <1>1 DEF Idle, ForkBegins, Turns
  <2>2. ~Frozen(o)
    BY <1>1 DEF ForkBegins, Frozen, ForkInv, RowIsSound, HasTarget, Unused, ForkAssumption
  <2>3. \A p \in Op : request'[p] = request[p] \/ ~Frozen(p)
    BY <1>1, <2>2 DEF ForkBegins, ForkInv, TypeOK
  <2> HIDE DEF c
  <2> QED BY <1>1, <1>begin, <2>1, <2>2, <2>3 DEF ForkBegins, Frozen, world
<1>2. ASSUME NEW h \in Host, NEW o \in Op, ForkAgain(h, o) PROVE FileInv'
  <2> DEFINE c == [Idle EXCEPT !.what = "fork", !.op = o,
                               !.step = IF HasRow(o) THEN "reload" ELSE "freeze"]
  <2>1. /\ c.step \in {"freeze", "reload"} /\ c.op = o /\ Turns(h, c)
        /\ c.step = "freeze" => ~HasRow(o)
    BY <1>2 DEF Idle, ForkAgain, Turns
  <2> HIDE DEF c
  <2> QED BY <1>2, <1>begin, <2>1 DEF ForkAgain, world
<1>3. ASSUME NEW h \in Host, NEW o \in Op, Recover(h, o) PROVE FileInv'
  <2> DEFINE c == [Idle EXCEPT !.what = "recover", !.op = o, !.step = "reload"]
  <2>1. c.step = "reload" /\ c.what = "recover" /\ Turns(h, c)
    BY <1>3 DEF Idle, Recover, Turns
  <2> HIDE DEF c
  <2> QED BY <1>3, <1>begin, <2>1 DEF Recover, asked, world
<1>4. ASSUME NEW h \in Host, NEW o \in Op, NEW w \in {"retry", "abort"}, Dispose(h, o, w)
      PROVE  FileInv'
  <2> DEFINE c == [what |-> w, op |-> o, step |-> "lease", at |-> "needs_attention",
                   fresh |-> TRUE]
  <2>1. c.step = "lease" /\ c.what \in {"retry", "abort"} /\ Turns(h, c)
    BY <1>4 DEF Dispose, Turns
  <2> HIDE DEF c
  <2> QED BY <1>4, <1>begin, <2>1 DEF Dispose, asked, world
<1>5. ASSUME NEW h \in Host, CallStep(h), ~Dies(h) PROVE FileInv'
  <2>1. PICK under \in [Op -> SUBSET Op] : Layered(under)
    BY DEF FileInv
  <2>2. Busy(h) /\ Keeps(h) /\ Careful(h)
    BY <1>5, StepsKeep, StepsAreCareful
  <2>3. \A g \in Host : AtSource(g)'
    BY <2>2, SourceKept DEF FileInv
  <2>4. \E below \in [Op -> SUBSET Op] : Layered(below)'
    BY <1>5, <2>1, FileStep DEF FileInv
  <2> QED BY <2>3, <2>4 DEF FileInv
<1>6. ASSUME NEW h \in Host, Dies(h) PROVE FileInv'
  <2>1. /\ call'[h] = Idle /\ \A g \in Host \ {h} : call'[g] = call[g]
        /\ source' = source \/ source = h
        /\ UNCHANGED <<request, journal, staging, original, file>>
    BY <1>k, <1>6 DEF Dies, asked, world
  <2>2. ASSUME NEW g \in Host PROVE AtSource(g)'
    BY <2>1 DEF FileInv, AtSource, Idle, OpOf, HasRow
  <2>3. \A g \in Host : call'[g].step \in {"erase", "unclone", "drop"} => call'[g] = call[g]
    BY <2>1 DEF Idle
  <2> QED BY <2>1, <2>2, <2>3, OthersSpareTheFile
<1>7. CASE Edit \/ UNCHANGED vars
  <2>1. /\ UNCHANGED <<request, journal, staging, original, source, call>>
        /\ file' \in {file, Edited}
    BY <1>7 DEF Edit, vars, asked
  <2>2. \A g \in Host : AtSource(g)'
    BY <2>1 DEF FileInv, AtSource, OpOf, HasRow
  <2> QED BY <2>1, <2>2, OthersSpareTheFile
<1> QED BY <1>1, <1>2, <1>3, <1>4, <1>5, <1>6, <1>7 DEF Next

LEMMA InitiallyLayered ==
  ASSUME ForkAssumption, Init
  PROVE  FileInv
<1> DEFINE under == [o \in Op |-> {}]
<1>1. under \in [Op -> SUBSET Op] /\ \A o \in Op : under[o] = {}
  OBVIOUS
<1> HIDE DEF under
<1>2. Layered(under)
  BY <1>1 DEF Init, Layered, Layers, Frozen, HasRow, TakenBack, Absent, Idle, ForkAssumption
<1>3. \A h \in Host : AtSource(h)
  BY DEF Init, AtSource, Idle
<1> QED BY <1>1, <1>2, <1>3 DEF FileInv

\* However restorations, rollbacks and edits come together, every restoration lies over what
\* was frozen for it and nothing that is taken back is in the file or under it.
THEOREM SagaInvariant == Spec => []SagaInv
<1>1. Init => SagaInv
  BY InitIsSound, InitiallyLayered, ForkAssumption DEF SagaInv
<1>2. SagaInv /\ [Next]_vars => SagaInv'
  BY NextKeeps, FileKept, ForkAssumption DEF SagaInv
<1> QED BY <1>1, <1>2, PTL DEF Spec

\* An aborted fork leaves no events, no session, no file history and no restored file.
THEOREM AbortedForksLeaveNothing == Spec => []AbortedLeavesNothing
<1>1. SagaInv => AbortedLeavesNothing
  <2> SUFFICES ASSUME ForkInv, FileInv, NEW o \in Op, journal[o].state = "aborted"
               PROVE  IsGone(o) /\ file # o
    BY DEF AbortedLeavesNothing, SagaInv
  <2>1. IsGone(o)
    BY DEF ForkInv, RowIsSound
  <2>2. PICK under \in [Op -> SUBSET Op] : Layered(under)
    BY DEF FileInv
  <2>3. o \notin Layers(under, file)
    BY <2>2 DEF Layered, TakenBack
  <2> QED BY <2>1, <2>3 DEF Layers
<1> QED BY <1>1, SagaInvariant, PTL
=============================================================================
